--------------------------- MODULE Requests_proofs ---------------------------
(***************************************************************************)
(* The properties of Requests that are about identities and whole          *)
(* requests, proved for every value of its constants.                      *)
(***************************************************************************)
EXTENDS Requests, FiniteSetTheorems, SequenceTheorems, TLAPS

-----------------------------------------------------------------------------
(* Identities.  How long a composed text is.                               *)

IdentityBounds == WordsAssumption /\ TokensAssumption /\ TextsAssumption

LEMMA BytesOfOne ==
  ASSUME NEW i, NEW n \in Nat
  PROVE  IsFiniteSet({i} \X (1..n)) /\ Cardinality({i} \X (1..n)) = n
<1>1. IsFiniteSet({i}) /\ Cardinality({i}) = 1
  BY FS_Singleton
<1>2. IsFiniteSet(1..n) /\ Cardinality(1..n) = n
  BY FS_Interval
<1>3. IsFiniteSet({i} \X (1..n)) /\ Cardinality({i} \X (1..n)) = Cardinality({i}) * Cardinality(1..n)
  BY <1>1, <1>2, FS_Product
<1>4. 1 * n = n
  OBVIOUS
<1> QED BY <1>1, <1>2, <1>3, <1>4

LEMMA BytesOfWord ==
  ASSUME WordsAssumption, NEW w \in DOMAIN Words
  PROVE  /\ IsFiniteSet(Bytes(<<w>>)) /\ Cardinality(Bytes(<<w>>)) = Words[w].len
         /\ Length(<<w>>) = Words[w].len
<1>1. Bytes(<<w>>) = {1} \X (1..Words[w].len)
  <2>1. DOMAIN <<w>> = {1} /\ <<w>>[1] = w
    OBVIOUS
  <2> QED BY <2>1 DEF Bytes
<1>2. Words[w].len \in Nat
  BY DEF WordsAssumption
<1>3. IsFiniteSet(Bytes(<<w>>)) /\ Cardinality(Bytes(<<w>>)) = Words[w].len
  <2>1. /\ IsFiniteSet({1} \X (1..Words[w].len))
        /\ Cardinality({1} \X (1..Words[w].len)) = Words[w].len
    BY <1>2, BytesOfOne, Zenon
  <2> QED BY <1>1, <2>1, Zenon
<1> QED BY <1>2, <1>3 DEF Length

\* A text grows by the bytes of a word.
LEMMA BytesOfMore ==
  ASSUME WordsAssumption, NEW s \in Seq(DOMAIN Words), NEW w \in DOMAIN Words,
         IsFiniteSet(Bytes(s))
  PROVE  /\ IsFiniteSet(Bytes(s \o <<w>>))
         /\ Cardinality(Bytes(s \o <<w>>)) <= Cardinality(Bytes(s)) + Words[w].len
<1> DEFINE t == s \o <<w>>
           more == {Len(s) + 1} \X (1..Words[w].len)
<1>1. Words[w].len \in Nat
  BY DEF WordsAssumption
<1>2. /\ DOMAIN t = DOMAIN s \cup {Len(s) + 1}
      /\ \A i \in DOMAIN s : t[i] = s[i]
      /\ t[Len(s) + 1] = w
  OBVIOUS
<1>3. Bytes(t) = Bytes(s) \cup more
  <2>1. ASSUME NEW x PROVE x \in Bytes(t) <=> x \in Bytes(s) \/ x \in more
    <3>1. x \in Bytes(t) <=> \E i \in DOMAIN t : x \in {i} \X (1..Words[t[i]].len)
      BY DEF Bytes
    <3>2. x \in Bytes(s) <=> \E i \in DOMAIN s : x \in {i} \X (1..Words[s[i]].len)
      BY DEF Bytes
    <3>3. x \in more <=> x \in {Len(s) + 1} \X (1..Words[t[Len(s) + 1]].len)
      BY <1>2
    <3> HIDE DEF t, more
    <3> QED BY <1>2, <3>1, <3>2, <3>3
  <2> QED BY <2>1
<1>4. IsFiniteSet(more) /\ Cardinality(more) = Words[w].len
  BY <1>1, BytesOfOne
<1>5. /\ IsFiniteSet(Bytes(s) \cup more)
      /\ Cardinality(Bytes(s) \cup more)
           = Cardinality(Bytes(s)) + Cardinality(more) - Cardinality(Bytes(s) \cap more)
  BY <1>4, FS_Union
<1>6. IsFiniteSet(Bytes(s) \cap more)
  BY <1>4, FS_Intersection
<1>7. Cardinality(Bytes(s) \cap more) \in Nat /\ Cardinality(Bytes(s)) \in Nat
  BY <1>6, FS_CardinalityType
<1> HIDE DEF t, more
<1>8. Cardinality(Bytes(t)) <= Cardinality(Bytes(s)) + Words[w].len
  BY <1>1, <1>3, <1>4, <1>5, <1>7
<1> QED BY <1>3, <1>5, <1>8 DEF t

\* Joining words to a text.
LEMMA JoinTwo ==
  ASSUME NEW a, NEW b
  PROVE  <<a>> \o <<b>> = <<a, b>>
<1> DEFINE S == {a, b}
<1>1. <<a>> \in Seq(S) /\ <<b>> \in Seq(S) /\ <<a, b>> \in Seq(S)
  OBVIOUS
<1> HIDE DEF S
<1>2. Len(<<a>>) = 1 /\ Len(<<b>>) = 1 /\ Len(<<a, b>>) = 2
  OBVIOUS
<1>3. <<a>> \o <<b>> \in Seq(S) /\ Len(<<a>> \o <<b>>) = 2
  BY <1>1, <1>2, ConcatProperties
<1>4. \A i \in 1..2 : (<<a>> \o <<b>>)[i] = IF i <= 1 THEN <<a>>[i] ELSE <<b>>[i - 1]
  BY <1>1, <1>2, ConcatProperties
<1>5. \A i \in 1..2 : (<<a>> \o <<b>>)[i] = <<a, b>>[i]
  BY <1>4
<1> QED BY <1>1, <1>2, <1>3, <1>5, SeqEqual

LEMMA JoinThree ==
  ASSUME NEW a, NEW b, NEW c
  PROVE  <<a, b>> \o <<c>> = <<a, b, c>>
<1> DEFINE S == {a, b, c}
<1>1. <<a, b>> \in Seq(S) /\ <<c>> \in Seq(S) /\ <<a, b, c>> \in Seq(S)
  OBVIOUS
<1> HIDE DEF S
<1>2. Len(<<a, b>>) = 2 /\ Len(<<c>>) = 1 /\ Len(<<a, b, c>>) = 3
  OBVIOUS
<1>3. <<a, b>> \o <<c>> \in Seq(S) /\ Len(<<a, b>> \o <<c>>) = 3
  BY <1>1, <1>2, ConcatProperties
<1>4. \A i \in 1..3 : (<<a, b>> \o <<c>>)[i] = IF i <= 2 THEN <<a, b>>[i] ELSE <<c>>[i - 2]
  BY <1>1, <1>2, ConcatProperties
<1>5. \A i \in 1..3 : (<<a, b>> \o <<c>>)[i] = <<a, b, c>>[i]
  BY <1>4
<1> QED BY <1>1, <1>2, <1>3, <1>5, SeqEqual

LEMMA JoinFour ==
  ASSUME NEW a, NEW b, NEW c, NEW d
  PROVE  <<a, b, c>> \o <<d>> = <<a, b, c, d>>
<1> DEFINE S == {a, b, c, d}
<1>1. <<a, b, c>> \in Seq(S) /\ <<d>> \in Seq(S) /\ <<a, b, c, d>> \in Seq(S)
  OBVIOUS
<1> HIDE DEF S
<1>2. Len(<<a, b, c>>) = 3 /\ Len(<<d>>) = 1 /\ Len(<<a, b, c, d>>) = 4
  OBVIOUS
<1>3. <<a, b, c>> \o <<d>> \in Seq(S) /\ Len(<<a, b, c>> \o <<d>>) = 4
  BY <1>1, <1>2, ConcatProperties
<1>4. \A i \in 1..4 : (<<a, b, c>> \o <<d>>)[i] = IF i <= 3 THEN <<a, b, c>>[i] ELSE <<d>>[i - 3]
  BY <1>1, <1>2, ConcatProperties
<1>5. \A i \in 1..4 : (<<a, b, c>> \o <<d>>)[i] = <<a, b, c, d>>[i]
  BY <1>4
<1> QED BY <1>1, <1>2, <1>3, <1>5, SeqEqual

LEMMA JoinedThree ==
  ASSUME NEW a, NEW b, NEW c
  PROVE  <<a>> \o <<b>> \o <<c>> = <<a, b, c>>
<1>1. <<a>> \o <<b>> = <<a, b>>
  BY JoinTwo
<1>2. <<a, b>> \o <<c>> = <<a, b, c>>
  BY JoinThree
<1> QED BY <1>1, <1>2, Zenon

LEMMA JoinedFour ==
  ASSUME NEW a, NEW b, NEW c, NEW d
  PROVE  <<a>> \o <<b>> \o <<c>> \o <<d>> = <<a, b, c, d>>
<1>1. <<a>> \o <<b>> \o <<c>> = <<a, b, c>>
  BY JoinedThree
<1>2. <<a, b, c>> \o <<d>> = <<a, b, c, d>>
  BY JoinFour
<1> QED BY <1>1, <1>2, Zenon

LEMMA ThreeAreNotFour ==
  ASSUME NEW a, NEW b, NEW c, NEW d, NEW e, NEW f, NEW g
  PROVE  <<a, b, c>> # <<d, e, f, g>>
<1>1. Len(<<a, b, c>>) = 3 /\ Len(<<d, e, f, g>>) = 4
  OBVIOUS
<1> QED BY <1>1

LEMMA LengthOfThree ==
  ASSUME WordsAssumption, NEW a \in DOMAIN Words, NEW b \in DOMAIN Words, NEW c \in DOMAIN Words
  PROVE  /\ Length(<<a, b, c>>) \in Int
         /\ Length(<<a, b, c>>) <= Words[a].len + Words[b].len + Words[c].len + 2
<1>1. Words[a].len \in Nat /\ Words[b].len \in Nat /\ Words[c].len \in Nat
  BY DEF WordsAssumption
<1>2. IsFiniteSet(Bytes(<<a>>)) /\ Cardinality(Bytes(<<a>>)) = Words[a].len
  BY BytesOfWord
<1>3. <<a>> \o <<b>> = <<a, b>> /\ <<a, b>> \o <<c>> = <<a, b, c>>
  BY JoinTwo, JoinThree
<1>4. /\ IsFiniteSet(Bytes(<<a, b>>))
      /\ Cardinality(Bytes(<<a, b>>)) <= Words[a].len + Words[b].len
  <2>1. <<a>> \in Seq(DOMAIN Words)
    OBVIOUS
  <2> QED BY <1>2, <1>3, <2>1, BytesOfMore
<1>5. /\ IsFiniteSet(Bytes(<<a, b, c>>))
      /\ Cardinality(Bytes(<<a, b, c>>)) <= Cardinality(Bytes(<<a, b>>)) + Words[c].len
  <2>1. <<a, b>> \in Seq(DOMAIN Words)
    OBVIOUS
  <2> QED BY <1>3, <1>4, <2>1, BytesOfMore
<1>6. Cardinality(Bytes(<<a, b, c>>)) \in Nat /\ Cardinality(Bytes(<<a, b>>)) \in Nat
  BY <1>4, <1>5, FS_CardinalityType
<1>7. Len(<<a, b, c>>) = 3
  OBVIOUS
<1> QED BY <1>1, <1>4, <1>5, <1>6, <1>7 DEF Length

LEMMA LengthOfFour ==
  ASSUME WordsAssumption, NEW a \in DOMAIN Words, NEW b \in DOMAIN Words,
         NEW c \in DOMAIN Words, NEW d \in DOMAIN Words
  PROVE  /\ Length(<<a, b, c, d>>) \in Int
         /\ Length(<<a, b, c, d>>)
              <= Words[a].len + Words[b].len + Words[c].len + Words[d].len + 3
<1>1. /\ Words[a].len \in Nat /\ Words[b].len \in Nat
      /\ Words[c].len \in Nat /\ Words[d].len \in Nat
  BY DEF WordsAssumption
<1>2. IsFiniteSet(Bytes(<<a>>)) /\ Cardinality(Bytes(<<a>>)) = Words[a].len
  BY BytesOfWord
<1>3. /\ <<a>> \o <<b>> = <<a, b>> /\ <<a, b>> \o <<c>> = <<a, b, c>>
      /\ <<a, b, c>> \o <<d>> = <<a, b, c, d>>
  BY JoinTwo, JoinThree, JoinFour
<1>4. /\ IsFiniteSet(Bytes(<<a, b>>))
      /\ Cardinality(Bytes(<<a, b>>)) <= Words[a].len + Words[b].len
  <2>1. <<a>> \in Seq(DOMAIN Words)
    OBVIOUS
  <2> QED BY <1>2, <1>3, <2>1, BytesOfMore
<1>5. /\ IsFiniteSet(Bytes(<<a, b, c>>))
      /\ Cardinality(Bytes(<<a, b, c>>)) <= Cardinality(Bytes(<<a, b>>)) + Words[c].len
  <2>1. <<a, b>> \in Seq(DOMAIN Words)
    OBVIOUS
  <2> QED BY <1>3, <1>4, <2>1, BytesOfMore
<1>6. /\ IsFiniteSet(Bytes(<<a, b, c, d>>))
      /\ Cardinality(Bytes(<<a, b, c, d>>)) <= Cardinality(Bytes(<<a, b, c>>)) + Words[d].len
  <2>1. <<a, b, c>> \in Seq(DOMAIN Words)
    OBVIOUS
  <2> QED BY <1>3, <1>5, <2>1, BytesOfMore
<1>7. /\ Cardinality(Bytes(<<a, b, c>>)) \in Nat /\ Cardinality(Bytes(<<a, b>>)) \in Nat
      /\ Cardinality(Bytes(<<a, b, c, d>>)) \in Nat
  BY <1>4, <1>5, <1>6, FS_CardinalityType
<1>8. Len(<<a, b, c, d>>) = 4
  OBVIOUS
<1> QED BY <1>1, <1>4, <1>5, <1>6, <1>7, <1>8 DEF Length

-----------------------------------------------------------------------------
(* What a valid text is.                                                   *)

Texts == [segs : Seq(DOMAIN Words) \ {<< >>}, padded : BOOLEAN]
Raw(segs) == [segs |-> segs, padded |-> FALSE]

\* A bounded text is one word of an alphabet and a length.
LEMMA OneWord ==
  ASSUME IdentityBounds, NEW max \in Nat, NEW refused,
         NEW t \in Texts,
         Bounded(t, max, refused)
  PROVE  \E w \in DOMAIN Words : /\ t.segs = <<w>> /\ Words[w].trait \in Traits \ refused
                                 /\ Words[w].len \in 0..max
<1>1. t.segs \in Seq(DOMAIN Words) /\ Len(t.segs) = 1
  BY DEF Bounded, Texts
<1>2. PICK w \in DOMAIN Words : t.segs = <<w>>
  <2>1. t.segs[1] \in DOMAIN Words
    BY <1>1
  <2>2. t.segs = <<t.segs[1]>>
    BY <1>1
  <2> QED BY <2>1, <2>2
<1>3. Words[w].trait \in Traits \ refused
  <2>1. Words[w].trait \notin refused
    <3>1. 1 \in DOMAIN t.segs /\ t.segs[1] = w
      BY <1>2
    <3> QED BY <3>1 DEF Bounded, Has
  <2> QED BY <2>1 DEF IdentityBounds, WordsAssumption
<1>4. Words[w].len \in 0..max
  <2>1. Length(<<w>>) = Words[w].len /\ Words[w].len \in Nat
    BY BytesOfWord DEF IdentityBounds, WordsAssumption
  <2>2. Length(<<w>>) <= max
    BY <1>2 DEF Bounded
  <2> QED BY <2>1, <2>2
<1> QED BY <1>2, <1>3, <1>4

LEMMA NamespaceIs ==
  ASSUME IdentityBounds, NEW n \in Namespaces
  PROVE  \E w \in DOMAIN Words : n = <<w>> /\ Words[w].len \in 0..16
<1>1. PICK t \in RawNamespaces : n = Namespace(t) /\ Namespace(t) # Invalid
  BY DEF Namespaces, Valid
<1>2. Bounded(t, NamespaceMax, Traits \ {"lower"}) /\ n = t.segs
  BY <1>1 DEF Namespace
<1>3. t \in Texts
  BY DEF IdentityBounds, TextsAssumption, Texts
<1> QED BY <1>2, <1>3, OneWord DEF NamespaceMax

\* The words of an order's key are stored as they are.
OrderWord(w) ==
  /\ w \in DOMAIN Words /\ Words[w].len \in 0..40
  /\ Words[w].trait \in {"lower", "plain", "leading", "nonascii"}

LEMMA OrderKeyIs ==
  ASSUME IdentityBounds, NEW t \in RawKeys, OrderKey(t) # Invalid
  PROVE  \E w : OrderWord(w) /\ OrderKey(t) = <<w>> /\ t = Raw(<<w>>)
<1>1. /\ ~t.padded /\ OrderKey(t) = t.segs
      /\ Bounded(t, OrderKeyMax, {"control", "space", "decomposed", "nonxml"})
  BY DEF OrderKey, OrderKeyParse
<1>2. t \in Texts
  BY DEF IdentityBounds, TextsAssumption, Texts
<1>3. PICK w \in DOMAIN Words :
        /\ t.segs = <<w>> /\ Words[w].len \in 0..40
        /\ Words[w].trait \in Traits \ {"control", "space", "decomposed", "nonxml"}
  <2>1. Bounded(t, 40, {"control", "space", "decomposed", "nonxml"}) /\ 40 \in Nat
    BY <1>1 DEF OrderKeyMax
  <2>2. \E w \in DOMAIN Words : /\ t.segs = <<w>>
                                /\ Words[w].trait \in Traits \ {"control", "space", "decomposed", "nonxml"}
                                /\ Words[w].len \in 0..40
    BY <1>2, <2>1, OneWord
  <2> QED BY <2>2, Zenon
<1>4. OrderWord(w)
  BY <1>3 DEF OrderWord, Traits
<1>5. t = Raw(<<w>>)
  <2>1. t = [segs |-> t.segs, padded |-> t.padded] /\ t.padded \in BOOLEAN
    BY <1>2 DEF Texts
  <2>2. t.padded = FALSE
    BY <1>1, <2>1
  <2> QED BY <1>3, <2>1, <2>2, Zenon DEF Raw
<1> QED BY <1>1, <1>3, <1>4, <1>5

LEMMA InvoiceNumberIs ==
  ASSUME IdentityBounds, NEW t \in RawNumbers, InvoiceNumber(t) # Invalid
  PROVE  \E w \in DOMAIN Words :
           Words[w].len \in 0..40 /\ InvoiceNumber(t) = <<w>> /\ t = Raw(<<w>>)
<1>1. /\ ~t.padded /\ InvoiceNumber(t) = t.segs
      /\ Bounded(t, InvoiceNumberMax, {"control", "space", "nonxml"})
  BY DEF InvoiceNumber
<1>2. t \in Texts
  BY DEF IdentityBounds, TextsAssumption, Texts
<1>3. PICK w \in DOMAIN Words : t.segs = <<w>> /\ Words[w].len \in 0..40
  <2>1. Bounded(t, 40, {"control", "space", "nonxml"}) /\ 40 \in Nat
    BY <1>1 DEF InvoiceNumberMax
  <2>2. \E w \in DOMAIN Words : /\ t.segs = <<w>>
                                /\ Words[w].trait \in Traits \ {"control", "space", "nonxml"}
                                /\ Words[w].len \in 0..40
    BY <1>2, <2>1, OneWord
  <2> QED BY <2>2, Zenon
<1>4. t = Raw(<<w>>)
  <2>1. t = [segs |-> t.segs, padded |-> t.padded] /\ t.padded \in BOOLEAN
    BY <1>2 DEF Texts
  <2>2. t.padded = FALSE
    BY <1>1, <2>1
  <2> QED BY <1>3, <2>1, <2>2, Zenon DEF Raw
<1> QED BY <1>1, <1>3, <1>4

LEMMA CorrectionIdIs ==
  ASSUME IdentityBounds, NEW t \in RawCorrections, CorrectionId(t) # Invalid
  PROVE  \E w \in DOMAIN Words :
           /\ Words[w].len \in 0..40 /\ CorrectionId(t) = <<w>> /\ t = Raw(<<w>>)
           /\ w # "storno"
<1>1. /\ ~t.padded /\ CorrectionId(t) = t.segs /\ ~is_token(Head(t.segs))
      /\ Bounded(t, CorrectionIdMax, Traits \ {"lower", "plain"})
  BY DEF CorrectionId
<1>2. t \in Texts
  BY DEF IdentityBounds, TextsAssumption, Texts
<1>3. PICK w \in DOMAIN Words : t.segs = <<w>> /\ Words[w].len \in 0..40
  <2>1. Bounded(t, 40, Traits \ {"lower", "plain"}) /\ 40 \in Nat
    BY <1>1 DEF CorrectionIdMax
  <2>2. \E w \in DOMAIN Words : /\ t.segs = <<w>> /\ Words[w].trait \in Traits \ (Traits \ {"lower", "plain"})
                                /\ Words[w].len \in 0..40
    BY <1>2, <2>1, OneWord
  <2> QED BY <2>2, Zenon
<1>4. t = Raw(<<w>>)
  <2>1. t = [segs |-> t.segs, padded |-> t.padded] /\ t.padded \in BOOLEAN
    BY <1>2 DEF Texts
  <2>2. t.padded = FALSE
    BY <1>1, <2>1
  <2> QED BY <1>3, <2>1, <2>2, Zenon DEF Raw
<1>5. w # "storno"
  <2>1. ~is_token(w)
    BY <1>1, <1>3
  <2> QED BY <2>1 DEF is_token, IdentityBounds, TokensAssumption, TOKENS
<1> QED BY <1>1, <1>3, <1>4, <1>5

-----------------------------------------------------------------------------
(* What a call is.                                                         *)

\* The four forms of a call, by the words it was composed of.
KindCall(n, o, k) ==
  [object |-> Raw(<<o>>), id |-> <<n, o, k>>, type |-> k, order |-> <<o>>, refers |-> NoNumber,
   by |-> [namespace |-> <<n>>, order |-> <<o>>, type |-> k, named |-> NoKey]]

CorrectiveCall(n, o, c) ==
  [object |-> Raw(<<o>>), id |-> <<n, o, "corrective", c>>, type |-> "corrective",
   order |-> <<o>>, refers |-> NoNumber,
   by |-> [namespace |-> <<n>>, order |-> <<o>>, type |-> "corrective", named |-> Raw(<<c>>)]]

StornoCall(n, o, m) ==
  [object |-> Raw(<<o>>), id |-> <<n, o, "storno", m>>, type |-> "storno",
   order |-> <<o>>, refers |-> <<m>>,
   by |-> [namespace |-> <<n>>, order |-> <<o>>, type |-> "storno", named |-> Raw(<<m>>)]]

UnmanagedCall(n, m) ==
  [object |-> NoKey, id |-> <<n, "by-number", m, "storno">>, type |-> "storno",
   order |-> NoNumber, refers |-> <<m>>,
   by |-> [namespace |-> <<n>>, order |-> NoNumber, type |-> "storno", named |-> Raw(<<m>>)]]

NamespaceWord(w) == w \in DOMAIN Words /\ Words[w].len \in 0..16
NumberWord(w) == w \in DOMAIN Words /\ Words[w].len \in 0..40
CorrectionWord(w) == NumberWord(w) /\ w # "storno"

Form(call) ==
  \/ \E n, o, k : /\ NamespaceWord(n) /\ OrderWord(o) /\ k \in DocumentKinds
                  /\ call = KindCall(n, o, k)
  \/ \E n, o, c : /\ NamespaceWord(n) /\ OrderWord(o) /\ CorrectionWord(c)
                  /\ call = CorrectiveCall(n, o, c)
  \/ \E n, o, m : /\ NamespaceWord(n) /\ OrderWord(o) /\ NumberWord(m)
                  /\ call = StornoCall(n, o, m)
  \/ \E n, m : NamespaceWord(n) /\ NumberWord(m) /\ call = UnmanagedCall(n, m)

LEMMA KeyIsNoKey ==
  ASSUME NEW w
  PROVE  Raw(<<w>>) # NoKey
BY DEF Raw, NoKey

LEMMA CallsHaveForms ==
  ASSUME IdentityBounds, NEW call \in Calls
  PROVE  Form(call)
<1>1. CASE call \in KindCalls
  <2>1. PICK n \in Namespaces, t \in RawKeys, k \in DocumentKinds :
          /\ OrderKey(t) # Invalid
          /\ call = Call(n, t, NoKey, ForKind(n, OrderKey(t), k), k, NoNumber)
    BY <1>1 DEF KindCalls, Valid
  <2>2. PICK v : NamespaceWord(v) /\ n = <<v>>
    BY NamespaceIs DEF NamespaceWord
  <2>3. PICK o : OrderWord(o) /\ OrderKey(t) = <<o>> /\ t = Raw(<<o>>)
    BY <2>1, OrderKeyIs
  <2>4. ForKind(n, OrderKey(t), k) = <<v, o, k>>
    BY <2>2, <2>3, JoinedThree DEF ForKind
  <2>5. t # NoKey
    BY <2>3, KeyIsNoKey
  <2>6. call = KindCall(v, o, k)
    BY <2>1, <2>2, <2>3, <2>4, <2>5 DEF Call, KindCall
  <2> QED BY <2>2, <2>3, <2>6 DEF Form
<1>2. CASE call \in CorrectiveCalls
  <2>1. PICK n \in Namespaces, t \in RawKeys, c \in RawCorrections :
          /\ OrderKey(t) # Invalid /\ CorrectionId(c) # Invalid
          /\ call = Call(n, t, c, ForCorrective(n, OrderKey(t), CorrectionId(c)), "corrective", NoNumber)
    BY <1>2 DEF CorrectiveCalls, Valid
  <2>2. PICK v : NamespaceWord(v) /\ n = <<v>>
    BY NamespaceIs DEF NamespaceWord
  <2>3. PICK o : OrderWord(o) /\ OrderKey(t) = <<o>> /\ t = Raw(<<o>>)
    BY <2>1, OrderKeyIs
  <2>4. PICK w : CorrectionWord(w) /\ CorrectionId(c) = <<w>> /\ c = Raw(<<w>>)
    BY <2>1, CorrectionIdIs DEF CorrectionWord, NumberWord
  <2>5. ForCorrective(n, OrderKey(t), CorrectionId(c)) = <<v, o, "corrective", w>>
    BY <2>2, <2>3, <2>4, JoinedFour DEF ForCorrective
  <2>6. t # NoKey
    BY <2>3, KeyIsNoKey
  <2>7. call = CorrectiveCall(v, o, w)
    BY <2>1, <2>2, <2>3, <2>4, <2>5, <2>6 DEF Call, CorrectiveCall
  <2> QED BY <2>2, <2>3, <2>4, <2>7 DEF Form
<1>3. CASE call \in StornoCalls
  <2>1. PICK n \in Namespaces, t \in RawKeys, c \in RawNumbers :
          /\ OrderKey(t) # Invalid /\ InvoiceNumber(c) # Invalid
          /\ call = Call(n, t, c, ForStorno(n, OrderKey(t), InvoiceNumber(c)), "storno", InvoiceNumber(c))
    BY <1>3 DEF StornoCalls, Valid
  <2>2. PICK v : NamespaceWord(v) /\ n = <<v>>
    BY NamespaceIs DEF NamespaceWord
  <2>3. PICK o : OrderWord(o) /\ OrderKey(t) = <<o>> /\ t = Raw(<<o>>)
    BY <2>1, OrderKeyIs
  <2>4. PICK w : NumberWord(w) /\ InvoiceNumber(c) = <<w>> /\ c = Raw(<<w>>)
    BY <2>1, InvoiceNumberIs DEF NumberWord
  <2>5. ForStorno(n, OrderKey(t), InvoiceNumber(c)) = <<v, o, "storno", w>>
    BY <2>2, <2>3, <2>4, JoinedFour DEF ForStorno
  <2>6. t # NoKey
    BY <2>3, KeyIsNoKey
  <2>7. call = StornoCall(v, o, w)
    BY <2>1, <2>2, <2>3, <2>4, <2>5, <2>6 DEF Call, StornoCall
  <2> QED BY <2>2, <2>3, <2>4, <2>7 DEF Form
<1>4. CASE call \in UnmanagedCalls
  <2>1. PICK n \in Namespaces, c \in RawNumbers :
          /\ InvoiceNumber(c) # Invalid
          /\ call = Call(n, NoKey, c, ForUnmanagedStorno(n, InvoiceNumber(c)), "storno", InvoiceNumber(c))
    BY <1>4 DEF UnmanagedCalls, Valid
  <2>2. PICK v : NamespaceWord(v) /\ n = <<v>>
    BY NamespaceIs DEF NamespaceWord
  <2>3. PICK w : NumberWord(w) /\ InvoiceNumber(c) = <<w>> /\ c = Raw(<<w>>)
    BY <2>1, InvoiceNumberIs DEF NumberWord
  <2>4. ForUnmanagedStorno(n, InvoiceNumber(c)) = <<v, "by-number", w, "storno">>
    BY <2>2, <2>3, JoinedFour DEF ForUnmanagedStorno
  <2>5. call = UnmanagedCall(v, w)
    BY <2>1, <2>2, <2>3, <2>4 DEF Call, UnmanagedCall
  <2> QED BY <2>2, <2>3, <2>5 DEF Form
<1> QED BY <1>1, <1>2, <1>3, <1>4 DEF Calls

\* Every composed id fits.
LEMMA IdsFit ==
  ASSUME IdentityBounds, NEW call, Form(call)
  PROVE  StoredId(call.id) = call.id /\ Length(call.id) <= ExternalIdMax
<1>1. Length(call.id) <= 110
  <2>1. ASSUME NEW n, NEW o, NEW k \in DocumentKinds, NamespaceWord(n), OrderWord(o),
               call = KindCall(n, o, k)
        PROVE  Length(call.id) <= 110
    <3>1. k \in DOMAIN Words /\ Words[k].len \in 0..10
      BY DEF IdentityBounds, TokensAssumption, TokenLen, TOKENS, DocumentKinds, IssuedKinds
    <3>2. /\ Length(<<n, o, k>>) \in Int
          /\ Length(<<n, o, k>>) <= Words[n].len + Words[o].len + Words[k].len + 2
      BY <2>1, <3>1, LengthOfThree DEF NamespaceWord, OrderWord, NumberWord, CorrectionWord, IdentityBounds
    <3>3. call.id = <<n, o, k>>
      BY <2>1 DEF KindCall
    <3> QED BY <2>1, <3>1, <3>2, <3>3 DEF NamespaceWord, OrderWord, NumberWord, CorrectionWord
  <2>2. ASSUME NEW n, NEW o, NEW c, NamespaceWord(n), OrderWord(o), CorrectionWord(c),
               call = CorrectiveCall(n, o, c)
        PROVE  Length(call.id) <= 110
    <3>1. "corrective" \in DOMAIN Words /\ Words["corrective"].len \in 0..10
      BY DEF IdentityBounds, TokensAssumption, TokenLen, TOKENS, DocumentKinds, IssuedKinds
    <3>2. /\ Length(<<n, o, "corrective", c>>) \in Int
          /\ Length(<<n, o, "corrective", c>>)
               <= Words[n].len + Words[o].len + Words["corrective"].len + Words[c].len + 3
      BY <2>2, <3>1, LengthOfFour DEF NamespaceWord, OrderWord, NumberWord, CorrectionWord, IdentityBounds
    <3>3. call.id = <<n, o, "corrective", c>>
      BY <2>2 DEF CorrectiveCall
    <3> QED BY <2>2, <3>1, <3>2, <3>3 DEF NamespaceWord, OrderWord, NumberWord, CorrectionWord
  <2>3. ASSUME NEW n, NEW o, NEW m, NamespaceWord(n), OrderWord(o), NumberWord(m),
               call = StornoCall(n, o, m)
        PROVE  Length(call.id) <= 110
    <3>1. "storno" \in DOMAIN Words /\ Words["storno"].len \in 0..10
      BY DEF IdentityBounds, TokensAssumption, TokenLen, TOKENS, DocumentKinds, IssuedKinds
    <3>2. /\ Length(<<n, o, "storno", m>>) \in Int
          /\ Length(<<n, o, "storno", m>>)
               <= Words[n].len + Words[o].len + Words["storno"].len + Words[m].len + 3
      BY <2>3, <3>1, LengthOfFour DEF NamespaceWord, OrderWord, NumberWord, CorrectionWord, IdentityBounds
    <3>3. call.id = <<n, o, "storno", m>>
      BY <2>3 DEF StornoCall
    <3> QED BY <2>3, <3>1, <3>2, <3>3 DEF NamespaceWord, OrderWord, NumberWord, CorrectionWord
  <2>4. ASSUME NEW n, NEW m, NamespaceWord(n), NumberWord(m),
               call = UnmanagedCall(n, m)
        PROVE  Length(call.id) <= 110
    <3>1. /\ "storno" \in DOMAIN Words /\ Words["storno"].len \in 0..10
          /\ "by-number" \in DOMAIN Words /\ Words["by-number"].len \in 0..10
      BY DEF IdentityBounds, TokensAssumption, TokenLen, TOKENS, DocumentKinds, IssuedKinds
    <3>2. /\ Length(<<n, "by-number", m, "storno">>) \in Int
          /\ Length(<<n, "by-number", m, "storno">>)
               <= Words[n].len + Words["by-number"].len + Words[m].len + Words["storno"].len + 3
      BY <2>4, <3>1, LengthOfFour DEF NamespaceWord, OrderWord, NumberWord, CorrectionWord, IdentityBounds
    <3>3. call.id = <<n, "by-number", m, "storno">>
      BY <2>4 DEF UnmanagedCall
    <3> QED BY <2>4, <3>1, <3>2, <3>3 DEF NamespaceWord, OrderWord, NumberWord, CorrectionWord
  <2> QED BY <2>1, <2>2, <2>3, <2>4 DEF Form
<1> QED BY <1>1 DEF StoredId, ExternalIdMax

-----------------------------------------------------------------------------
(* Two calls.                                                              *)

\* Two calls that compose one id are one call, or reverse one invoice.
Agree(c, d) ==
  \/ c = d
  \/ c.type = "storno" /\ d.type = "storno" /\ c.refers = d.refers

LEMMA IdsAreApart ==
  ASSUME NEW c, NEW d, Form(c), Form(d), c.id = d.id
  PROVE  Agree(c, d)
<1>1. ASSUME NEW n, NEW o, NEW k \in DocumentKinds, c = KindCall(n, o, k)
      PROVE  Agree(c, d)
  <2>1. c.id = <<n, o, k>>
    BY <1>1 DEF KindCall
  <2>2. ASSUME NEW v, NEW p, NEW l, d = KindCall(v, p, l) PROVE c = d
    <3>1. <<n, o, k>> = <<v, p, l>>
      BY <2>1, <2>2 DEF KindCall
    <3>2. n = v /\ o = p /\ k = l
      BY <3>1
    <3> QED BY <1>1, <2>2, <3>2
  <2>3. ASSUME NEW v, NEW p, NEW w, d = CorrectiveCall(v, p, w) PROVE FALSE
    <3>1. d.id = <<v, p, "corrective", w>>
      BY <2>3 DEF CorrectiveCall
    <3> QED BY <2>1, <3>1, ThreeAreNotFour
  <2>4. ASSUME NEW v, NEW p, NEW w, d = StornoCall(v, p, w) PROVE FALSE
    <3>1. d.id = <<v, p, "storno", w>>
      BY <2>4 DEF StornoCall
    <3> QED BY <2>1, <3>1, ThreeAreNotFour
  <2>5. ASSUME NEW v, NEW w, d = UnmanagedCall(v, w) PROVE FALSE
    <3>1. d.id = <<v, "by-number", w, "storno">>
      BY <2>5 DEF UnmanagedCall
    <3> QED BY <2>1, <3>1, ThreeAreNotFour
  <2> QED BY <2>2, <2>3, <2>4, <2>5 DEF Form, Agree
<1>2. ASSUME NEW n, NEW o, NEW m, CorrectionWord(m), c = CorrectiveCall(n, o, m)
      PROVE  Agree(c, d)
  <2>1. c.id = <<n, o, "corrective", m>>
    BY <1>2 DEF CorrectiveCall
  <2>2. ASSUME NEW v, NEW p, NEW l, d = KindCall(v, p, l) PROVE FALSE
    <3>1. d.id = <<v, p, l>>
      BY <2>2 DEF KindCall
    <3> QED BY <2>1, <3>1, ThreeAreNotFour
  <2>3. ASSUME NEW v, NEW p, NEW w, d = CorrectiveCall(v, p, w) PROVE c = d
    <3>1. <<n, o, "corrective", m>> = <<v, p, "corrective", w>>
      BY <2>1, <2>3 DEF CorrectiveCall
    <3>2. n = v /\ o = p /\ m = w
      BY <3>1
    <3> QED BY <1>2, <2>3, <3>2
  <2>4. ASSUME NEW v, NEW p, NEW w, d = StornoCall(v, p, w) PROVE FALSE
    <3>1. <<n, o, "corrective", m>> = <<v, p, "storno", w>>
      BY <2>1, <2>4 DEF StornoCall
    <3> QED BY <3>1
  <2>5. ASSUME NEW v, NEW w, d = UnmanagedCall(v, w) PROVE FALSE
    <3>1. <<n, o, "corrective", m>> = <<v, "by-number", w, "storno">>
      BY <2>1, <2>5 DEF UnmanagedCall
    <3> QED BY <1>2, <3>1 DEF CorrectionWord
  <2> QED BY <2>2, <2>3, <2>4, <2>5 DEF Form, Agree
<1>3. ASSUME NEW n, NEW o, NEW m, c = StornoCall(n, o, m)
      PROVE  Agree(c, d)
  <2>1. c.id = <<n, o, "storno", m>>
    BY <1>3 DEF StornoCall
  <2>2. ASSUME NEW v, NEW p, NEW l, d = KindCall(v, p, l) PROVE FALSE
    <3>1. d.id = <<v, p, l>>
      BY <2>2 DEF KindCall
    <3> QED BY <2>1, <3>1, ThreeAreNotFour
  <2>3. ASSUME NEW v, NEW p, NEW w, d = CorrectiveCall(v, p, w) PROVE FALSE
    <3>1. <<n, o, "storno", m>> = <<v, p, "corrective", w>>
      BY <2>1, <2>3 DEF CorrectiveCall
    <3> QED BY <3>1
  <2>4. ASSUME NEW v, NEW p, NEW w, d = StornoCall(v, p, w) PROVE c = d
    <3>1. <<n, o, "storno", m>> = <<v, p, "storno", w>>
      BY <2>1, <2>4 DEF StornoCall
    <3>2. n = v /\ o = p /\ m = w
      BY <3>1
    <3> QED BY <1>3, <2>4, <3>2
  <2>5. ASSUME NEW v, NEW w, d = UnmanagedCall(v, w) PROVE Agree(c, d)
    <3>1. <<n, o, "storno", m>> = <<v, "by-number", w, "storno">>
      BY <2>1, <2>5 DEF UnmanagedCall
    <3>2. m = "storno" /\ w = "storno"
      BY <3>1
    <3> QED BY <1>3, <2>5, <3>2 DEF Agree, StornoCall, UnmanagedCall
  <2> QED BY <2>2, <2>3, <2>4, <2>5 DEF Form, Agree
<1>4. ASSUME NEW n, NEW m, c = UnmanagedCall(n, m)
      PROVE  Agree(c, d)
  <2>1. c.id = <<n, "by-number", m, "storno">>
    BY <1>4 DEF UnmanagedCall
  <2>2. ASSUME NEW v, NEW p, NEW l, d = KindCall(v, p, l) PROVE FALSE
    <3>1. d.id = <<v, p, l>>
      BY <2>2 DEF KindCall
    <3> QED BY <2>1, <3>1, ThreeAreNotFour
  <2>3. ASSUME NEW v, NEW p, NEW w, CorrectionWord(w), d = CorrectiveCall(v, p, w) PROVE FALSE
    <3>1. <<n, "by-number", m, "storno">> = <<v, p, "corrective", w>>
      BY <2>1, <2>3 DEF CorrectiveCall
    <3> QED BY <2>3, <3>1 DEF CorrectionWord
  <2>4. ASSUME NEW v, NEW p, NEW w, d = StornoCall(v, p, w) PROVE Agree(c, d)
    <3>1. <<n, "by-number", m, "storno">> = <<v, p, "storno", w>>
      BY <2>1, <2>4 DEF StornoCall
    <3>2. m = "storno" /\ w = "storno"
      BY <3>1
    <3> QED BY <1>4, <2>4, <3>2 DEF Agree, StornoCall, UnmanagedCall
  <2>5. ASSUME NEW v, NEW w, d = UnmanagedCall(v, w) PROVE c = d
    <3>1. <<n, "by-number", m, "storno">> = <<v, "by-number", w, "storno">>
      BY <2>1, <2>5 DEF UnmanagedCall
    <3>2. n = v /\ m = w
      BY <3>1
    <3> QED BY <1>4, <2>5, <3>2
  <2> QED BY <2>2, <2>3, <2>4, <2>5 DEF Form, Agree
<1> QED BY <1>1, <1>2, <1>3, <1>4 DEF Form

\* A call of an order locks the object of that order; a document kind has one call
\* per deployment and order; the id begins with the deployment's namespace.
LEMMA FormSays ==
  ASSUME NEW c, Form(c)
  PROVE  /\ c.order # NoNumber => c.object = Raw(c.order)
         /\ c.by.order = c.order /\ c.by.type = c.type
         /\ c.type \in DocumentKinds => c.by.named = NoKey
         /\ NamespaceOf(c.id) = c.by.namespace
         /\ \A w : c.id # <<w, "check-account">>
         /\ c.type \in DocumentKinds => \E n, o : \E k \in DocumentKinds : c = KindCall(n, o, k)
         /\ c.type = "corrective" => \E n, o, m : c = CorrectiveCall(n, o, m)
         /\ c.type = "storno" /\ c.order # NoNumber => \E n, o, m : c = StornoCall(n, o, m)
         /\ c.type = "storno" /\ c.order = NoNumber => \E n, m : c = UnmanagedCall(n, m)
<1>1. ASSUME NEW n, NEW o, NEW k \in DocumentKinds, c = KindCall(n, o, k)
      PROVE  /\ c.object = Raw(c.order) /\ c.by.named = NoKey /\ c.by.namespace = <<n>>
             /\ c.by.order = c.order /\ c.by.type = c.type /\ c.id = <<n, o, k>>
             /\ c.type \in DocumentKinds
  BY <1>1 DEF KindCall
<1>2. ASSUME NEW n, NEW o, NEW m, c = CorrectiveCall(n, o, m)
      PROVE  /\ c.object = Raw(c.order) /\ c.type = "corrective" /\ c.by.namespace = <<n>>
             /\ c.by.order = c.order /\ c.by.type = c.type /\ c.id = <<n, o, "corrective", m>>
  BY <1>2 DEF CorrectiveCall
<1>3. ASSUME NEW n, NEW o, NEW m, c = StornoCall(n, o, m)
      PROVE  /\ c.object = Raw(c.order) /\ c.type = "storno" /\ c.by.namespace = <<n>>
             /\ c.by.order = c.order /\ c.by.type = c.type /\ c.id = <<n, o, "storno", m>>
             /\ c.order # NoNumber
  BY <1>3 DEF StornoCall, NoNumber
<1>4. ASSUME NEW n, NEW m, c = UnmanagedCall(n, m)
      PROVE  /\ c.order = NoNumber /\ c.type = "storno" /\ c.by.namespace = <<n>>
             /\ c.by.order = c.order /\ c.by.type = c.type
             /\ c.id = <<n, "by-number", m, "storno">>
  BY <1>4 DEF UnmanagedCall
<1>5. \A w, x, y, z : <<w, x, y>> # <<z, "check-account">>
  <2>1. ASSUME NEW w, NEW x, NEW y, NEW z PROVE <<w, x, y>> # <<z, "check-account">>
    <3>1. Len(<<w, x, y>>) = 3 /\ Len(<<z, "check-account">>) = 2
      OBVIOUS
    <3> QED BY <3>1
  <2> QED BY <2>1
<1>6. \A v, w, x, y, z : <<v, w, x, y>> # <<z, "check-account">>
  <2>1. ASSUME NEW v, NEW w, NEW x, NEW y, NEW z PROVE <<v, w, x, y>> # <<z, "check-account">>
    <3>1. Len(<<v, w, x, y>>) = 4 /\ Len(<<z, "check-account">>) = 2
      OBVIOUS
    <3> QED BY <3>1
  <2> QED BY <2>1
<1>7. \A w, x, y : NamespaceOf(<<w, x, y>>) = <<w>>
  BY DEF NamespaceOf
<1>8. \A w, x, y, z : NamespaceOf(<<w, x, y, z>>) = <<w>>
  BY DEF NamespaceOf
<1>9. "corrective" \notin DocumentKinds /\ "storno" \notin DocumentKinds
  BY DEF DocumentKinds, IssuedKinds
<1>10. \/ \E n, o : \E k \in DocumentKinds : c = KindCall(n, o, k)
       \/ \E n, o, m : c = CorrectiveCall(n, o, m)
       \/ \E n, o, m : c = StornoCall(n, o, m)
       \/ \E n, m : c = UnmanagedCall(n, m)
  BY DEF Form
<1>11. CASE \E n, o : \E k \in DocumentKinds : c = KindCall(n, o, k)
  BY <1>1, <1>5, <1>7, <1>9, <1>11
<1>12. CASE \E n, o, m : c = CorrectiveCall(n, o, m)
  BY <1>2, <1>6, <1>8, <1>9, <1>12
<1>13. CASE \E n, o, m : c = StornoCall(n, o, m)
  BY <1>3, <1>6, <1>8, <1>9, <1>13
<1>14. CASE \E n, m : c = UnmanagedCall(n, m)
  BY <1>4, <1>6, <1>8, <1>9, <1>14
<1> QED BY <1>10, <1>11, <1>12, <1>13, <1>14

\* Who asked, and for what, determines the call.
LEMMA NamesDetermine ==
  ASSUME NEW c, NEW d, Form(c), Form(d), c.by = d.by
  PROVE  c = d
<1>1. ASSUME NEW n, NEW o, NEW k \in DocumentKinds, c = KindCall(n, o, k)
      PROVE  c = d
  <2>1. /\ c.by.namespace = <<n>> /\ c.by.order = <<o>> /\ c.by.type = k
    BY <1>1 DEF KindCall
  <2>2. ASSUME NEW v, NEW p, NEW l, d = KindCall(v, p, l) PROVE c = d
    <3>1. <<n>> = <<v>> /\ <<o>> = <<p>> /\ k = l
      BY <2>1, <2>2 DEF KindCall
    <3> QED BY <1>1, <2>2, <3>1
  <2>3. d.by.type \in DocumentKinds
    BY <2>1
  <2> QED BY <2>2, <2>3, FormSays
<1>2. ASSUME NEW n, NEW o, NEW m, c = CorrectiveCall(n, o, m)
      PROVE  c = d
  <2>1. /\ c.by.namespace = <<n>> /\ c.by.order = <<o>> /\ c.by.type = "corrective"
        /\ c.by.named = Raw(<<m>>)
    BY <1>2 DEF CorrectiveCall
  <2>2. ASSUME NEW v, NEW p, NEW w, d = CorrectiveCall(v, p, w) PROVE c = d
    <3>1. <<n>> = <<v>> /\ <<o>> = <<p>> /\ <<m>> = <<w>>
      BY <2>1, <2>2 DEF CorrectiveCall, Raw
    <3> QED BY <1>2, <2>2, <3>1
  <2>3. d.by.type = "corrective"
    BY <2>1
  <2> QED BY <2>2, <2>3, FormSays
<1>3. ASSUME NEW n, NEW o, NEW m, c = StornoCall(n, o, m)
      PROVE  c = d
  <2>1. /\ c.by.namespace = <<n>> /\ c.by.order = <<o>> /\ c.by.type = "storno"
        /\ c.by.named = Raw(<<m>>)
    BY <1>3 DEF StornoCall
  <2>2. ASSUME NEW v, NEW p, NEW w, d = StornoCall(v, p, w) PROVE c = d
    <3>1. <<n>> = <<v>> /\ <<o>> = <<p>> /\ <<m>> = <<w>>
      BY <2>1, <2>2 DEF StornoCall, Raw
    <3> QED BY <1>3, <2>2, <3>1
  <2>3. d.by.type = "storno" /\ d.by.order # NoNumber
    BY <2>1 DEF NoNumber
  <2> QED BY <2>2, <2>3, FormSays
<1>4. ASSUME NEW n, NEW m, c = UnmanagedCall(n, m)
      PROVE  c = d
  <2>1. /\ c.by.namespace = <<n>> /\ c.by.order = NoNumber /\ c.by.type = "storno"
        /\ c.by.named = Raw(<<m>>)
    BY <1>4 DEF UnmanagedCall
  <2>2. ASSUME NEW v, NEW w, d = UnmanagedCall(v, w) PROVE c = d
    <3>1. <<n>> = <<v>> /\ <<m>> = <<w>>
      BY <2>1, <2>2 DEF UnmanagedCall, Raw
    <3> QED BY <1>4, <2>2, <3>1
  <2>3. d.by.type = "storno" /\ d.by.order = NoNumber
    BY <2>1
  <2> QED BY <2>2, <2>3, FormSays
<1> QED BY <1>1, <1>2, <1>3, <1>4 DEF Form

-----------------------------------------------------------------------------
(* The inductive invariant of identities: every document is the one its    *)
(* call composed, as the call composed it, and no id has two.              *)

DocumentOf(c) ==
  [id |-> c.id, type |-> c.type, order |-> c.order, refers |-> c.refers, by |-> c.by,
   object |-> c.object]

IssuedDocuments == {DocumentOf(c) : c \in Calls}

IdentityInv ==
  /\ docs \in Seq(IssuedDocuments) /\ Len(docs) <= MaxDocs
  /\ \A i, j \in DOMAIN docs : docs[i].id = docs[j].id => i = j
  /\ answers \subseteq {"converged", "probed"}

LEMMA DocumentSays ==
  ASSUME NEW c
  PROVE  /\ DocumentOf(c).id = c.id /\ DocumentOf(c).type = c.type
         /\ DocumentOf(c).order = c.order /\ DocumentOf(c).refers = c.refers
         /\ DocumentOf(c).by = c.by /\ DocumentOf(c).object = c.object
BY DEF DocumentOf

LEMMA IssuedBy ==
  ASSUME IdentityBounds, IdentityInv, NEW i \in DOMAIN docs
  PROVE  \E c \in Calls : Form(c) /\ docs[i] = DocumentOf(c)
<1>1. docs[i] \in IssuedDocuments
  BY DEF IdentityInv
<1> QED BY <1>1, CallsHaveForms DEF IssuedDocuments

\* A query answers with the document of the call that composed the id.
LEMMA NewestIs ==
  ASSUME IdentityBounds, IdentityInv, NEW id, Holders(id) # {}
  PROVE  \E c \in Calls : Form(c) /\ Newest(id) = DocumentOf(c) /\ c.id = id
<1>1. PICK i \in DOMAIN docs : docs[i].id = id
  BY DEF Holders
<1>2. Holders(id) = {i}
  BY <1>1 DEF Holders, IdentityInv
<1>3. i \in Int
  BY DEF IdentityInv
<1>4. (CHOOSE k \in Holders(id) : \A j \in Holders(id) : j <= k) = i
  BY <1>2, <1>3
<1>5. Newest(id) = docs[i]
  BY <1>4 DEF Newest
<1>6. PICK c \in Calls : Form(c) /\ docs[i] = DocumentOf(c)
  BY IssuedBy
<1> QED BY <1>1, <1>5, <1>6, DocumentSays

\* szamlazz.hu keeps an order's number as the order's key is written.
LEMMA StoredAsWritten ==
  ASSUME IdentityBounds, NEW call, Form(call), call.order # NoNumber
  PROVE  StoredOrders(call.order) = {call.order}
<1>1. PICK o : OrderWord(o) /\ call.order = <<o>>
  <2>1. ASSUME NEW n, NEW o, NEW k, call = KindCall(n, o, k) PROVE call.order = <<o>>
    BY <2>1 DEF KindCall
  <2>2. ASSUME NEW n, NEW o, NEW k, call = CorrectiveCall(n, o, k) PROVE call.order = <<o>>
    BY <2>2 DEF CorrectiveCall
  <2>3. ASSUME NEW n, NEW o, NEW k, call = StornoCall(n, o, k) PROVE call.order = <<o>>
    BY <2>3 DEF StornoCall
  <2>4. ASSUME NEW n, NEW k, call = UnmanagedCall(n, k) PROVE FALSE
    BY <2>4 DEF UnmanagedCall
  <2> QED BY <2>1, <2>2, <2>3, <2>4 DEF Form
<1>2. Words[o].stored = o
  BY <1>1 DEF OrderWord, IdentityBounds, WordsAssumption
<1>3. [i \in DOMAIN <<o>> |-> Words[<<o>>[i]].stored] = <<o>>
  BY <1>2
<1> QED BY <1>1, <1>3 DEF StoredOrders

LEMMA IdentityStarts ==
  ASSUME IdentityBounds, Init
  PROVE  IdentityInv
BY DEF Init, IdentityInv, IdentityBounds, TextsAssumption

LEMMA IssueKeeps ==
  ASSUME IdentityBounds, IdentityInv, NEW call \in Calls, Issue(call)
  PROVE  IdentityInv'
<1>1. Form(call)
  BY CallsHaveForms
<1>2. StoredId(call.id) = call.id
  BY <1>1, IdsFit
<1>3. PICK order \in IF call.order = NoNumber THEN {NoNumber} ELSE StoredOrders(call.order) :
        docs' = Append(docs, [id |-> StoredId(call.id), type |-> call.type, order |-> order,
                              refers |-> call.refers, by |-> call.by, object |-> call.object])
  BY DEF Issue
<1>4. order = call.order
  BY <1>1, <1>3, StoredAsWritten
<1>5. docs' = Append(docs, DocumentOf(call))
  BY <1>2, <1>3, <1>4 DEF DocumentOf
<1>6. DocumentOf(call) \in IssuedDocuments
  BY DEF IssuedDocuments
<1>7. docs \in Seq(IssuedDocuments) /\ Len(docs) \in Nat
  BY DEF IdentityInv
<1>8. /\ docs' \in Seq(IssuedDocuments) /\ Len(docs') = Len(docs) + 1
      /\ DOMAIN docs' = 1..(Len(docs) + 1) /\ DOMAIN docs = 1..Len(docs)
      /\ \A i \in 1..Len(docs) : docs'[i] = docs[i]
      /\ docs'[Len(docs) + 1] = DocumentOf(call)
  BY <1>5, <1>6, <1>7, AppendProperties
<1>9. Len(docs') <= MaxDocs
  BY <1>7, <1>8 DEF Issue, IdentityBounds, TextsAssumption
<1>10. \A i \in 1..Len(docs) : docs[i].id # call.id
  BY <1>8 DEF Issue, Holders
<1>11. \A i, j \in DOMAIN docs' : docs'[i].id = docs'[j].id => i = j
  <2> SUFFICES ASSUME NEW i \in DOMAIN docs', NEW j \in DOMAIN docs', docs'[i].id = docs'[j].id
               PROVE  i = j
    OBVIOUS
  <2>1. CASE i = Len(docs) + 1 /\ j # Len(docs) + 1
    <3>1. j \in 1..Len(docs)
      BY <1>7, <1>8, <2>1
    <3> QED BY <1>8, <1>10, <2>1, <3>1, DocumentSays
  <2>2. CASE j = Len(docs) + 1 /\ i # Len(docs) + 1
    <3>1. i \in 1..Len(docs)
      BY <1>7, <1>8, <2>2
    <3> QED BY <1>8, <1>10, <2>2, <3>1, DocumentSays
  <2>3. CASE i # Len(docs) + 1 /\ j # Len(docs) + 1
    <3>1. i \in 1..Len(docs) /\ j \in 1..Len(docs)
      BY <1>7, <1>8, <2>3
    <3>2. docs[i].id = docs[j].id
      BY <1>8, <3>1
    <3> QED BY <1>8, <3>1, <3>2 DEF IdentityInv
  <2> QED BY <2>1, <2>2, <2>3
<1>12. answers' \subseteq {"converged", "probed"}
  BY DEF Issue, IdentityInv
<1> QED BY <1>8, <1>9, <1>11, <1>12 DEF IdentityInv

LEMMA FindKeeps ==
  ASSUME IdentityBounds, IdentityInv, NEW call \in Calls, Find(call)
  PROVE  IdentityInv'
<1>1. PICK c \in Calls : Form(c) /\ Newest(call.id) = DocumentOf(c) /\ c.id = call.id
  BY NewestIs DEF Find
<1>2. Agree(c, call)
  BY <1>1, CallsHaveForms, IdsAreApart
<1>3. Ours(Newest(call.id), call)
  BY <1>1, <1>2, DocumentSays DEF Ours, Agree
<1>4. answers' = answers \cup {"converged"} /\ docs' = docs
  BY <1>3 DEF Find
<1> QED BY <1>4 DEF IdentityInv

LEMMA ProbeIsFree ==
  ASSUME IdentityBounds, IdentityInv, NEW n \in Namespaces
  PROVE  Holders(ForProbe(n)) = {}
<1>1. PICK w : n = <<w>>
  BY NamespaceIs
<1>2. ForProbe(n) = <<w, "check-account">>
  BY <1>1, JoinTwo DEF ForProbe
<1>3. ASSUME NEW i \in DOMAIN docs, docs[i].id = ForProbe(n) PROVE FALSE
  <2>1. PICK c \in Calls : Form(c) /\ docs[i] = DocumentOf(c)
    BY IssuedBy
  <2> QED BY <1>2, <1>3, <2>1, DocumentSays, FormSays
<1> QED BY <1>3 DEF Holders

LEMMA IdentitySteps ==
  ASSUME IdentityBounds, IdentityInv, Next
  PROVE  IdentityInv'
<1>1. ASSUME NEW n \in Namespaces, Probe(n) PROVE IdentityInv'
  <2>1. answers' = answers \cup {"probed"} /\ docs' = docs
    BY <1>1, ProbeIsFree DEF Probe
  <2> QED BY <2>1 DEF IdentityInv
<1> QED BY <1>1, IssueKeeps, FindKeeps DEF Next

LEMMA IdentityStutters ==
  ASSUME IdentityInv, UNCHANGED forIdentity
  PROVE  IdentityInv'
BY DEF IdentityInv, forIdentity

LEMMA IdentitySays ==
  ASSUME IdentityBounds, IdentityInv
  PROVE  TypeOK /\ IdentitiesAreApart
<1>1. TypeOK
  <2>1. ASSUME NEW i \in DOMAIN docs
        PROVE  /\ Length(docs[i].id) <= ExternalIdMax
               /\ NamespaceOf(docs[i].id) = docs[i].by.namespace
    BY IssuedBy, DocumentSays, FormSays, IdsFit
  <2> QED BY <2>1 DEF TypeOK, IdentityInv
<1>2. FoundIsOwn
  <2>1. ASSUME NEW call \in Calls, Holders(call.id) # {}
        PROVE  \/ Newest(call.id).by = call.by
               \/ call.type = "storno" /\ Newest(call.id).refers = call.refers
    <3>1. PICK c \in Calls : Form(c) /\ Newest(call.id) = DocumentOf(c) /\ c.id = call.id
      BY <2>1, NewestIs
    <3>2. Agree(c, call)
      BY <3>1, CallsHaveForms, IdsAreApart
    <3> QED BY <3>1, <3>2, DocumentSays DEF Agree
  <2> QED BY <2>1 DEF FoundIsOwn, IdentityInv
<1>3. IssuedOnce
  <2> SUFFICES ASSUME NEW i \in DOMAIN docs, NEW j \in DOMAIN docs, i # j
               PROVE  /\ docs[i].by # docs[j].by
                      /\ docs[i].type = docs[j].type /\ docs[i].order = docs[j].order
                         /\ docs[i].type \in DocumentKinds
                           => docs[i].by.namespace # docs[j].by.namespace
    BY DEF IssuedOnce
  <2>1. PICK c \in Calls : Form(c) /\ docs[i] = DocumentOf(c)
    BY IssuedBy
  <2>2. PICK d \in Calls : Form(d) /\ docs[j] = DocumentOf(d)
    BY IssuedBy
  <2>3. c.id # d.id
    BY <2>1, <2>2, DocumentSays DEF IdentityInv
  <2>4. c.by # d.by
    BY <2>1, <2>2, <2>3, NamesDetermine
  <2>5. c.type = d.type /\ c.order = d.order /\ c.type \in DocumentKinds
          => c.by.namespace # d.by.namespace
    <3>1. ASSUME c.type = d.type, c.order = d.order, c.type \in DocumentKinds,
                 c.by.namespace = d.by.namespace
          PROVE  FALSE
      <4>1. PICK n, o, k : c = KindCall(n, o, k)
        BY <2>1, <3>1, FormSays
      <4>2. PICK v, p, l : d = KindCall(v, p, l)
        BY <2>2, <3>1, FormSays
      <4>3. <<n>> = <<v>> /\ <<o>> = <<p>> /\ k = l
        BY <3>1, <4>1, <4>2 DEF KindCall
      <4> QED BY <2>3, <4>1, <4>2, <4>3
    <3> QED BY <3>1
  <2> QED BY <2>1, <2>2, <2>4, <2>5, DocumentSays
<1>4. OneObjectPerOrder
  <2> SUFFICES ASSUME NEW i \in DOMAIN docs, NEW j \in DOMAIN docs,
                      docs[i].order # NoNumber, docs[i].order = docs[j].order
               PROVE  docs[i].object = docs[j].object
    BY DEF OneObjectPerOrder
  <2>1. PICK c \in Calls : Form(c) /\ docs[i] = DocumentOf(c)
    BY IssuedBy
  <2>2. PICK d \in Calls : Form(d) /\ docs[j] = DocumentOf(d)
    BY IssuedBy
  <2> QED BY <2>1, <2>2, DocumentSays, FormSays
<1>5. ProbeFindsNothing
  BY DEF ProbeFindsNothing, IdentityInv
<1> QED BY <1>1, <1>2, <1>3, <1>4, <1>5 DEF IdentitiesAreApart

-----------------------------------------------------------------------------
(* Create requests.  What a build that succeeds has passed.                *)

Money(doc, settings) ==
  Create!MonetaryPreflight(doc.items, doc.expected_totals, Create!CurrencyOf(doc, settings))

RequestOf(k, doc, settings, r) ==
  Create!CreateInvoice(Create!InvoiceKind(k, r),
    Create!Effective(doc.overrides.e_invoice, settings.e_invoice), Create!Header(doc, settings),
    Create!ToBuyer(doc.buyer, Create!Optional(doc.overrides.send_email, settings.send_email)),
    settings.seller, Money(doc, settings).items)

\* Everything but the references.
Buildable(doc, settings) ==
  /\ doc.items # <<>> /\ Create!KnownLanguage(Create!Effective(doc.overrides.language, settings.language))
  /\ ~Create!RateRefused(doc, settings)
  /\ Money(doc, settings).ok

\* A request is refused, or is made of its parts.
LEMMA BuildCreateIs ==
  ASSUME NEW k, NEW doc, NEW settings, NEW r
  PROVE  /\ Buildable(doc, settings) /\ ~Create!MissingReference(k, r) =>
              Create!BuildCreate(k, doc, settings, r)
                = [ok |-> TRUE, request |-> RequestOf(k, doc, settings, r)]
         /\ ~(Buildable(doc, settings) /\ ~Create!MissingReference(k, r)) =>
              ~Create!BuildCreate(k, doc, settings, r).ok
<1>1. \A e : ~Create!Err(e).ok
  BY DEF Create!Err
<1> QED BY <1>1 DEF Buildable, Money, RequestOf, Create!BuildCreate, Create!BuildPriced

\* Whether the Agent crate takes a request does not depend on its references.
LEMMA ReferencesDoNotMatter ==
  ASSUME NEW k, NEW doc, NEW settings, NEW r, NEW q
  PROVE  Create!ToWire(RequestOf(k, doc, settings, r)) <=> Create!ToWire(RequestOf(k, doc, settings, q))
<1> DEFINE a == RequestOf(k, doc, settings, r)
           b == RequestOf(k, doc, settings, q)
<1>1. a.items = b.items /\ a.header = b.header /\ a.buyer = b.buyer
  BY DEF RequestOf, Create!CreateInvoice
<1> HIDE DEF a, b
<1>2. Create!ToWire(a) <=> Create!ToWire(b)
  BY <1>1 DEF Create!ToWire, Create!Validate
<1> QED BY <1>2 DEF a, b

LEMMA BuildIs ==
  ASSUME NEW k, NEW doc, NEW settings, NEW r
  PROVE  /\ Create!Build(k, doc, settings, r).ok =>
              /\ Buildable(doc, settings) /\ ~Create!MissingReference(k, r)
              /\ Create!ToWire(RequestOf(k, doc, settings, r))
         /\ /\ Buildable(doc, settings) /\ ~Create!MissingReference(k, r)
            /\ Create!ToWire(RequestOf(k, doc, settings, r))
            => Create!Build(k, doc, settings, r)
                 = [ok |-> TRUE, request |-> RequestOf(k, doc, settings, r)]
<1> DEFINE result == Create!BuildCreate(k, doc, settings, r)
<1>1. Create!Build(k, doc, settings, r)
        = IF result.ok /\ ~Create!ToWire(result.request) THEN Create!Err("request") ELSE result
  BY DEF Create!Build, Create!ValidateRequest
<1>2. ~Create!Err("request").ok
  BY DEF Create!Err
<1>3. CASE Buildable(doc, settings) /\ ~Create!MissingReference(k, r)
  <2>1. result = [ok |-> TRUE, request |-> RequestOf(k, doc, settings, r)]
    BY <1>3, BuildCreateIs
  <2>2. result.ok /\ result.request = RequestOf(k, doc, settings, r)
    BY <2>1
  <2> HIDE DEF result
  <2> QED BY <1>1, <1>2, <1>3, <2>1, <2>2
<1>4. CASE ~(Buildable(doc, settings) /\ ~Create!MissingReference(k, r))
  <2>1. ~result.ok
    BY <1>4, BuildCreateIs
  <2> HIDE DEF result
  <2> QED BY <1>1, <1>4, <2>1
<1> QED BY <1>3, <1>4

\* What validation with placeholders passed, the build with the references does.
LEMMA PlaceholdersSuffice ==
  ASSUME NEW k, NEW doc, NEW settings, NEW r,
         Create!ValidateDocument(k, doc, settings), ~Create!MissingReference(k, r)
  PROVE  /\ Buildable(doc, settings) /\ Create!ToWire(RequestOf(k, doc, settings, r))
         /\ Create!Build(k, doc, settings, r)
              = [ok |-> TRUE, request |-> RequestOf(k, doc, settings, r)]
         /\ Create!Trim(doc.buyer.name) # ""
<1>1. Create!Build(k, doc, settings, Create!Placeholders).ok /\ Create!Trim(doc.buyer.name) # ""
  BY DEF Create!ValidateDocument
<1>2. Buildable(doc, settings) /\ Create!ToWire(RequestOf(k, doc, settings, Create!Placeholders))
  BY <1>1, BuildIs
<1>3. Create!ToWire(RequestOf(k, doc, settings, r))
  BY <1>2, ReferencesDoNotMatter
<1> QED BY <1>1, <1>2, <1>3, BuildIs

\* The lines of a priced document have the totals it was approved with.
LEMMA PricedAsExpected ==
  ASSUME NEW doc, NEW settings, Money(doc, settings).ok
  PROVE  \A e \in doc.expected_totals : e = Create!Get(Create!Totals(Money(doc, settings).items))
<1> DEFINE answers_ == [i \in DOMAIN doc.items |->
                          Create!ToLineItem(doc.items[i], Create!CurrencyOf(doc, settings))]
           lines == [i \in DOMAIN answers_ |-> answers_[i].line]
           totals == Create!Totals(lines)
<1>1. \A e : ~Create!Err(e).ok
  BY DEF Create!Err
<1>2. /\ Money(doc, settings) = [ok |-> TRUE, items |-> lines, totals |-> Create!Get(totals)]
      /\ Create!TotalsAgree(doc.expected_totals, Create!Get(totals))
  BY <1>1 DEF Money, Create!MonetaryPreflight, Create!Priced
<1>3. Money(doc, settings).items = lines
  BY <1>2
<1> HIDE DEF lines
<1> QED BY <1>2, <1>3 DEF Create!TotalsAgree

-----------------------------------------------------------------------------
(* The inductive invariant of create requests.                             *)

AtMostOne(option) == option = {} \/ \E x \in option : option = {x}

Composed ==
  /\ kind \in Create!Kinds /\ link \in Create!ProformaLinks
  /\ DOMAIN document = {"buyer", "items", "overrides", "payment_method", "paid", "expected_totals"}
  /\ document.payment_method \in Create!PaymentMethods
  /\ AtMostOne(approved) /\ \A a \in approved : document.expected_totals = {a.totals}

\* The document has passed its validation, under the journaled settings.
Stands(settings) ==
  /\ link # "auto" => Create!LinksProforma(kind)
  /\ Create!ValidateDocument(kind, document, settings)

\* The references are those of the kind.
Referred(r) ==
  /\ r.proforma # {} => Create!LinksProforma(kind)
  /\ r.prepayment = IF kind = "final" THEN {"E-1"} ELSE {}
  /\ r.corrected = IF kind = "corrective" THEN {"SZ-1"} ELSE {}

Journaled ==
  /\ AtMostOne(account) /\ AtMostOne(refs)
  /\ account = {} => phase = "composing" /\ refs = {}
  /\ \A settings \in account : phase # "refused" => Stands(settings)
  /\ \A r \in refs : Referred(r)
  /\ refs # {} => phase # "refused"
  /\ phase \in {"resolved", "built", "sent"} => refs # {}

Phases == {"composing", "validated", "resolved", "built", "sent", "refused"}

\* What was built and what was received is the one request of the call.
Made ==
  /\ refs = {} => built = {} /\ received = {}
  /\ \A settings \in account, r \in refs :
       /\ built \subseteq {RequestOf(kind, document, settings, r)}
       /\ received \subseteq {Create!WriteXml(RequestOf(kind, document, settings, r))}

CreateInv == Composed /\ Journaled /\ phase \in Phases /\ Made

LEMMA NoneIs == Create!None = {}
BY DEF Create!None

LEMMA SomeIs ==
  ASSUME NEW x
  PROVE  Create!Some(x) = {x} /\ Create!Get({x}) = x /\ \A y : Create!Or({x}, y) = x
<1>1. (CHOOSE y \in {x} : TRUE) = x
  OBVIOUS
<1> QED BY <1>1 DEF Create!Some, Create!Get, Create!Or, Create!None

LEMMA CreateStarts ==
  ASSUME Create!InputsAssumption, Create!Init
  PROVE  CreateInv
<1>1. Create!IsDocumentInput(document)
  BY DEF Create!InputsAssumption, Create!Init
<1>2. Composed
  BY <1>1, NoneIs DEF Composed, AtMostOne, Create!Init, Create!IsDocumentInput
<1>3. Journaled /\ phase \in Phases /\ Made
  BY NoneIs DEF Journaled, Made, AtMostOne, Phases, Create!Init
<1> QED BY <1>2, <1>3 DEF CreateInv

LEMMA ApproveKeeps ==
  ASSUME CreateInv, NEW pin \in BOOLEAN, Create!Approve(pin)
  PROVE  CreateInv'
<1>1. account = {} /\ refs = {} /\ built = {} /\ received = {} /\ phase = "composing"
  BY NoneIs DEF CreateInv, Journaled, Made, Create!Approve
<1>2. PICK c, money :
        /\ approved' = Create!Some([currency |-> c, totals |-> money.totals])
        /\ document' = [document EXCEPT !.expected_totals = Create!Some(money.totals),
                                        !.overrides.currency = IF pin THEN Create!Some(c) ELSE @]
  BY Zenon DEF Create!Approve
<1>3. approved' = {[currency |-> c, totals |-> money.totals]}
  BY <1>2, SomeIs
<1>4. /\ DOMAIN document' = DOMAIN document /\ document'.payment_method = document.payment_method
      /\ document'.expected_totals = {money.totals}
  BY <1>2, SomeIs DEF CreateInv, Composed
<1>5. Composed'
  <2>1. \A a \in approved' : document'.expected_totals = {a.totals}
    BY <1>3, <1>4
  <2>2. AtMostOne(approved')
    BY <1>3 DEF AtMostOne
  <2>3. UNCHANGED <<kind, link>>
    BY DEF Create!Approve
  <2> QED BY <1>4, <2>1, <2>2, <2>3 DEF CreateInv, Composed, AtMostOne
<1>6. Journaled' /\ (phase \in Phases)' /\ Made'
  BY <1>1 DEF CreateInv, Journaled, Made, AtMostOne, Phases, Create!Approve
<1> QED BY <1>5, <1>6 DEF CreateInv

LEMMA ChangeDefaultsKeeps ==
  ASSUME CreateInv, NEW settings \in DefaultSettings, Create!ChangeDefaults(settings)
  PROVE  CreateInv'
BY DEF CreateInv, Composed, Journaled, Made, Stands, Referred, AtMostOne,
       Create!ChangeDefaults, Create!caller

\* The settings of the call, once they are journaled.
LEMMA SettingsAre ==
  ASSUME NEW settings, account = {settings}
  PROVE  Create!Settings = settings
BY SomeIs DEF Create!Settings

LEMMA PrepareKeeps ==
  ASSUME CreateInv, Create!Prepare
  PROVE  CreateInv'
<1> PICK settings : settings = Create!Settings
  OBVIOUS
<1>1. account' = {settings}
  BY SomeIs DEF Create!Prepare
<1>2. /\ phase' = IF Stands(settings) THEN "validated" ELSE "refused"
      /\ phase = "composing" /\ UNCHANGED <<kind, document, link, approved, refs, built, received>>
  BY DEF Create!Prepare, Create!caller, Stands
<1>3. account # {} => account = {settings}
  BY SettingsAre DEF CreateInv, Journaled, AtMostOne
<1>4. Stands(settings)' <=> Stands(settings)
  BY <1>2 DEF Stands
<1>5. refs # {} => Stands(settings)
  BY <1>2, <1>3 DEF CreateInv, Journaled
<1>6. Composed'
  BY <1>2 DEF CreateInv, Composed, AtMostOne
<1>7. Journaled' /\ (phase \in Phases)'
  BY <1>1, <1>2, <1>4, <1>5 DEF CreateInv, Journaled, AtMostOne, Referred, Phases
<1>8. Made'
  BY <1>1, <1>2, <1>3 DEF CreateInv, Made, Journaled
<1> QED BY <1>6, <1>7, <1>8 DEF CreateInv

LEMMA ResolveKeeps ==
  ASSUME CreateInv, NEW proforma \in Create!Proformas, Create!Resolve(proforma)
  PROVE  CreateInv'
<1> DEFINE fresh == [proforma |-> proforma,
                     prepayment |-> IF kind = "final" THEN Create!Some("E-1") ELSE Create!None,
                     corrected |-> IF kind = "corrective" THEN Create!Some("SZ-1") ELSE Create!None]
<1>1. /\ phase = "validated" /\ phase' = "resolved"
      /\ refs' = Create!LookedUp(fresh) /\ (proforma # {} => Create!LinksProforma(kind))
      /\ UNCHANGED <<kind, document, link, approved, account, built, received>>
  BY NoneIs DEF Create!Resolve, Create!caller
<1>2. Referred(fresh)
  BY <1>1, NoneIs, SomeIs DEF Referred
<1> HIDE DEF fresh
<1>3. refs = {} => refs' = {fresh}
  BY <1>1, NoneIs, SomeIs DEF Create!LookedUp, Create!Or
<1>4. \A r : refs = {r} => refs' = {r}
  BY <1>1, SomeIs DEF Create!LookedUp
<1>5. refs' # {} /\ AtMostOne(refs') /\ (refs # {} => refs' = refs) /\ (refs = {} => refs' = {fresh})
  BY <1>3, <1>4 DEF CreateInv, Journaled, AtMostOne
<1>6. \A r : Referred(r)' <=> Referred(r)
  BY <1>1 DEF Referred
<1>7. Composed'
  BY <1>1 DEF CreateInv, Composed, AtMostOne
<1>8. Journaled' /\ (phase \in Phases)'
  BY <1>1, <1>2, <1>5, <1>6 DEF CreateInv, Journaled, AtMostOne, Stands, Phases
<1>9. Made'
  BY <1>1, <1>5 DEF CreateInv, Made
<1> QED BY <1>7, <1>8, <1>9 DEF CreateInv

\* Once the references are known the call has one request, and it builds.
LEMMA Builds ==
  ASSUME CreateInv, refs # {}, phase # "refused"
  PROVE  \E settings, r :
           /\ account = {settings} /\ refs = {r} /\ Referred(r) /\ Stands(settings)
           /\ Create!Settings = settings /\ Create!Get(refs) = r
           /\ ~Create!MissingReference(kind, r)
           /\ Create!Build(kind, document, settings, r)
                = [ok |-> TRUE, request |-> RequestOf(kind, document, settings, r)]
<1>1. PICK settings : account = {settings} /\ Stands(settings)
  BY DEF CreateInv, Journaled, AtMostOne
<1>2. PICK r : refs = {r} /\ Referred(r)
  BY DEF CreateInv, Journaled, AtMostOne
<1>3. ~Create!MissingReference(kind, r)
  BY <1>2, NoneIs DEF Referred, Create!MissingReference
<1>4. Create!Settings = settings /\ Create!Get(refs) = r
  BY <1>1, <1>2, SettingsAre, SomeIs
<1>5. Create!Build(kind, document, settings, r)
        = [ok |-> TRUE, request |-> RequestOf(kind, document, settings, r)]
  BY <1>1, <1>3, PlaceholdersSuffice DEF Stands
<1> QED BY <1>1, <1>2, <1>3, <1>4, <1>5

LEMMA BuildRequestKeeps ==
  ASSUME CreateInv, Create!BuildRequest
  PROVE  CreateInv'
<1>1. phase = "resolved" /\ refs # {}
  BY DEF Create!BuildRequest, CreateInv, Journaled
<1>2. PICK settings, r :
        /\ account = {settings} /\ refs = {r}
        /\ Create!Build(kind, document, Create!Settings, Create!Get(refs))
             = [ok |-> TRUE, request |-> RequestOf(kind, document, settings, r)]
  BY <1>1, Builds
<1>3. /\ phase' = "built" /\ built' = built \cup {RequestOf(kind, document, settings, r)}
      /\ UNCHANGED <<kind, document, link, approved, account, refs, received>>
  <2>1. PICK result :
          /\ result = Create!Build(kind, document, Create!Settings, Create!Get(refs))
          /\ phase' = IF result.ok THEN "built" ELSE "refused"
          /\ built' = IF result.ok THEN built \cup {result.request} ELSE built
    BY DEF Create!BuildRequest
  <2>2. result.ok /\ result.request = RequestOf(kind, document, settings, r)
    BY <1>2, <2>1
  <2> QED BY <2>1, <2>2 DEF Create!BuildRequest, Create!caller
<1>4. Composed' /\ Journaled' /\ (phase \in Phases)'
  BY <1>1, <1>3 DEF CreateInv, Composed, Journaled, AtMostOne, Stands, Referred, Phases
<1>5. Made'
  BY <1>1, <1>2, <1>3 DEF CreateInv, Made
<1> QED BY <1>4, <1>5 DEF CreateInv

LEMMA CrashKeeps ==
  ASSUME CreateInv, Create!Crash
  PROVE  CreateInv'
BY DEF CreateInv, Composed, Journaled, Made, Stands, Referred, AtMostOne, Phases,
       Create!Crash, Create!caller

LEMMA SendKeeps ==
  ASSUME CreateInv, Create!Send
  PROVE  CreateInv'
<1>1. phase = "built" /\ refs # {}
  BY DEF Create!Send, CreateInv, Journaled
<1>2. PICK settings, r :
        /\ account = {settings} /\ refs = {r}
        /\ Create!Build(kind, document, Create!Settings, Create!Get(refs))
             = [ok |-> TRUE, request |-> RequestOf(kind, document, settings, r)]
  BY <1>1, Builds
<1>3. /\ phase' = "sent"
      /\ received' = {Create!WriteXml(RequestOf(kind, document, settings, r))}
      /\ UNCHANGED <<kind, document, link, approved, account, refs, built>>
  <2>1. Create!Build(kind, document, Create!Settings, Create!Get(refs)).request
          = RequestOf(kind, document, settings, r)
    BY <1>2
  <2> QED BY <2>1, SomeIs DEF Create!Send, Create!caller
<1>4. Composed' /\ Journaled' /\ (phase \in Phases)'
  BY <1>1, <1>3 DEF CreateInv, Composed, Journaled, AtMostOne, Stands, Referred, Phases
<1>5. Made'
  BY <1>1, <1>2, <1>3 DEF CreateInv, Made
<1> QED BY <1>4, <1>5 DEF CreateInv

LEMMA CreateSteps ==
  ASSUME CreateInv, Create!Next
  PROVE  CreateInv'
BY ApproveKeeps, ChangeDefaultsKeeps, PrepareKeeps, ResolveKeeps, BuildRequestKeeps, CrashKeeps,
   SendKeeps DEF Create!Next

LEMMA CreateStutters ==
  ASSUME CreateInv, UNCHANGED forCreate
  PROVE  CreateInv'
BY DEF CreateInv, Composed, Journaled, Made, Stands, Referred, AtMostOne, forCreate

\* What the provider reads of the one request.
LEMMA CreateSays ==
  ASSUME CreateInv
  PROVE  /\ Create!ReceivedAsIntended /\ Create!ApprovedAmountsHold
         /\ Create!OneRequestPerCall /\ Create!NoLateRefusal
<1>1. Create!NoLateRefusal
  BY NoneIs DEF Create!NoLateRefusal, CreateInv, Journaled
<1>2. Create!OneRequestPerCall
  <2>1. built = {} \/ \E x : built = {x}
    <3>1. CASE refs = {}
      BY <3>1 DEF CreateInv, Made
    <3>2. CASE refs # {}
      <4>1. PICK settings, r : account = {settings} /\ refs = {r}
        BY <3>2, Builds DEF CreateInv, Journaled
      <4>2. built \subseteq {RequestOf(kind, document, settings, r)}
        BY <4>1 DEF CreateInv, Made
      <4> QED BY <4>2
    <3> QED BY <3>1, <3>2
  <2> QED BY <2>1 DEF Create!OneRequestPerCall
<1>3. ASSUME NEW x \in received
      PROVE  \E settings, r :
               /\ account = {settings} /\ refs = {r} /\ Referred(r)
               /\ x = Create!WriteXml(RequestOf(kind, document, settings, r))
               /\ Buildable(document, settings)
               /\ Create!ToWire(RequestOf(kind, document, settings, r))
               /\ Create!Trim(document.buyer.name) # ""
  <2>1. refs # {} /\ phase # "refused"
    BY <1>3 DEF CreateInv, Made, Journaled
  <2>2. PICK settings, r : /\ account = {settings} /\ refs = {r} /\ Referred(r) /\ Stands(settings)
                           /\ ~Create!MissingReference(kind, r)
    BY <2>1, Builds
  <2>3. x = Create!WriteXml(RequestOf(kind, document, settings, r))
    BY <1>3, <2>2 DEF CreateInv, Made
  <2> QED BY <2>2, <2>3, PlaceholdersSuffice DEF Stands
<1>4. Create!ApprovedAmountsHold
  <2> SUFFICES ASSUME NEW x \in received, NEW a \in approved
               PROVE  Create!Sent(x) = a.totals
    BY DEF Create!ApprovedAmountsHold
  <2>1. PICK settings, r : /\ x = Create!WriteXml(RequestOf(kind, document, settings, r))
                           /\ Buildable(document, settings)
    BY <1>3
  <2>2. x.tetelek = Money(document, settings).items
    BY <2>1 DEF Create!WriteXml, RequestOf, Create!CreateInvoice
  <2>3. a.totals \in document.expected_totals
    BY DEF CreateInv, Composed
  <2>4. a.totals = Create!Get(Create!Totals(Money(document, settings).items))
    BY <2>1, <2>3, PricedAsExpected DEF Buildable
  <2> QED BY <2>2, <2>4 DEF Create!Sent
<1>5. Create!ReceivedAsIntended
  <2> SUFFICES ASSUME NEW x \in received, NEW settings \in account, NEW r \in refs
               PROVE
        /\ Create!KindRead(x.flags) = kind
        /\ x.dijbekeroSzamlaszam = (IF kind \in {"invoice", "prepayment"} THEN r.proforma ELSE Create!None)
        /\ x.elolegSzamlaszam # Create!None <=> kind = "final"
        /\ x.helyesbitettSzamlaszam # Create!None <=> kind = "corrective"
        /\ x.penznem = Create!Or(document.overrides.currency, settings.currency)
        /\ x.szamlaNyelve = Create!Or(document.overrides.language, settings.language)
        /\ x.eszamla = Create!Or(document.overrides.e_invoice, settings.e_invoice)
        /\ x.szamlaszamElotag = Create!Own(document.overrides.number_prefix, settings.number_prefix)
        /\ x.vevo.send_email = Create!Own(document.overrides.send_email, settings.send_email)
        /\ x.szamlaSablon = {Create!Template(t) : t \in
                               Create!Own(document.overrides.template, settings.template)}
        /\ x.fizetve = document.paid
        /\ Create!MethodRead(x.fizmod) = document.payment_method
        /\ x.vevo.name \notin {"", "not_xml"}
        /\ (x.arfolyam = Create!None) <=> Create!IsHuf(x.penznem)
        /\ (x.arfolyam # Create!None /\ document.overrides.exchange_rate # Create!None)
               => x.arfolyam = document.overrides.exchange_rate
    BY DEF Create!ReceivedAsIntended
  <2>1. /\ Referred(r) /\ x = Create!WriteXml(RequestOf(kind, document, settings, r))
        /\ Buildable(document, settings)
        /\ Create!ToWire(RequestOf(kind, document, settings, r))
        /\ Create!Trim(document.buyer.name) # ""
    BY <1>3
  <2>2. /\ x.flags = Create!KindFlag(kind)
        /\ x.dijbekeroSzamlaszam = Create!InvoiceKind(kind, r).proforma_number
        /\ x.elolegSzamlaszam = Create!InvoiceKind(kind, r).prepayment_number
        /\ x.helyesbitettSzamlaszam = Create!InvoiceKind(kind, r).corrected_number
        /\ x.fizmod = Create!FizMod(document.payment_method)
        /\ x.penznem = Create!CurrencyOf(document, settings)
        /\ x.arfolyam = Create!ExchangeRate(document, settings)
        /\ x.szamlaSablon = {Create!Template(token) : token \in
                               Create!Optional(document.overrides.template, settings.template)}
        /\ x.fizetve = document.paid
        /\ x.vevo.name = Create!Trim(document.buyer.name)
        /\ x.szamlaNyelve = Create!Effective(document.overrides.language, settings.language)
        /\ x.eszamla = Create!Effective(document.overrides.e_invoice, settings.e_invoice)
        /\ x.szamlaszamElotag
             = Create!Optional(document.overrides.number_prefix, settings.number_prefix)
        /\ x.vevo.send_email = Create!Optional(document.overrides.send_email, settings.send_email)
    <3>1. /\ RequestOf(kind, document, settings, r).kind = Create!InvoiceKind(kind, r)
          /\ RequestOf(kind, document, settings, r).header = Create!Header(document, settings)
          /\ RequestOf(kind, document, settings, r).buyer.name = Create!Trim(document.buyer.name)
          /\ RequestOf(kind, document, settings, r).buyer.send_email
               = Create!Optional(document.overrides.send_email, settings.send_email)
          /\ RequestOf(kind, document, settings, r).e_invoice
               = Create!Effective(document.overrides.e_invoice, settings.e_invoice)
      BY DEF RequestOf, Create!CreateInvoice, Create!ToBuyer, Create!Buyer
    <3>2. Create!InvoiceKind(kind, r).is = kind
      BY DEF Create!InvoiceKind
    <3> DEFINE q == RequestOf(kind, document, settings, r)
    <3> HIDE DEF q
    <3>3. /\ q.kind = Create!InvoiceKind(kind, r) /\ q.header = Create!Header(document, settings)
          /\ q.buyer.name = Create!Trim(document.buyer.name) /\ x = Create!WriteXml(q)
          /\ q.buyer.send_email = Create!Optional(document.overrides.send_email, settings.send_email)
          /\ q.e_invoice = Create!Effective(document.overrides.e_invoice, settings.e_invoice)
      BY <2>1, <3>1 DEF q
    <3>4. /\ x.flags = Create!KindFlag(q.kind.is)
          /\ x.dijbekeroSzamlaszam = q.kind.proforma_number
          /\ x.elolegSzamlaszam = q.kind.prepayment_number
          /\ x.helyesbitettSzamlaszam = q.kind.corrected_number
          /\ x.fizmod = Create!FizMod(q.header.payment_method)
          /\ x.penznem = q.header.currency /\ x.arfolyam = q.header.exchange_rate
          /\ x.szamlaSablon = q.header.template /\ x.fizetve = q.header.paid
          /\ x.vevo = q.buyer /\ x.eszamla = q.e_invoice
          /\ x.szamlaNyelve = q.header.language /\ x.szamlaszamElotag = q.header.number_prefix
      BY <3>3 DEF Create!WriteXml
    <3>5. /\ q.header.payment_method = document.payment_method
          /\ q.header.currency = Create!CurrencyOf(document, settings)
          /\ q.header.exchange_rate = Create!ExchangeRate(document, settings)
          /\ q.header.template = {Create!Template(token) : token \in
                                    Create!Optional(document.overrides.template, settings.template)}
          /\ q.header.paid = document.paid
          /\ q.header.language = Create!Effective(document.overrides.language, settings.language)
          /\ q.header.number_prefix
               = Create!Optional(document.overrides.number_prefix, settings.number_prefix)
      BY <3>3 DEF Create!Header
    <3> QED BY <3>2, <3>3, <3>4, <3>5
  <2>3. Create!KindRead(x.flags) = kind
    <3>1. kind \in {"proforma", "invoice", "prepayment", "final", "corrective"}
      BY DEF CreateInv, Composed, Create!Kinds
    <3> QED BY <2>2, <3>1 DEF Create!KindFlag, Create!KindRead
  <2>4. /\ x.dijbekeroSzamlaszam = (IF kind \in {"invoice", "prepayment"} THEN r.proforma ELSE Create!None)
        /\ x.elolegSzamlaszam # Create!None <=> kind = "final"
        /\ x.helyesbitettSzamlaszam # Create!None <=> kind = "corrective"
    BY <2>1, <2>2, NoneIs DEF Create!InvoiceKind, Referred, Create!LinksProforma
  <2>5. Create!MethodRead(x.fizmod) = document.payment_method
    <3>1. document.payment_method \in {"transfer", "cash", "card", "check", "cash_on_delivery",
                                        "pay_pal", "szep_card", "other"}
      BY DEF CreateInv, Composed, Create!PaymentMethods
    <3> QED BY <2>2, <3>1 DEF Create!MethodRead, Create!FizMod
  <2>6. x.vevo.name \notin {"", "not_xml"}
    <3>1. Create!XmlText(Create!Trim(document.buyer.name))
      BY <2>1 DEF Create!ToWire, RequestOf, Create!CreateInvoice, Create!ToBuyer, Create!Buyer
    <3> QED BY <2>1, <2>2, <3>1 DEF Create!XmlText
  <2>7. /\ (x.arfolyam = Create!None) <=> Create!IsHuf(x.penznem)
        /\ (x.arfolyam # Create!None /\ document.overrides.exchange_rate # Create!None)
               => x.arfolyam = document.overrides.exchange_rate
    BY <2>1, <2>2 DEF Buildable, Create!RateRefused, Create!ExchangeRate
  <2>8. /\ x.penznem = Create!Or(document.overrides.currency, settings.currency)
        /\ x.szamlaNyelve = Create!Or(document.overrides.language, settings.language)
        /\ x.eszamla = Create!Or(document.overrides.e_invoice, settings.e_invoice)
        /\ x.szamlaszamElotag = Create!Own(document.overrides.number_prefix, settings.number_prefix)
        /\ x.vevo.send_email = Create!Own(document.overrides.send_email, settings.send_email)
        /\ x.szamlaSablon = {Create!Template(t) : t \in
                               Create!Own(document.overrides.template, settings.template)}
    BY <2>2 DEF Create!CurrencyOf, Create!Effective, Create!Optional, Create!Own
  <2> QED BY <2>2, <2>3, <2>4, <2>5, <2>6, <2>7, <2>8
<1> QED BY <1>1, <1>2, <1>4, <1>5

-----------------------------------------------------------------------------
(* Composition.  A behaviour is one component's; the identity's idle state  *)
(* is its initial one, so its invariant holds throughout.                   *)

RequestsInv == IdentityInv /\ (component = "create" => CreateInv)

LEMMA RequestsStarts ==
  ASSUME RequestsInit
  PROVE  RequestsInv
<1>1. IdentityBounds /\ Create!InputsAssumption
  BY Bounds DEF IdentityBounds
<1>2. IdentityInv
  <2>1. Init \/ IdleIdentity
    BY DEF RequestsInit
  <2>2. Init
    BY <2>1 DEF Init, IdleIdentity
  <2> QED BY <1>1, <2>2, IdentityStarts
<1>3. component = "create" => CreateInv
  BY <1>1, CreateStarts DEF RequestsInit
<1> QED BY <1>2, <1>3 DEF RequestsInv

LEMMA RequestsSteps ==
  ASSUME RequestsInv, [RequestsNext]_allVars
  PROVE  RequestsInv'
<1>1. IdentityBounds
  BY Bounds DEF IdentityBounds
<1>2. IdentityInv /\ (component = "create" => CreateInv)
  BY DEF RequestsInv
<1>3. CASE IdentityStep
  <2>1. Next /\ component = "identity" /\ component' = component
    BY <1>3 DEF IdentityStep
  <2>2. IdentityInv'
    BY <1>1, <1>2, <2>1, IdentitySteps
  <2> QED BY <2>1, <2>2 DEF RequestsInv
<1>4. CASE LineStep
  <2>1. UNCHANGED forIdentity /\ component = "line" /\ component' = component
    BY <1>4 DEF LineStep
  <2>2. IdentityInv'
    BY <1>2, <2>1, IdentityStutters
  <2> QED BY <2>1, <2>2 DEF RequestsInv
<1>5. CASE CreateStep
  <2>1. Create!Next /\ UNCHANGED forIdentity /\ component = "create"
    BY <1>5 DEF CreateStep
  <2>2. IdentityInv'
    BY <1>2, <2>1, IdentityStutters
  <2>3. CreateInv'
    BY <1>2, <2>1, CreateSteps
  <2> QED BY <2>2, <2>3 DEF RequestsInv
<1>6. CASE UNCHANGED allVars
  <2>1. UNCHANGED forIdentity /\ UNCHANGED forCreate /\ component' = component
    BY <1>6 DEF allVars
  <2>2. IdentityInv'
    BY <1>2, <2>1, IdentityStutters
  <2>3. component = "create" => CreateInv'
    BY <1>2, <2>1, CreateStutters
  <2> QED BY <2>1, <2>2, <2>3 DEF RequestsInv
<1> QED BY <1>3, <1>4, <1>5, <1>6 DEF RequestsNext

\* What is stored under external ids was issued by a call of its own form (identity.rs), and a
\* create call has journaled, built and sent what its document and its account make
\* (service/create.rs, gateway/build.rs): the invariant the results below rest on.
THEOREM RequestsInvariance == RequestsSpec => []RequestsInv
<1>1. RequestsInit => RequestsInv
  BY RequestsStarts
<1>2. RequestsInv /\ [RequestsNext]_allVars => RequestsInv'
  BY RequestsSteps
<1> QED BY <1>1, <1>2, PTL DEF RequestsSpec

\* For every set of namespaces, order keys, invoice numbers and correction ids, of any lengths
\* the contract admits: what a deployment finds under an external id is its own and what it
\* asked for, one key is one object, and a probe finds nothing (identity.rs).
THEOREM RequestsIdentitiesAreApart == RequestsSpec => []IdentitiesAreApart
<1>1. RequestsInv => IdentitiesAreApart
  <2> SUFFICES ASSUME RequestsInv PROVE IdentitiesAreApart
    OBVIOUS
  <2>1. IdentityBounds /\ IdentityInv
    BY Bounds DEF IdentityBounds, RequestsInv
  <2> QED BY <2>1, IdentitySays
<1> QED BY <1>1, RequestsInvariance, PTL

\* No accepted combination of parts composes an id longer than szamlazz.hu stores, and every id
\* names the deployment that issued it (ExternalId::MAX_LEN, ExternalId::namespace).
THEOREM RequestsIdsAreWhole == RequestsSpec => []TypeOK
<1>1. RequestsInv => TypeOK
  <2> SUFFICES ASSUME RequestsInv PROVE TypeOK
    OBVIOUS
  <2>1. IdentityBounds /\ IdentityInv
    BY Bounds DEF IdentityBounds, RequestsInv
  <2> QED BY <2>1, IdentitySays
<1> QED BY <1>1, RequestsInvariance, PTL

\* For every document and every account's defaults: szamlazz.hu receives the document the caller
\* composed, with the totals it approved and the same however often the call is replayed, and
\* what validation with placeholder references passed is not refused with the real ones
\* (service/create.rs, gateway/build.rs, contract/document/money.rs).
THEOREM RequestsSentAsIntended == RequestsSpec => []SentAsIntended
<1>1. RequestsInv => SentAsIntended
  <2> SUFFICES ASSUME RequestsInv, component = "create"
               PROVE  /\ Create!ReceivedAsIntended /\ Create!ApprovedAmountsHold
                      /\ Create!OneRequestPerCall /\ Create!NoLateRefusal
    BY DEF SentAsIntended
  <2>1. CreateInv
    BY DEF RequestsInv
  <2> QED BY <2>1, CreateSays
<1> QED BY <1>1, RequestsInvariance, PTL

=============================================================================
