--------------------------- MODULE Crates_proofs ---------------------------
(***************************************************************************)
(* The properties of Crates, proved for every value of its constants.      *)
(*                                                                         *)
(* Each component has an inductive invariant over its own variables, one   *)
(* section per component.  CratesInv says that the invariant of the        *)
(* running component holds; a step of the composition is a step of that    *)
(* component (OneComponentMoves), so each component's lemmas carry over.   *)
(***************************************************************************)
EXTENDS Crates, TLAPS

-----------------------------------------------------------------------------
(* The XML boundaries.                                                     *)

ShapeBounds == Shape!SurfacesAssumption /\ Shape!MaxDepthAssumption

Opened == [declares : Shape!Declarations, meaning : Shape!Namespaces]

Declares(x, p) == x.declares # <<>> /\ x.declares[1] = p

\* The binding of a prefix under the first i elements of a stack is v.
Innermost(stack, i, p, v) ==
  \/ v = "none" /\ \A j \in 1..i : ~Declares(stack[j], p)
  \/ \E d \in 1..i : /\ Declares(stack[d], p) /\ v = stack[d].declares[2]
                     /\ \A j \in (d + 1)..i : ~Declares(stack[j], p)

\* The reader has a scope for every open element, and each is what the elements
\* down to it declare.
Nested ==
  /\ open \in Seq(Opened) /\ Shape!Settled \in Seq(Shape!Bindings)
  /\ pendingPop => scopes # <<>>
  /\ Len(Shape!Settled) = Len(open) /\ depth = Len(open)
  /\ \A i \in 1..Len(open) : \A p \in Shape!QPrefixes : Innermost(open, i, p, Shape!Settled[i][p])

\* The elements that are skipped are those from the outermost foreign one on.
Skipping ==
  /\ skipped \in 0..Len(open)
  /\ \A i \in 1..(Len(open) - skipped) : open[i].meaning = "protocol"
  /\ skipped > 0 => open[Len(open) - skipped + 1].meaning # "protocol"

\* The reader's counters and the grammar's.
Abreast ==
  /\ roots \in {0, 1} /\ (seenRoot <=> roots = 1) /\ (open # <<>> => roots = 1)
  /\ first <=> ~started
  /\ wellformed <=> ~dirty

ShapeInv ==
  /\ Shape!TypeOK
  /\ verdict = "reading" => Nested /\ Skipping /\ Abreast /\ emitted = due
  /\ verdict = "refused" => ~wellformed
  /\ verdict = "accepted" => wellformed /\ open = <<>> /\ roots = 1 /\ ~dirty

-----------------------------------------------------------------------------
LEMMA MeaningIs ==
  ASSUME NEW S, NEW stack \in Seq(S), NEW p, NEW v, Innermost(stack, Len(stack), p, v)
  PROVE  Shape!Meaning(stack, p) = v
<1> DEFINE D == {i \in 1..Len(stack) : stack[i].declares # <<>> /\ stack[i].declares[1] = p}
<1>1. Shape!Meaning(stack, p) = IF D = {} THEN "none"
                          ELSE stack[CHOOSE i \in D : \A j \in D : j <= i].declares[2]
  BY DEF Shape!Meaning
<1>2. CASE v = "none" /\ \A j \in 1..Len(stack) : ~Declares(stack[j], p)
  <2>1. D = {}
    BY <1>2 DEF Declares
  <2> QED BY <1>1, <1>2, <2>1
<1>3. ASSUME NEW d \in 1..Len(stack), Declares(stack[d], p), v = stack[d].declares[2],
             \A j \in (d + 1)..Len(stack) : ~Declares(stack[j], p)
      PROVE  Shape!Meaning(stack, p) = v
  <2>1. d \in D
    BY <1>3 DEF Declares
  <2>2. \A j \in D : j <= d
    <3>1. ASSUME NEW j \in D, j > d PROVE FALSE
      <4>1. j \in (d + 1)..Len(stack) /\ Declares(stack[j], p)
        BY <3>1 DEF Declares
      <4> QED BY <1>3, <4>1
    <3>2. \A j \in D : j \in Int
      OBVIOUS
    <3> QED BY <3>1, <3>2
  <2>3. D \subseteq Int
    OBVIOUS
  <2> HIDE DEF D
  <2>4. PICK c : c = CHOOSE i \in D : \A j \in D : j <= i
    OBVIOUS
  <2>5. c \in D /\ \A j \in D : j <= c
    BY <2>1, <2>2, <2>4
  <2>6. c = d
    BY <2>1, <2>2, <2>3, <2>5
  <2> QED BY <1>1, <1>3, <2>1, <2>4, <2>6
<1> QED BY <1>2, <1>3 DEF Innermost

LEMMA InnermostSame ==
  ASSUME NEW a, NEW b, NEW i, NEW p, NEW v, Innermost(a, i, p, v),
         i \in Nat, \A j \in 1..i : a[j].declares = b[j].declares
  PROVE  Innermost(b, i, p, v)
<1>1. \A j \in 1..i : Declares(a[j], p) <=> Declares(b[j], p)
  BY DEF Declares
<1>2. \A d \in 1..i : \A j \in (d + 1)..i : j \in 1..i
  OBVIOUS
<1>3. CASE v = "none" /\ \A j \in 1..i : ~Declares(a[j], p)
  BY <1>1, <1>3 DEF Innermost
<1>4. ASSUME NEW d \in 1..i, Declares(a[d], p), v = a[d].declares[2],
             \A j \in (d + 1)..i : ~Declares(a[j], p)
      PROVE  Innermost(b, i, p, v)
  BY <1>1, <1>2, <1>4 DEF Innermost
<1> QED BY <1>3, <1>4 DEF Innermost

LEMMA InnermostNext ==
  ASSUME NEW a, NEW i \in Nat, NEW p, NEW v, Innermost(a, i, p, v)
  PROVE  Innermost(a, i + 1, p, IF Declares(a[i + 1], p) THEN a[i + 1].declares[2] ELSE v)
<1>1. CASE Declares(a[i + 1], p)
  <2>1. i + 1 \in 1..(i + 1) /\ \A j \in ((i + 1) + 1)..(i + 1) : FALSE
    OBVIOUS
  <2> QED BY <1>1, <2>1 DEF Innermost
<1>2. CASE ~Declares(a[i + 1], p) /\ v = "none" /\ \A j \in 1..i : ~Declares(a[j], p)
  <2>1. \A j \in 1..(i + 1) : j \in 1..i \/ j = i + 1
    OBVIOUS
  <2> QED BY <1>2, <2>1 DEF Innermost
<1>3. ASSUME ~Declares(a[i + 1], p), NEW d \in 1..i, Declares(a[d], p), v = a[d].declares[2],
             \A j \in (d + 1)..i : ~Declares(a[j], p)
      PROVE  Innermost(a, i + 1, p, v)
  <2>1. d \in 1..(i + 1) /\ \A j \in (d + 1)..(i + 1) : j \in (d + 1)..i \/ j = i + 1
    OBVIOUS
  <2> QED BY <1>3, <2>1 DEF Innermost
<1> QED BY <1>1, <1>2, <1>3 DEF Innermost

\* Sequences, as elements are opened and closed.
LEMMA FrontIs ==
  ASSUME NEW S, NEW u \in Seq(S), u # <<>>
  PROVE  /\ Shape!Front(u) \in Seq(S) /\ Len(u) \in Nat /\ Len(Shape!Front(u)) + 1 = Len(u)
         /\ \A i \in 1..Len(Shape!Front(u)) : Shape!Front(u)[i] = u[i] /\ i \in 1..Len(u)
<1>1. Len(u) \in Nat /\ Len(u) # 0
  OBVIOUS
<1>2. PICK n \in Nat : n + 1 = Len(u)
  <2>1. Len(u) - 1 \in Nat /\ (Len(u) - 1) + 1 = Len(u)
    BY <1>1
  <2> QED BY <2>1
<1>3. Shape!Front(u) = SubSeq(u, 1, n)
  <2>1. Len(u) - 1 = n
    BY <1>2, <1>1
  <2> QED BY <2>1 DEF Shape!Front
<1>4. \A i \in 1..n : i \in 1..Len(u) /\ u[i] \in S
  BY <1>2
<1>5. Shape!Front(u) = [i \in 1..n |-> u[i]]
  BY <1>2, <1>3
<1>6. Shape!Front(u) \in Seq(S) /\ Len(Shape!Front(u)) = n
  BY <1>4, <1>5
<1>7. \A i \in 1..n : Shape!Front(u)[i] = u[i]
  BY <1>5
<1> QED BY <1>1, <1>2, <1>4, <1>6, <1>7

LEMMA LastIs ==
  ASSUME NEW S, NEW u \in Seq(S), u # <<>>
  PROVE  Shape!Last(u) = u[Len(u)] /\ Len(u) \in 1..Len(u)
  BY DEF Shape!Last

LEMMA AppendIs ==
  ASSUME NEW S, NEW u \in Seq(S), NEW x \in S
  PROVE  /\ Append(u, x) \in Seq(S) /\ Len(u) \in Nat /\ Len(Append(u, x)) = Len(u) + 1
         /\ \A i \in 1..Len(u) : Append(u, x)[i] = u[i]
         /\ Append(u, x)[Len(u) + 1] = x /\ Append(u, x) # <<>>
  OBVIOUS

LEMMA FrontOfAppend ==
  ASSUME NEW S, NEW u \in Seq(S), NEW x \in S
  PROVE  Shape!Front(Append(u, x)) = u
  BY DEF Shape!Front


LEMMA ElementIs ==
  ASSUME NEW e \in Shape!Elements
  PROVE  /\ e.tag \in {"start", "empty"} /\ e.prefix \in Shape!QPrefixes
         /\ e.declares \in Shape!Declarations /\ e.named \in BOOLEAN
<1>1. <<"", "protocol">> \in Shape!QPrefixes \X Shape!Namespaces
  BY DEF Shape!QPrefixes, Shape!Namespaces
<1>2. "" \in Shape!QPrefixes
  BY DEF Shape!QPrefixes
<1>3. \A d : d \in Shape!QPrefixes \X Shape!Namespaces => d \in Shape!Declarations
  BY DEF Shape!Declarations
<1> HIDE DEF Shape!Declarations, Shape!QPrefixes
<1> QED BY <1>1, <1>2, <1>3 DEF Shape!Elements

LEMMA DeclareIs ==
  ASSUME NEW b \in Shape!Bindings, NEW x, x.declares \in Shape!Declarations
  PROVE  /\ Shape!Declare(b, x.declares) \in Shape!Bindings
         /\ \A p \in Shape!QPrefixes :
              Shape!Declare(b, x.declares)[p] = IF Declares(x, p) THEN x.declares[2] ELSE b[p]
<1>1. CASE x.declares = <<>>
  BY <1>1 DEF Shape!Declare, Declares
<1>2. CASE x.declares # <<>>
  <2>1. PICK q \in Shape!QPrefixes, v \in Shape!Namespaces : x.declares = <<q, v>>
    BY <1>2 DEF Shape!Declarations
  <2>2. x.declares[1] = q /\ x.declares[2] = v
    BY <2>1
  <2>3. Shape!Declare(b, x.declares) = [b EXCEPT ![q] = v]
    BY <1>2, <2>2 DEF Shape!Declare
  <2> QED BY <1>2, <2>2, <2>3 DEF Declares, Shape!Bindings
<1> QED BY <1>1, <1>2

LEMMA ScopeIs ==
  ASSUME Nested
  PROVE  /\ Shape!Scope \in Shape!Bindings
         /\ \A p \in Shape!QPrefixes : Innermost(open, Len(open), p, Shape!Scope[p])
<1>1. CASE Shape!Settled = <<>>
  <2>1. Shape!Scope = Shape!Unbound /\ Len(open) = 0
    BY <1>1 DEF Nested, Shape!Scope
  <2>2. Shape!Unbound \in Shape!Bindings /\ \A p \in Shape!QPrefixes : Shape!Unbound[p] = "none"
    BY DEF Shape!Unbound, Shape!Bindings, Shape!Namespaces
  <2>3. \A p : Innermost(open, 0, p, "none")
    BY DEF Innermost
  <2> QED BY <2>1, <2>2, <2>3
<1>2. CASE Shape!Settled # <<>>
  <2>1. Shape!Scope = Shape!Last(Shape!Settled) /\ Shape!Settled \in Seq(Shape!Bindings) /\ Len(Shape!Settled) = Len(open)
    BY <1>2 DEF Nested, Shape!Scope
  <2>2. Shape!Last(Shape!Settled) = Shape!Settled[Len(open)] /\ Len(open) \in 1..Len(open)
    BY <1>2, <2>1, LastIs
  <2>3. Shape!Settled[Len(open)] \in Shape!Bindings
    BY <2>1, <2>2
  <2> QED BY <2>1, <2>2, <2>3 DEF Nested
<1> QED BY <1>1, <1>2

\* The binding an element is read in is what the grammar says of it, and opening the
\* element adds that binding to the innermost ones.
LEMMA BindingIs ==
  ASSUME Nested, NEW S, open \in Seq(S), NEW x \in S, x.declares \in Shape!Declarations
  PROVE  /\ Shape!Declare(Shape!Scope, x.declares) \in Shape!Bindings
         /\ \A p \in Shape!QPrefixes :
              Innermost(Append(open, x), Len(open) + 1, p, Shape!Declare(Shape!Scope, x.declares)[p])
<1>1. PICK b : b = Shape!Scope
  OBVIOUS
<1>2. b \in Shape!Bindings /\ \A p \in Shape!QPrefixes : Innermost(open, Len(open), p, b[p])
  BY <1>1, ScopeIs
<1>3. PICK c : c = Append(open, x)
  OBVIOUS
<1>4. PICK n : n = Len(open)
  OBVIOUS
<1>5. n \in Nat /\ (\A i \in 1..n : c[i] = open[i]) /\ c[n + 1] = x
  BY <1>3, <1>4, AppendIs
<1>6. ASSUME NEW p \in Shape!QPrefixes
      PROVE  Innermost(c, n + 1, p, Shape!Declare(b, x.declares)[p])
  <2>1. Innermost(open, n, p, b[p])
    BY <1>2, <1>4
  <2>2. \A j \in 1..n : open[j].declares = c[j].declares
    BY <1>5
  <2>3. Innermost(c, n, p, b[p])
    BY <1>5, <2>1, <2>2, InnermostSame
  <2>4. Innermost(c, n + 1, p, IF Declares(x, p) THEN x.declares[2] ELSE b[p])
    BY <1>5, <2>3, InnermostNext
  <2> QED BY <1>2, <2>4, DeclareIs
<1>7. Shape!Declare(b, x.declares) \in Shape!Bindings
  BY <1>2, DeclareIs
<1> QED BY <1>1, <1>3, <1>4, <1>6, <1>7

LEMMA MeaningOfIs ==
  ASSUME Nested, NEW e \in Shape!Elements
  PROVE  Shape!NamespaceOf(e) = Shape!MeaningOf(e) /\ Shape!NamespaceOf(e) \in Shape!Namespaces
<1> DEFINE S == Opened \cup Shape!Elements
<1>1. open \in Seq(S)
  <2>1. open \in Seq(Opened)
    BY DEF Nested
  <2> HIDE DEF Opened, Shape!Elements
  <2> QED BY <2>1
<1>2. e \in S /\ e.declares \in Shape!Declarations /\ e.prefix \in Shape!QPrefixes
  BY ElementIs
<1> HIDE DEF S
<1>3. PICK c : c = Append(open, e)
  OBVIOUS
<1>4. c \in Seq(S) /\ Len(c) = Len(open) + 1
  BY <1>1, <1>2, <1>3, AppendIs
<1>5. PICK b : b = Shape!Declare(Shape!Scope, e.declares)
  OBVIOUS
<1>6. b \in Shape!Bindings /\ \A p \in Shape!QPrefixes : Innermost(c, Len(open) + 1, p, b[p])
  BY <1>1, <1>2, <1>3, <1>5, BindingIs
<1>7. Innermost(c, Len(c), e.prefix, b[e.prefix])
  BY <1>2, <1>4, <1>6
<1>8. Shape!Meaning(c, e.prefix) = b[e.prefix]
  BY <1>4, <1>7, MeaningIs
<1>9. b[e.prefix] \in Shape!Namespaces
  BY <1>2, <1>6 DEF Shape!Bindings
<1> QED BY <1>3, <1>5, <1>8, <1>9 DEF Shape!NamespaceOf, Shape!MeaningOf


-----------------------------------------------------------------------------
(* The reader and the grammar say the same of an event.                    *)

LEMMA DepthIs ==
  ASSUME Nested
  PROVE  /\ depth \in Nat /\ depth = Len(open) /\ Len(Shape!Settled) = Len(open)
         /\ (depth = 0 <=> open = <<>>) /\ (depth > 0 <=> open # <<>>)
<1>1. open \in Seq(Opened) /\ depth = Len(open) /\ Len(Shape!Settled) = Len(open)
  BY DEF Nested
<1>2. Len(open) \in Nat /\ (Len(open) = 0 <=> open = <<>>)
  BY <1>1
<1> QED BY <1>1, <1>2

LEMMA SpeaksIs ==
  ASSUME Nested, Skipping
  PROVE  Shape!Speaks(open) <=> skipped = 0
<1>1. Len(open) \in Nat
  BY DEF Nested
<1>2. CASE skipped = 0
  BY <1>1, <1>2 DEF Skipping, Shape!Speaks
<1>3. CASE skipped # 0
  <2>1. skipped \in 1..Len(open)
    BY <1>1, <1>3 DEF Skipping
  <2>2. Len(open) - skipped + 1 \in 1..Len(open)
    BY <1>1, <2>1
  <2>3. open[Len(open) - skipped + 1].meaning # "protocol"
    BY <2>1 DEF Skipping
  <2> QED BY <1>3, <2>2, <2>3 DEF Shape!Speaks
<1> QED BY <1>2, <1>3

\* At the root a prefix is in the protocol's namespace exactly when the root says so.
LEMMA IdentifiedIs ==
  ASSUME Nested, open = <<>>, NEW e \in Shape!Elements
  PROVE  Shape!NamespaceOf(e) = "protocol" <=> e.declares = <<e.prefix, "protocol">>
<1>1. Shape!Scope = Shape!Unbound
  <2>1. Shape!Settled \in Seq(Shape!Bindings) /\ Len(Shape!Settled) = 0
    BY DepthIs DEF Nested
  <2>2. Shape!Settled = <<>>
    BY <2>1
  <2> QED BY <2>2 DEF Shape!Scope
<1>2. Shape!Unbound \in Shape!Bindings /\ \A p \in Shape!QPrefixes : Shape!Unbound[p] = "none"
  BY DEF Shape!Unbound, Shape!Bindings, Shape!Namespaces
<1>3. e.declares \in Shape!Declarations /\ e.prefix \in Shape!QPrefixes
  BY ElementIs
<1>4. Shape!NamespaceOf(e) = IF Declares(e, e.prefix) THEN e.declares[2] ELSE "none"
  BY <1>1, <1>2, <1>3, DeclareIs DEF Shape!NamespaceOf
<1>5. CASE e.declares = <<>>
  BY <1>4, <1>5 DEF Declares
<1>6. CASE e.declares # <<>>
  <2>1. PICK q \in Shape!QPrefixes, v \in Shape!Namespaces : e.declares = <<q, v>>
    BY <1>3, <1>6 DEF Shape!Declarations
  <2>2. e.declares[1] = q /\ e.declares[2] = v
    BY <2>1
  <2>3. Shape!NamespaceOf(e) = "protocol" <=> q = e.prefix /\ v = "protocol"
    BY <1>4, <1>6, <2>2 DEF Declares
  <2>4. e.declares = <<e.prefix, "protocol">> <=> q = e.prefix /\ v = "protocol"
    BY <2>1
  <2> QED BY <2>3, <2>4
<1> QED BY <1>5, <1>6

LEMMA AcceptedIs ==
  ASSUME Shape!TypeOK, ShapeBounds, Nested, Abreast, NEW e \in Shape!Elements
  PROVE  Shape!ElementAccepted(e) <=> Shape!LegalElement(e)
<1>1. surface = "push" \/ surface = "response"
  BY DEF Shape!TypeOK, ShapeBounds, Shape!SurfacesAssumption
<1>2. PICK m : m = Shape!NamespaceOf(e)
  OBVIOUS
<1>3. Shape!MeaningOf(e) = m
  BY <1>2, MeaningOfIs
<1>4. Shape!Resolves(e) <=> e.prefix = "" \/ m # "none"
  BY <1>2 DEF Shape!Resolves
<1>5. CASE open # <<>>
  <2>1. depth > 0 /\ depth # 0
    BY <1>5, DepthIs
  <2>2. Shape!RightNamespace(e) <=> (surface = "push" => m = "protocol")
    BY <1>1, <1>2, <2>1 DEF Shape!RightNamespace
  <2> QED BY <1>3, <1>4, <1>5, <2>1, <2>2 DEF Shape!ElementAccepted, Shape!LegalElement, Shape!PushAccepts
<1>6. CASE open = <<>>
  <2>1. depth = 0 /\ ~(depth > 0)
    BY <1>6, DepthIs
  <2>2. ~seenRoot <=> roots = 0
    BY DEF Abreast
  <2>3. m = "protocol" <=> e.declares = <<e.prefix, "protocol">>
    BY <1>2, <1>6, IdentifiedIs
  <2>4. Shape!RightNamespace(e) <=> m = "protocol" /\ (surface = "response" => e.named)
    BY <1>1, <1>2, <2>1 DEF Shape!RightNamespace
  <2>5. Shape!Identified(e) <=> e.named /\ m = "protocol"
    BY <2>3 DEF Shape!Identified
  <2> QED BY <1>1, <1>3, <1>4, <1>6, <2>1, <2>2, <2>4, <2>5
          DEF Shape!ElementAccepted, Shape!LegalElement, Shape!PushAccepts
<1> QED BY <1>5, <1>6


-----------------------------------------------------------------------------
(* The steps.                                                              *)

LEMMA BodyRefuseKeeps ==
  ASSUME ShapeInv, Shape!Refuse, surface' = surface, started' \in BOOLEAN, dtd' \in BOOLEAN,
         wellformed' \in BOOLEAN, ~wellformed'
  PROVE  ShapeInv'
<1>1. Shape!TypeOK'
  BY DEF ShapeInv, Shape!TypeOK, Shape!Refuse
<1>2. verdict' = "refused"
  BY DEF Shape!Refuse
<1> QED BY <1>1, <1>2 DEF ShapeInv

LEMMA StartNests ==
  ASSUME Nested, NEW e \in Shape!Elements, NEW m \in Shape!Namespaces,
         scopes' = Append(Shape!Settled, Shape!Declare(Shape!Scope, e.declares)), pendingPop' = FALSE,
         depth' = depth + 1, open' = Append(open, [declares |-> e.declares, meaning |-> m])
  PROVE  Nested' /\ Len(open') = Len(open) + 1 /\ Len(open) \in Nat
         /\ (\A i \in 1..Len(open) : open'[i] = open[i]) /\ open'[Len(open) + 1].meaning = m
         /\ scopes' \in Seq(Shape!Bindings)
<1>1. PICK x : x = [declares |-> e.declares, meaning |-> m]
  OBVIOUS
<1>2. x \in Opened /\ x.declares = e.declares /\ x.meaning = m /\ x.declares \in Shape!Declarations
  BY <1>1, ElementIs DEF Opened
<1>3. open \in Seq(Opened) /\ Shape!Settled \in Seq(Shape!Bindings) /\ depth = Len(open)
      /\ Len(Shape!Settled) = Len(open)
  BY DEF Nested
<1>4. PICK b : b = Shape!Declare(Shape!Scope, e.declares)
  OBVIOUS
<1>5. b \in Shape!Bindings /\ \A p \in Shape!QPrefixes : Innermost(Append(open, x), Len(open) + 1, p, b[p])
  BY <1>2, <1>3, <1>4, BindingIs
<1>6. PICK s : s = Shape!Settled
  OBVIOUS
<1>7. PICK c : c = Append(open, x)
  OBVIOUS
<1>8. PICK n : n = Len(open)
  OBVIOUS
<1>9. /\ c \in Seq(Opened) /\ n \in Nat /\ Len(c) = n + 1
      /\ (\A i \in 1..n : c[i] = open[i]) /\ c[n + 1] = x
  BY <1>2, <1>3, <1>7, <1>8, AppendIs
<1>10. PICK r : r = Append(s, b)
  OBVIOUS
<1>11. /\ r \in Seq(Shape!Bindings) /\ Len(r) = n + 1
       /\ (\A i \in 1..n : r[i] = s[i]) /\ r[n + 1] = b /\ r # <<>>
  BY <1>3, <1>5, <1>6, <1>8, <1>10, AppendIs
<1>12. open' = c /\ scopes' = r /\ Shape!Settled' = r /\ depth' = n + 1
  BY <1>1, <1>3, <1>4, <1>6, <1>7, <1>8, <1>10 DEF Shape!Settled
<1>13. ASSUME NEW i \in 1..(n + 1), NEW p \in Shape!QPrefixes PROVE Innermost(c, i, p, r[i][p])
  <2>1. CASE i = n + 1
    BY <1>5, <1>7, <1>8, <1>11, <2>1
  <2>2. CASE i # n + 1
    <3>1. i \in 1..n /\ i \in Nat
      BY <1>9, <2>2
    <3>2. Innermost(open, i, p, s[i][p])
      BY <1>6, <1>8, <3>1 DEF Nested
    <3>3. \A j \in 1..i : open[j].declares = c[j].declares
      BY <1>9, <3>1
    <3>4. Innermost(c, i, p, s[i][p])
      BY <3>1, <3>2, <3>3, InnermostSame
    <3> QED BY <1>11, <3>1, <3>4
  <2> QED BY <2>1, <2>2
<1>14. Nested'
  BY <1>9, <1>11, <1>12, <1>13 DEF Nested
<1> QED BY <1>2, <1>8, <1>9, <1>11, <1>12, <1>14

LEMMA EmptyNests ==
  ASSUME Nested, NEW e \in Shape!Elements,
         scopes' = Append(Shape!Settled, Shape!Declare(Shape!Scope, e.declares)), pendingPop' = TRUE,
         depth' = depth, open' = open
  PROVE  Nested' /\ scopes' \in Seq(Shape!Bindings)
<1>1. Shape!Settled \in Seq(Shape!Bindings)
  BY DEF Nested
<1>2. Shape!Declare(Shape!Scope, e.declares) \in Shape!Bindings
  BY ScopeIs, ElementIs, DeclareIs
<1>3. PICK b : b = Shape!Declare(Shape!Scope, e.declares)
  OBVIOUS
<1>4. PICK s : s = Shape!Settled
  OBVIOUS
<1>5. scopes' = Append(s, b) /\ Append(s, b) # <<>> /\ Append(s, b) \in Seq(Shape!Bindings)
  BY <1>1, <1>2, <1>3, <1>4, AppendIs
<1>6. Shape!Front(Append(s, b)) = s
  BY <1>1, <1>2, <1>3, <1>4, FrontOfAppend
<1>7. Shape!Settled' = s
  BY <1>5, <1>6 DEF Shape!Settled
<1> QED BY <1>4, <1>5, <1>7 DEF Nested

LEMMA OtherNests ==
  ASSUME Nested, scopes' = Shape!Settled, pendingPop' = FALSE, depth' = depth, open' = open
  PROVE  Nested' /\ scopes' \in Seq(Shape!Bindings)
<1>1. PICK s : s = Shape!Settled
  OBVIOUS
<1>2. Shape!Settled' = s /\ s \in Seq(Shape!Bindings)
  BY <1>1 DEF Shape!Settled, Nested
<1> QED BY <1>1, <1>2 DEF Nested

LEMMA EndNests ==
  ASSUME Nested, open # <<>>, scopes' = Shape!Settled, pendingPop' = TRUE, depth' = depth - 1,
         open' = Shape!Front(open)
  PROVE  /\ Nested' /\ scopes' \in Seq(Shape!Bindings) /\ Len(open') + 1 = Len(open)
         /\ Len(open') \in Nat /\ Len(open) \in Nat /\ \A i \in 1..Len(open') : open'[i] = open[i]
<1>1. open \in Seq(Opened) /\ Shape!Settled \in Seq(Shape!Bindings) /\ depth = Len(open)
      /\ Len(Shape!Settled) = Len(open)
  BY DEF Nested
<1>2. PICK s : s = Shape!Settled
  OBVIOUS
<1>3. PICK c : c = Shape!Front(open)
  OBVIOUS
<1>4. PICK n : n = Len(c)
  OBVIOUS
<1>5. /\ c \in Seq(Opened) /\ n + 1 = Len(open) /\ n \in Nat
      /\ \A i \in 1..n : c[i] = open[i] /\ i \in 1..Len(open)
  BY <1>1, <1>3, <1>4, FrontIs
<1>6. s # <<>> /\ s \in Seq(Shape!Bindings) /\ Len(s) = n + 1
  BY <1>1, <1>2, <1>5
<1>7. PICK r : r = Shape!Front(s)
  OBVIOUS
<1>8. /\ r \in Seq(Shape!Bindings) /\ Len(r) + 1 = n + 1 /\ Len(r) \in Nat
      /\ \A i \in 1..Len(r) : r[i] = s[i]
  BY <1>6, <1>7, FrontIs
<1>9. Len(r) = n
  BY <1>5, <1>8
<1>10. open' = c /\ scopes' = s /\ Shape!Settled' = r /\ depth' = n
  BY <1>1, <1>2, <1>3, <1>5, <1>7 DEF Shape!Settled
<1>11. ASSUME NEW i \in 1..n, NEW p \in Shape!QPrefixes PROVE Innermost(c, i, p, r[i][p])
  <2>1. Innermost(open, i, p, s[i][p])
    BY <1>2, <1>5 DEF Nested
  <2>2. i \in Nat /\ \A j \in 1..i : open[j].declares = c[j].declares
    BY <1>5
  <2>3. Innermost(c, i, p, s[i][p])
    BY <2>1, <2>2, InnermostSame
  <2> QED BY <1>8, <1>9, <2>3
<1>12. Nested'
  BY <1>4, <1>5, <1>6, <1>8, <1>9, <1>10, <1>11 DEF Nested
<1> QED BY <1>4, <1>5, <1>6, <1>10, <1>12


LEMMA StartSkips ==
  ASSUME Skipping, NEW m, Len(open) \in Nat, Len(open') = Len(open) + 1,
         \A i \in 1..Len(open) : open'[i] = open[i], open'[Len(open) + 1].meaning = m,
         skipped' = IF skipped > 0 THEN skipped + 1 ELSE IF m # "protocol" THEN 1 ELSE 0
  PROVE  Skipping' /\ skipped' \in Nat
<1>1. PICK n \in Nat : n = Len(open)
  OBVIOUS
<1>2. PICK k \in Nat : k = skipped
  BY <1>1 DEF Skipping
<1>3. k \in 0..n /\ (\A i \in 1..(n - k) : open[i].meaning = "protocol")
      /\ (k > 0 => open[n - k + 1].meaning # "protocol")
  BY <1>1, <1>2 DEF Skipping
<1>4. CASE k > 0
  <2>1. skipped' = k + 1 /\ Len(open') = n + 1
    BY <1>1, <1>2, <1>4
  <2>2. (n + 1) - (k + 1) = n - k /\ n - k + 1 \in 1..n /\ (\A i \in 1..(n - k) : i \in 1..n)
    BY <1>3, <1>4
  <2>3. k + 1 \in 0..(n + 1) /\ k + 1 > 0
    BY <1>3
  <2>4. \A i \in 1..(n - k) : open'[i].meaning = "protocol"
    BY <1>1, <1>3, <2>2
  <2>5. open'[n - k + 1].meaning # "protocol"
    BY <1>1, <1>3, <1>4, <2>2
  <2> QED BY <2>1, <2>2, <2>3, <2>4, <2>5 DEF Skipping
<1>5. CASE ~(k > 0) /\ m # "protocol"
  <2>1. k = 0 /\ skipped' = 1 /\ Len(open') = n + 1
    BY <1>1, <1>2, <1>5
  <2>2. (n + 1) - 1 = n /\ n - k = n /\ 1 \in 0..(n + 1)
    BY <2>1
  <2>3. \A i \in 1..n : open'[i].meaning = "protocol"
    BY <1>1, <1>3, <2>2
  <2>4. open'[n + 1].meaning # "protocol"
    BY <1>1, <1>5
  <2> QED BY <2>1, <2>2, <2>3, <2>4 DEF Skipping
<1>6. CASE ~(k > 0) /\ m = "protocol"
  <2>1. k = 0 /\ skipped' = 0 /\ Len(open') = n + 1
    BY <1>1, <1>2, <1>6
  <2>2. (n + 1) - 0 = n + 1 /\ n - k = n /\ \A i \in 1..(n + 1) : i \in 1..n \/ i = n + 1
    BY <2>1
  <2>3. \A i \in 1..(n + 1) : open'[i].meaning = "protocol"
    BY <1>1, <1>3, <1>6, <2>2
  <2> QED BY <2>1, <2>2, <2>3 DEF Skipping
<1> QED BY <1>4, <1>5, <1>6

LEMMA EndSkips ==
  ASSUME Skipping, Len(open') \in Nat, Len(open') + 1 = Len(open),
         \A i \in 1..Len(open') : open'[i] = open[i],
         skipped' = IF skipped > 0 THEN skipped - 1 ELSE 0
  PROVE  Skipping' /\ skipped' \in Nat
<1>1. PICK n \in Nat : n = Len(open')
  OBVIOUS
<1>2. PICK k \in Nat : k = skipped
  BY <1>1 DEF Skipping
<1>3. k \in 0..(n + 1) /\ (\A i \in 1..(n + 1 - k) : open[i].meaning = "protocol")
      /\ (k > 0 => open[n + 1 - k + 1].meaning # "protocol")
  BY <1>1, <1>2 DEF Skipping
<1>4. CASE k > 0
  <2>1. skipped' = k - 1 /\ k - 1 \in 0..n /\ n - (k - 1) = n + 1 - k
    BY <1>2, <1>3, <1>4
  <2>2. \A i \in 1..(n + 1 - k) : i \in 1..n
    BY <1>4
  <2>3. \A i \in 1..(n + 1 - k) : open'[i].meaning = "protocol"
    BY <1>1, <1>3, <2>2
  <2>4. ASSUME k - 1 > 0 PROVE open'[n + 1 - k + 1].meaning # "protocol"
    <3>1. n + 1 - k + 1 \in 1..n
      BY <1>3, <2>4
    <3> QED BY <1>1, <1>3, <1>4, <3>1
  <2> QED BY <1>1, <2>1, <2>3, <2>4 DEF Skipping
<1>5. CASE ~(k > 0)
  <2>1. k = 0 /\ skipped' = 0 /\ 0 \in 0..n /\ n - 0 = n
    BY <1>2, <1>5
  <2>2. \A i \in 1..n : i \in 1..(n + 1 - k)
    BY <2>1
  <2>3. \A i \in 1..n : open'[i].meaning = "protocol"
    BY <1>1, <1>3, <2>2
  <2> QED BY <1>1, <2>1, <2>3 DEF Skipping
<1> QED BY <1>4, <1>5

\* While a body is read the reader is where the grammar is.
LEMMA ReadingIs ==
  ASSUME ShapeInv, verdict = "reading"
  PROVE  Shape!TypeOK /\ Nested /\ Skipping /\ Abreast /\ emitted = due
  BY DEF ShapeInv

LEMMA ElementKeeps ==
  ASSUME ShapeBounds, ShapeInv, Shape!Element
  PROVE  ShapeInv'
<1>1. PICK e \in Shape!Elements : Shape!ReadElement(e) /\ Shape!ReferElement(e)
  BY DEF Shape!Element
<1>2. verdict = "reading" /\ surface' = surface
  BY DEF Shape!Element
<1>3. Shape!TypeOK /\ Nested /\ Skipping /\ Abreast
  BY <1>2, ReadingIs
<1>4. PICK m : m = Shape!MeaningOf(e)
  OBVIOUS
<1>5. Shape!NamespaceOf(e) = m /\ m \in Shape!Namespaces
  BY <1>3, <1>4, MeaningOfIs
<1>6. Shape!ElementAccepted(e) <=> Shape!LegalElement(e)
  BY <1>3, AcceptedIs
<1>7. e.tag \in {"start", "empty"}
  BY ElementIs
<1>8. started' = TRUE /\ dtd' = dtd /\ wellformed' = (wellformed /\ Shape!LegalElement(e))
  BY <1>1 DEF Shape!ReferElement
<1>9. dtd' \in BOOLEAN /\ wellformed' \in BOOLEAN
  BY <1>3, <1>8 DEF Shape!TypeOK
<1>10. CASE ~Shape!ElementAccepted(e)
  <2>1. Shape!Refuse
    BY <1>1, <1>10 DEF Shape!ReadElement
  <2>2. ~wellformed'
    BY <1>6, <1>8, <1>10
  <2> QED BY <1>2, <1>8, <1>9, <2>1, <2>2, BodyRefuseKeeps
<1>11. CASE Shape!ElementAccepted(e)
  <2>1. /\ scopes' = Append(Shape!Settled, Shape!Declare(Shape!Scope, e.declares))
        /\ pendingPop' = (e.tag = "empty")
        /\ depth' = IF e.tag = "empty" THEN depth ELSE depth + 1
        /\ seenRoot' = TRUE /\ first' = FALSE /\ emitted' = Shape!Project(e)
        /\ skipped' = Shape!SkippedAfter(e) /\ dirty' = dirty /\ verdict' = verdict
    BY <1>1, <1>11 DEF Shape!ReadElement
  <2>2. wellformed' = wellformed
    BY <1>3, <1>6, <1>8, <1>11 DEF Shape!TypeOK
  <2>3. roots' = IF open = <<>> THEN roots + 1 ELSE roots
    BY <1>1 DEF Shape!ReferElement
  <2>4. roots' = 1
    <3>1. CASE open = <<>>
      <4>1. roots = 0
        BY <1>6, <1>11, <3>1 DEF Shape!LegalElement
      <4> QED BY <2>3, <3>1, <4>1
    <3>2. CASE open # <<>>
      BY <1>3, <2>3, <3>2 DEF Abreast
    <3> QED BY <3>1, <3>2
  <2>5. Abreast'
    BY <1>3, <1>8, <2>1, <2>2, <2>4 DEF Abreast
  <2>6. emitted' = due'
    <3>1. due' = IF ~Shape!Speaks(open) THEN <<>>
                 ELSE IF m = "protocol" THEN <<e.tag>> ELSE <<"placeholder">>
      BY <1>1, <1>4 DEF Shape!ReferElement
    <3>2. skipped \in Nat /\ (Shape!Speaks(open) <=> skipped = 0)
      BY <1>3, SpeaksIs DEF Shape!TypeOK
    <3>3. emitted' = IF skipped > 0 THEN <<>>
                     ELSE IF m # "protocol" THEN <<"placeholder">> ELSE <<e.tag>>
      BY <1>5, <2>1 DEF Shape!Project
    <3>4. skipped > 0 <=> ~Shape!Speaks(open)
      BY <3>2
    <3> QED BY <3>1, <3>3, <3>4
  <2>7. CASE e.tag = "empty"
    <3>1. open' = open /\ pendingPop' = TRUE /\ depth' = depth /\ skipped' = skipped
      BY <1>1, <2>1, <2>7 DEF Shape!ReferElement, Shape!SkippedAfter
    <3>2. Nested' /\ scopes' \in Seq(Shape!Bindings)
      BY <1>3, <2>1, <3>1, EmptyNests
    <3>3. Skipping'
      BY <1>3, <3>1 DEF Skipping
    <3>4. Shape!TypeOK'
      BY <1>2, <1>3, <1>8, <1>9, <2>1, <3>1, <3>2 DEF Shape!TypeOK
    <3> QED BY <1>2, <2>1, <2>5, <2>6, <3>2, <3>3, <3>4 DEF ShapeInv
  <2>8. CASE e.tag = "start"
    <3>1. /\ open' = Append(open, [declares |-> e.declares, meaning |-> m])
          /\ pendingPop' = FALSE /\ depth' = depth + 1
          /\ skipped' = IF skipped > 0 THEN skipped + 1 ELSE IF m # "protocol" THEN 1 ELSE 0
      BY <1>1, <1>4, <1>5, <2>1, <2>8 DEF Shape!ReferElement, Shape!SkippedAfter
    <3>2. /\ Nested' /\ Len(open') = Len(open) + 1 /\ Len(open) \in Nat
          /\ (\A i \in 1..Len(open) : open'[i] = open[i]) /\ open'[Len(open) + 1].meaning = m
          /\ scopes' \in Seq(Shape!Bindings)
      BY <1>3, <1>5, <2>1, <3>1, StartNests
    <3>3. Skipping' /\ skipped' \in Nat
      BY <1>3, <3>1, <3>2, StartSkips
    <3>4. depth' \in Nat
      BY <1>3, <3>1 DEF Shape!TypeOK
    <3>5. Shape!TypeOK'
      BY <1>2, <1>3, <1>8, <1>9, <2>1, <3>1, <3>2, <3>3, <3>4 DEF Shape!TypeOK
    <3> QED BY <1>2, <2>1, <2>5, <2>6, <3>2, <3>3, <3>5 DEF ShapeInv
  <2> QED BY <1>7, <2>7, <2>8
<1> QED BY <1>10, <1>11


LEMMA EndTagKeeps ==
  ASSUME ShapeBounds, ShapeInv, Shape!EndTag
  PROVE  ShapeInv'
<1>1. Shape!ReadEnd /\ Shape!ReferOther("end") /\ verdict = "reading" /\ surface' = surface
  BY DEF Shape!EndTag
<1>2. Shape!TypeOK /\ Nested /\ Skipping /\ Abreast
  BY <1>1, ReadingIs
<1>3. /\ started' = TRUE /\ dtd' = dtd /\ roots' = roots
      /\ wellformed' = (wellformed /\ open # <<>>)
  BY <1>1, <1>2 DEF Shape!ReferOther, Shape!LegalOther, Shape!TypeOK
<1>4. dtd' \in BOOLEAN /\ wellformed' \in BOOLEAN
  BY <1>2, <1>3 DEF Shape!TypeOK
<1>5. depth > 0 <=> open # <<>>
  BY <1>2, DepthIs
<1>6. CASE ~(depth > 0)
  <2>1. Shape!Refuse
    BY <1>1, <1>6 DEF Shape!ReadEnd
  <2> QED BY <1>1, <1>3, <1>4, <1>5, <1>6, <2>1, BodyRefuseKeeps
<1>7. CASE depth > 0
  <2>1. /\ scopes' = Shape!Settled /\ pendingPop' = TRUE /\ depth' = depth - 1 /\ first' = FALSE
        /\ skipped' = IF skipped > 0 THEN skipped - 1 ELSE 0
        /\ emitted' = IF skipped > 0 THEN <<>> ELSE <<"end">>
        /\ seenRoot' = seenRoot /\ dirty' = dirty /\ verdict' = verdict
    BY <1>1, <1>7 DEF Shape!ReadEnd
  <2>2. open # <<>> /\ open' = Shape!Front(open)
    BY <1>1, <1>5, <1>7 DEF Shape!ReferOther
  <2>3. /\ Nested' /\ scopes' \in Seq(Shape!Bindings) /\ Len(open') + 1 = Len(open)
        /\ Len(open') \in Nat /\ Len(open) \in Nat /\ \A i \in 1..Len(open') : open'[i] = open[i]
    BY <1>2, <2>1, <2>2, EndNests
  <2>4. Skipping' /\ skipped' \in Nat
    BY <1>2, <2>1, <2>3, EndSkips
  <2>5. wellformed' = wellformed
    BY <1>2, <1>3, <2>2 DEF Shape!TypeOK
  <2>6. Abreast'
    BY <1>2, <1>3, <2>1, <2>2, <2>5 DEF Abreast
  <2>7. emitted' = due'
    <3>1. due' = IF ~Shape!Speaks(open) THEN <<>> ELSE <<"end">>
      BY <1>1, <2>2 DEF Shape!ReferOther
    <3>2. skipped \in Nat /\ (Shape!Speaks(open) <=> skipped = 0)
      BY <1>2, SpeaksIs DEF Shape!TypeOK
    <3>3. skipped > 0 <=> ~Shape!Speaks(open)
      BY <3>2
    <3> QED BY <2>1, <3>1, <3>3
  <2>8. depth' \in Nat
    BY <1>2, <1>7, <2>1 DEF Shape!TypeOK
  <2>9. Shape!TypeOK'
    BY <1>1, <1>2, <1>3, <1>4, <2>1, <2>3, <2>4, <2>8 DEF Shape!TypeOK
  <2> QED BY <1>1, <2>1, <2>3, <2>4, <2>6, <2>7, <2>9 DEF ShapeInv
<1> QED BY <1>6, <1>7

\* What is neither a tag nor the end: the reader reads on exactly where the grammar allows
\* it, save for the forbidden text it remembers in `dirty`.
LEMMA OtherIs ==
  ASSUME Nested, Abreast, NEW o \in Shape!Others \ {"end", "eof"}
  PROVE  /\ Shape!ReadsOn(o) /\ o # "forbidden" => Shape!LegalOther(o)
         /\ ~Shape!ReadsOn(o) \/ o = "forbidden" => ~Shape!LegalOther(o)
<1>1. (first <=> ~started) /\ (~seenRoot <=> roots = 0)
  BY DEF Abreast
<1>2. depth > 0 <=> open # <<>>
  BY DepthIs
<1> QED BY <1>1, <1>2 DEF Shape!ReadsOn, Shape!LegalOther, Shape!Others

LEMMA OtherKeeps ==
  ASSUME ShapeBounds, ShapeInv, Shape!Other
  PROVE  ShapeInv'
<1>1. PICK o \in Shape!Others \ {"end", "eof"} : Shape!ReadOther(o) /\ Shape!ReferOther(o)
  BY DEF Shape!Other
<1>2. verdict = "reading" /\ surface' = surface
  BY DEF Shape!Other
<1>3. Shape!TypeOK /\ Nested /\ Skipping /\ Abreast
  BY <1>2, ReadingIs
<1>4. /\ started' = TRUE /\ dtd' = (dtd \/ o = "doctype") /\ roots' = roots /\ open' = open
      /\ wellformed' = (wellformed /\ Shape!LegalOther(o))
  BY <1>1 DEF Shape!ReferOther
<1>5. dtd' \in BOOLEAN /\ wellformed' \in BOOLEAN
  BY <1>3, <1>4 DEF Shape!TypeOK
<1>6. CASE ~Shape!ReadsOn(o)
  <2>1. Shape!Refuse
    BY <1>1, <1>6 DEF Shape!ReadOther
  <2>2. ~Shape!LegalOther(o)
    BY <1>3, <1>6, OtherIs
  <2> QED BY <1>2, <1>4, <1>5, <2>1, <2>2, BodyRefuseKeeps
<1>7. CASE Shape!ReadsOn(o)
  <2>1. /\ scopes' = Shape!Settled /\ pendingPop' = FALSE /\ first' = FALSE
        /\ dirty' = (dirty \/ o = "forbidden")
        /\ emitted' = IF skipped > 0 \/ depth = 0 THEN <<>> ELSE <<o>>
        /\ depth' = depth /\ seenRoot' = seenRoot /\ skipped' = skipped /\ verdict' = verdict
    BY <1>1, <1>7 DEF Shape!ReadOther
  <2>2. Nested' /\ scopes' \in Seq(Shape!Bindings)
    BY <1>3, <1>4, <2>1, OtherNests
  <2>3. Skipping'
    BY <1>3, <1>4, <2>1 DEF Skipping
  <2>4. wellformed' <=> ~dirty'
    <3>1. wellformed <=> ~dirty
      BY <1>3 DEF Abreast
    <3>2. CASE o = "forbidden"
      <4>1. ~Shape!LegalOther(o)
        BY <1>3, <3>2, OtherIs
      <4> QED BY <1>4, <2>1, <3>2, <4>1
    <3>3. CASE o # "forbidden"
      <4>1. Shape!LegalOther(o)
        BY <1>3, <1>7, <3>3, OtherIs
      <4> QED BY <1>4, <2>1, <3>1, <3>3, <4>1
    <3> QED BY <3>2, <3>3
  <2>5. Abreast'
    BY <1>3, <1>4, <2>1, <2>4 DEF Abreast
  <2>6. emitted' = due'
    <3>1. due' = IF open = <<>> \/ ~Shape!Speaks(open) THEN <<>> ELSE <<o>>
      BY <1>1 DEF Shape!ReferOther
    <3>2. skipped \in Nat /\ (Shape!Speaks(open) <=> skipped = 0)
      BY <1>3, SpeaksIs DEF Shape!TypeOK
    <3>3. skipped > 0 <=> ~Shape!Speaks(open)
      BY <3>2
    <3>4. depth = 0 <=> open = <<>>
      BY <1>3, DepthIs
    <3> QED BY <2>1, <3>1, <3>3, <3>4
  <2>7. dirty' \in BOOLEAN
    BY <1>3, <2>1 DEF Shape!TypeOK
  <2>8. Shape!TypeOK'
    BY <1>2, <1>3, <1>4, <1>5, <2>1, <2>2, <2>7 DEF Shape!TypeOK
  <2> QED BY <1>2, <2>1, <2>2, <2>3, <2>5, <2>6, <2>8 DEF ShapeInv
<1> QED BY <1>6, <1>7

LEMMA EofKeeps ==
  ASSUME ShapeBounds, ShapeInv, Shape!Eof
  PROVE  ShapeInv'
<1>1. Shape!ReadEof /\ Shape!ReferOther("eof") /\ verdict = "reading" /\ surface' = surface
  BY DEF Shape!Eof
<1>2. Shape!TypeOK /\ Nested /\ Skipping /\ Abreast
  BY <1>1, ReadingIs
<1>3. /\ started' = TRUE /\ dtd' = dtd /\ roots' = roots /\ open' = open
      /\ wellformed' = (wellformed /\ open = <<>> /\ roots = 1)
  BY <1>1, <1>2 DEF Shape!ReferOther, Shape!LegalOther, Shape!TypeOK
<1>4. dtd' \in BOOLEAN /\ wellformed' \in BOOLEAN
  BY <1>2, <1>3 DEF Shape!TypeOK
<1>5. depth = 0 <=> open = <<>>
  BY <1>2, DepthIs
<1>6. (seenRoot <=> roots = 1) /\ (wellformed <=> ~dirty)
  BY <1>2 DEF Abreast
<1>7. CASE ~(depth = 0 /\ seenRoot /\ ~dirty)
  <2>1. Shape!Refuse
    BY <1>1, <1>7 DEF Shape!ReadEof
  <2>2. ~wellformed'
    BY <1>3, <1>5, <1>6, <1>7
  <2> QED BY <1>1, <1>3, <1>4, <2>1, <2>2, BodyRefuseKeeps
<1>8. CASE depth = 0 /\ seenRoot /\ ~dirty
  <2>1. /\ verdict' = "accepted" /\ scopes' = scopes /\ pendingPop' = pendingPop
        /\ depth' = depth /\ seenRoot' = seenRoot /\ first' = first /\ dirty' = dirty
        /\ skipped' = skipped
    BY <1>1, <1>8 DEF Shape!ReadEof
  <2>2. Shape!TypeOK'
    BY <1>1, <1>2, <1>3, <1>4, <2>1 DEF Shape!TypeOK
  <2>3. wellformed' /\ open' = <<>> /\ roots' = 1 /\ ~dirty'
    BY <1>3, <1>5, <1>6, <1>8, <2>1
  <2> QED BY <2>1, <2>2, <2>3 DEF ShapeInv
<1> QED BY <1>7, <1>8

LEMMA ShapeStarts ==
  ASSUME ShapeBounds, Shape!Init
  PROVE  ShapeInv
<1>1. Shape!Settled = <<>> /\ open = <<>> /\ Len(open) = 0
  BY DEF Shape!Init, Shape!Settled
<1>2. Nested
  BY <1>1 DEF Shape!Init, Nested
<1>3. Skipping
  BY <1>1 DEF Shape!Init, Skipping
<1>4. Abreast
  BY DEF Shape!Init, Abreast
<1>5. Shape!TypeOK
  <2>1. scopes \in Seq(Shape!Bindings) /\ depth \in Nat /\ skipped \in Nat
    BY <1>1, <1>2 DEF Shape!Init
  <2>2. {seenRoot, first, dirty, started, dtd, wellformed} \subseteq BOOLEAN
    BY DEF Shape!Init
  <2> QED BY <2>1, <2>2 DEF Shape!Init, Shape!TypeOK
<1> QED BY <1>2, <1>3, <1>4, <1>5 DEF Shape!Init, ShapeInv

LEMMA ShapeSteps ==
  ASSUME ShapeBounds, ShapeInv, Shape!Next
  PROVE  ShapeInv'
  BY ElementKeeps, EndTagKeeps, OtherKeeps, EofKeeps DEF Shape!Next

LEMMA ShapeStutters ==
  ASSUME ShapeInv, UNCHANGED Shape!vars
  PROVE  ShapeInv'
<1> USE DEF Shape!vars
<1>1. Shape!Settled' = Shape!Settled
  BY DEF Shape!Settled
<1>2. Nested' = Nested
  BY <1>1 DEF Nested
<1>3. Skipping' = Skipping /\ Abreast' = Abreast /\ Shape!TypeOK' = Shape!TypeOK
  BY DEF Skipping, Abreast, Shape!TypeOK
<1> QED BY <1>2, <1>3 DEF ShapeInv

LEMMA ShapeSays ==
  ASSUME ShapeBounds, ShapeInv
  PROVE  /\ Shape!TypeOK /\ Shape!ScopesAreTheOpenElements /\ Shape!ReadsExactlyDocuments
         /\ Shape!OnlyTheProtocolSpeaks
<1>1. Shape!ScopesAreTheOpenElements
  <2>1. SUFFICES ASSUME verdict = "reading", NEW p \in Shape!QPrefixes
                 PROVE  Shape!Scope[p] = Shape!Meaning(open, p)
    BY DEF Shape!ScopesAreTheOpenElements
  <2>2. Nested
    BY <2>1, ReadingIs
  <2>3. open \in Seq(Opened) /\ Innermost(open, Len(open), p, Shape!Scope[p])
    BY <2>2, ScopeIs DEF Nested
  <2> QED BY <2>3, MeaningIs
<1>2. Shape!ReadsExactlyDocuments
  <2>1. Shape!TypeOK /\ (verdict = "reading" => (wellformed <=> ~dirty))
    BY DEF ShapeInv, Abreast
  <2> QED BY <2>1 DEF ShapeInv, Shape!ReadsExactlyDocuments, Shape!TypeOK
<1>3. Shape!OnlyTheProtocolSpeaks
  BY DEF ShapeInv, Shape!OnlyTheProtocolSpeaks
<1> QED BY <1>1, <1>2, <1>3 DEF ShapeInv

-----------------------------------------------------------------------------
(* The receiver of pushed records.  The inductive invariant.               *)

ReceiverBounds ==
  /\ Receiver!KindsAssumption /\ Receiver!RedeliveriesAssumption /\ Receiver!OrdersAssumption
  /\ Receiver!BoundsAssumption /\ Receiver!ContentsAssumption

ArtifactsOf(v) == Receiver!ToSet(Receiver!Artifacts(v))

\* What the store holds of a version: a file of each artifact it has where
\* versions are kept, and their unversioned names while no deliveries
\* overlapped.
Saved(v, a) ==
  redelivery # "overwrite" => \E k \in kept : k.artifact = a /\ k.version = v
Shown(v, a) ==
  ~overlapped /\ redelivery # "timestamped" /\ v \in 1..MaxVersion =>
    latest[Receiver!Unversioned(v, a)] = v
Complete(v) == \A a \in ArtifactsOf(v) : Saved(v, a) /\ Shown(v, a)

\* A version that may be answered as accepted.
Delivered(v) ==
  /\ members # <<>>
  /\ "archiver" \in Receiver!ToSet(members) => Complete(v)
  /\ "app" \in Receiver!ToSet(members) => v \in handled

\* The members before the ones in the queue and the one that runs.
Passed(r, m) == m \in Receiver!ToSet(members) /\ m \notin Receiver!ToSet(r.queue) /\ r.stage # m

Coded(r) == \E i \in 1..Len(r.acks) : r.acks[i].control # "none"

\* What the members that are through have done.
Through(r) ==
  r.failures = 0 => /\ Passed(r, "archiver") => Complete(r.version)
                    /\ Passed(r, "app") => r.version \in handled \/ Coded(r)

\* The archiver: what is not to be written any more is written.
Archiving(r) ==
  r.stage = "archiver" =>
    /\ r.todo # <<>>
    /\ \A a \in ArtifactsOf(r.version) :
         /\ <<"version", a>> \in Receiver!ToSet(r.todo) \/ Saved(r.version, a)
         /\ <<"latest", a>> \in Receiver!ToSet(r.todo) \/ Shown(r.version, a)

\* The codes members spoke.
Quoted(r) ==
  \A i \in 1..Len(r.acks) :
    r.acks[i].control # "none" => <<r.acks[i].control, r.version>> \in refusals

Running == {"archiver", "app"}

Called(r) ==
  /\ r.stage = "received" => r.acks = <<>> /\ r.failures = 0
  /\ r.stage \in Running => Len(r.acks) + r.failures + Len(r.queue) + 1 = Len(members)
  /\ r.stage = "merge" => Len(r.acks) + r.failures = Len(members) /\ r.queue = <<>>
  /\ r.stage \in Running \cup {"merge"} => Through(r)
  /\ r.stage = "answered" <=> r.answer # "none"

Progress(r) == Called(r) /\ Archiving(r) /\ Quoted(r)

CodesIn(acks) == {acks[i].control : i \in 1..Len(acks)}

Spoken(r) ==
  r.stage = "answered" =>
    /\ r.answer = "accepted" => Delivered(r.version)
    /\ r.answer = "KEY_ERR" =>
         <<"unknown", r.version>> \in refusals \/ <<"KEY_ERR", r.version>> \in refusals
    /\ r.answer = "KEY_DEL" => <<"KEY_DEL", r.version>> \in refusals
    /\ r.acks # <<>> /\ r.failures = 0 =>
         /\ "KEY_DEL" \in CodesIn(r.acks) <=> r.answer = "KEY_DEL"
         /\ "KEY_ERR" \in CodesIn(r.acks) /\ "KEY_DEL" \notin CodesIn(r.acks)
              <=> r.answer = "KEY_ERR"

\* Deliveries that did not overlap: one request at a time, none once accepted.
Alone ==
  ~overlapped =>
    /\ \A s, t \in Receiver!Slots : requests[s].stage # "free" /\ requests[t].stage # "free" => s = t
    /\ vendor = "accepted" => \A s \in Receiver!Slots : requests[s].stage = "free"

\* What szamlazz.hu knows of its version.
AllKnown ==
  /\ awaited # 0 => vendor = "pushing" /\ requests[awaited].version = version
  /\ vendor = "accepted" => Delivered(version)
  /\ Receiver!StoppedByAVerdict

\* A request that will be refused has cost a fault.
Costly(r) ==
  \/ r.failures > 0
  \/ \E i \in 1..Len(r.acks) : r.acks[i].registration = "forbidden"
  \/ r.answer = "refused"

Counted ==
  members # <<>> =>
    /\ vendor = "pushing" /\ awaited = 0 => Attempts - left <= faults
    /\ vendor = "pushing" /\ awaited # 0 => Attempts - left <= faults + 1
    /\ vendor = "pushing" /\ awaited # 0 /\ Costly(requests[awaited]) => Attempts - left <= faults
    /\ vendor = "dropped" => Attempts <= faults

SetUp ==
  /\ kind \in Pushed /\ contents \in Contents /\ redelivery \in Redeliveries /\ members \in Fanouts

ReceiverInv ==
  /\ Receiver!TypeOK /\ SetUp
  /\ \A s \in Receiver!Slots : Progress(requests[s]) /\ Spoken(requests[s])
  /\ Alone /\ AllKnown /\ Counted

-----------------------------------------------------------------------------
(* What only grows.                                                        *)

Grows ==
  /\ UNCHANGED Receiver!setup
  /\ kept \subseteq kept' /\ handled \subseteq handled' /\ refusals \subseteq refusals'
  /\ overlapped => overlapped'

\* A complete version stays complete, unless a write shows another.
LEMMA CompleteStays ==
  ASSUME Grows, latest' = latest \/ overlapped', NEW v, Complete(v)
  PROVE  Complete(v)'
<1>1. ArtifactsOf(v)' = ArtifactsOf(v)
  BY DEF Grows, Receiver!setup, ArtifactsOf, Receiver!Artifacts
<1>2. ASSUME NEW a \in ArtifactsOf(v) PROVE Saved(v, a)' /\ Shown(v, a)'
  <2>1. Saved(v, a) /\ Shown(v, a)
    BY <1>2 DEF Complete
  <2>2. Saved(v, a)'
    BY <2>1 DEF Grows, Receiver!setup, Saved
  <2>3. Shown(v, a)'
    BY <2>1 DEF Grows, Receiver!setup, Shown, Receiver!Unversioned
  <2> QED BY <2>2, <2>3
<1> QED BY <1>1, <1>2 DEF Complete

LEMMA DeliveredStays ==
  ASSUME Grows, latest' = latest \/ overlapped', NEW v, Delivered(v)
  PROVE  Delivered(v)'
<1>1. Complete(v) => Complete(v)'
  BY CompleteStays
<1> QED BY <1>1 DEF Delivered, Grows, Receiver!setup

\* A request nobody touches keeps its progress.
LEMMA ProgressStays ==
  ASSUME Grows, NEW r, Progress(r), latest' = latest \/ overlapped' \/ r.stage = "free"
  PROVE  Progress(r)'
<1>1. r.stage # "free" /\ Complete(r.version) => Complete(r.version)'
  BY CompleteStays
<1>2. Called(r)'
  BY <1>1 DEF Progress, Called, Through, Passed, Running, Grows, Receiver!setup
<1>3. ArtifactsOf(r.version)' = ArtifactsOf(r.version)
  BY DEF Grows, Receiver!setup, ArtifactsOf, Receiver!Artifacts
<1>4. Archiving(r)'
  <2>1. SUFFICES ASSUME r.stage = "archiver", NEW a \in ArtifactsOf(r.version)
                 PROVE  /\ r.todo # <<>>
                        /\ <<"version", a>> \in Receiver!ToSet(r.todo) \/ Saved(r.version, a)'
                        /\ <<"latest", a>> \in Receiver!ToSet(r.todo) \/ Shown(r.version, a)'
    BY <1>3 DEF Archiving, Progress
  <2>2. Saved(r.version, a) => Saved(r.version, a)'
    BY DEF Grows, Receiver!setup, Saved
  <2>3. Shown(r.version, a) => Shown(r.version, a)'
    BY <2>1 DEF Grows, Receiver!setup, Shown, Receiver!Unversioned
  <2> QED BY <2>1, <2>2, <2>3 DEF Progress, Archiving
<1>5. Quoted(r)'
  BY DEF Progress, Quoted, Grows
<1> QED BY <1>2, <1>4, <1>5 DEF Progress

LEMMA SpokenStays ==
  ASSUME Grows, NEW r, Spoken(r), latest' = latest \/ overlapped' \/ r.stage = "free"
  PROVE  Spoken(r)'
<1>1. r.stage # "free" /\ Delivered(r.version) => Delivered(r.version)'
  BY DeliveredStays
<1> QED BY <1>1 DEF Spoken, Grows

-----------------------------------------------------------------------------
(* The steps of a request.                                                 *)

\* Sequences, as the members and the writes are run through.
LEMMA OneAfterTheOther ==
  ASSUME NEW S, NEW u \in Seq(S), NEW v \in Seq(S)
  PROVE  /\ u \o v \in Seq(S)
         /\ Receiver!ToSet(u \o v) = Receiver!ToSet(u) \cup Receiver!ToSet(v)
         /\ u # <<>> => u \o v # <<>>
<1>1. u \o v \in Seq(S) /\ Len(u \o v) = Len(u) + Len(v)
  OBVIOUS
<1>2. \A i \in 1..Len(u) : (u \o v)[i] = u[i]
  OBVIOUS
<1>3. \A i \in 1..Len(v) : (u \o v)[i + Len(u)] = v[i]
  OBVIOUS
<1>4. ASSUME NEW x \in Receiver!ToSet(u \o v) PROVE x \in Receiver!ToSet(u) \cup Receiver!ToSet(v)
  <2>1. PICK i \in 1..Len(u \o v) : (u \o v)[i] = x
    BY <1>1 DEF Receiver!ToSet
  <2>2. CASE i \in 1..Len(u)
    BY <2>1, <2>2, <1>2 DEF Receiver!ToSet
  <2>3. CASE i - Len(u) \in 1..Len(v)
    BY <2>1, <2>3 DEF Receiver!ToSet
  <2> QED BY <2>1, <2>2, <2>3, <1>1
<1>5. ASSUME NEW x \in Receiver!ToSet(u) PROVE x \in Receiver!ToSet(u \o v)
  <2>1. PICK i \in 1..Len(u) : u[i] = x
    BY DEF Receiver!ToSet
  <2>2. i \in 1..Len(u \o v) /\ (u \o v)[i] = x
    BY <2>1, <1>1, <1>2
  <2> QED BY <2>2, <1>1 DEF Receiver!ToSet
<1>6. ASSUME NEW x \in Receiver!ToSet(v) PROVE x \in Receiver!ToSet(u \o v)
  <2>1. PICK i \in 1..Len(v) : v[i] = x
    BY DEF Receiver!ToSet
  <2>2. i + Len(u) \in 1..Len(u \o v) /\ (u \o v)[i + Len(u)] = x
    BY <2>1, <1>1, <1>3
  <2> QED BY <2>2, <1>1 DEF Receiver!ToSet
<1>7. u # <<>> => u \o v # <<>>
  BY <1>1
<1> QED BY <1>1, <1>4, <1>5, <1>6, <1>7

LEMMA RestOfTheQueue ==
  ASSUME NEW S, NEW u \in Seq(S), u # <<>>
  PROVE  /\ Tail(u) \in Seq(S) /\ Len(u) = Len(Tail(u)) + 1
         /\ \A x : x \in Receiver!ToSet(u) => x = Head(u) \/ x \in Receiver!ToSet(Tail(u))
         /\ \A x : x \in Receiver!ToSet(Tail(u)) => x \in Receiver!ToSet(u)
<1>1. Tail(u) \in Seq(S) /\ Len(u) = Len(Tail(u)) + 1
  OBVIOUS
<1>2. \A i \in 1..Len(Tail(u)) : Tail(u)[i] = u[i + 1]
  OBVIOUS
<1>3. ASSUME NEW x \in Receiver!ToSet(u) PROVE x = Head(u) \/ x \in Receiver!ToSet(Tail(u))
  <2>1. PICK i \in 1..Len(u) : u[i] = x
    BY DEF Receiver!ToSet
  <2>2. CASE i = 1
    BY <2>1, <2>2
  <2>3. CASE i > 1
    <3>1. i - 1 \in 1..Len(Tail(u)) /\ Tail(u)[i - 1] = x
      BY <2>1, <2>3, <1>1, <1>2
    <3>2. i - 1 \in DOMAIN Tail(u)
      BY <3>1, <1>1
    <3> QED BY <3>1, <3>2 DEF Receiver!ToSet
  <2> QED BY <2>1, <2>2, <2>3
<1>4. ASSUME NEW x \in Receiver!ToSet(Tail(u)) PROVE x \in Receiver!ToSet(u)
  <2>1. PICK i \in 1..Len(Tail(u)) : Tail(u)[i] = x
    BY <1>1 DEF Receiver!ToSet
  <2>2. i + 1 \in 1..Len(u) /\ u[i + 1] = x
    BY <2>1, <1>1, <1>2
  <2> QED BY <2>2 DEF Receiver!ToSet
<1> QED BY <1>1, <1>3, <1>4

LEMMA MembersAre ==
  ASSUME ReceiverBounds, SetUp
  PROVE  members \in Seq(Receiver!Members) /\ Len(members) <= 2
<1>1. members \in {<<"archiver", "app">>, <<"app", "archiver">>, <<"archiver">>, <<>>}
  BY DEF SetUp, ReceiverBounds, Receiver!OrdersAssumption
<1>2. CASE members = <<"archiver", "app">>
  BY <1>2 DEF Receiver!Members
<1>3. CASE members = <<"app", "archiver">>
  BY <1>3 DEF Receiver!Members
<1>4. CASE members = <<"archiver">>
  BY <1>4 DEF Receiver!Members
<1>5. CASE members = <<>>
  BY <1>5
<1> QED BY <1>1, <1>2, <1>3, <1>4, <1>5

\* A request between two members.
Between(q) ==
  /\ q.answer = "none"
  /\ Len(q.acks) + q.failures + Len(q.queue) = Len(members)
  /\ q.failures = 0 =>
       /\ "archiver" \in Receiver!ToSet(members) /\ "archiver" \notin Receiver!ToSet(q.queue) => Complete(q.version)
       /\ "app" \in Receiver!ToSet(members) /\ "app" \notin Receiver!ToSet(q.queue)
            => q.version \in handled \/ Coded(q)
  /\ Quoted(q)

\* The archiver sets out to write every artifact under each of its names.
LEMMA WritesCover ==
  ASSUME ReceiverBounds, SetUp, NEW v
  PROVE  /\ Receiver!ArchiverWrites(v) \in Seq(Receiver!Objects)
         /\ Receiver!ArchiverWrites(v) # <<>>
         /\ \A a \in ArtifactsOf(v) :
              /\ redelivery # "overwrite" => <<"version", a>> \in Receiver!ToSet(Receiver!ArchiverWrites(v))
              /\ redelivery # "timestamped" => <<"latest", a>> \in Receiver!ToSet(Receiver!ArchiverWrites(v))
<1>2. redelivery \in {"overwrite", "timestamped", "both"}
  BY DEF ReceiverBounds, Receiver!RedeliveriesAssumption, SetUp
<1>3. PICK arts : arts = Receiver!Artifacts(v)
  OBVIOUS
<1>3a. arts \in {<<"xml", "pdf", "json">>, <<"batch", "first", "second">>, <<"xml", "json">>}
  BY <1>3 DEF Receiver!Artifacts
<1>4. ASSUME NEW a \in Receiver!Names
      PROVE  /\ Receiver!Writes(a) \in Seq(Receiver!Objects)
             /\ Receiver!Writes(a) # <<>>
             /\ redelivery # "overwrite" => <<"version", a>> \in Receiver!ToSet(Receiver!Writes(a))
             /\ redelivery # "timestamped" => <<"latest", a>> \in Receiver!ToSet(Receiver!Writes(a))
  <2>1. <<"version", a>> \in Receiver!Objects /\ <<"latest", a>> \in Receiver!Objects
    BY DEF Receiver!Objects
  <2>2. CASE redelivery = "overwrite"
    BY <2>1, <2>2 DEF Receiver!Writes, Receiver!ToSet
  <2>3. CASE redelivery = "timestamped"
    BY <2>1, <2>3 DEF Receiver!Writes, Receiver!ToSet
  <2>4. CASE redelivery = "both"
    BY <2>1, <2>4 DEF Receiver!Writes, Receiver!ToSet
  <2> QED BY <1>2, <2>2, <2>3, <2>4
<1>5. CASE arts = <<"xml", "json">>
  <2>1. ArtifactsOf(v) = {"xml", "json"} /\ Len(arts) = 2 /\ arts[1] = "xml" /\ arts[2] = "json"
    BY <1>3, <1>5 DEF ArtifactsOf, Receiver!ToSet
  <2>2. Receiver!ArchiverWrites(v) = Receiver!Writes("xml") \o Receiver!Writes("json")
    BY <1>3, <2>1 DEF Receiver!ArchiverWrites
  <2>3. "xml" \in Receiver!Names /\ "json" \in Receiver!Names
    BY DEF Receiver!Names
  <2>4. PICK u, y : u = Receiver!Writes("xml") /\ y = Receiver!Writes("json")
    OBVIOUS
  <2>5. u \in Seq(Receiver!Objects) /\ y \in Seq(Receiver!Objects) /\ u # <<>>
    BY <2>3, <2>4, <1>4
  <2>6. u \o y \in Seq(Receiver!Objects) /\ Receiver!ToSet(u \o y) = Receiver!ToSet(u) \cup Receiver!ToSet(y) /\ u \o y # <<>>
    BY <2>5, OneAfterTheOther
  <2>7. ASSUME NEW a \in ArtifactsOf(v)
        PROVE  a \in Receiver!Names /\ Receiver!ToSet(Receiver!Writes(a)) \subseteq Receiver!ToSet(Receiver!ArchiverWrites(v))
    BY <2>1, <2>2, <2>3, <2>4, <2>6
  <2> QED BY <2>2, <2>4, <2>6, <2>7, <1>4
<1>6. ASSUME NEW n1 \in Receiver!Names, NEW n2 \in Receiver!Names, NEW n3 \in Receiver!Names,
             arts = <<n1, n2, n3>>
      PROVE  /\ Receiver!ArchiverWrites(v) \in Seq(Receiver!Objects)
             /\ Receiver!ArchiverWrites(v) # <<>>
             /\ \A a \in ArtifactsOf(v) :
                  /\ redelivery # "overwrite" => <<"version", a>> \in Receiver!ToSet(Receiver!ArchiverWrites(v))
                  /\ redelivery # "timestamped" => <<"latest", a>> \in Receiver!ToSet(Receiver!ArchiverWrites(v))
  <2>1. ArtifactsOf(v) = {n1, n2, n3} /\ Len(arts) = 3 /\ arts[1] = n1 /\ arts[2] = n2 /\ arts[3] = n3
    BY <1>3, <1>6 DEF ArtifactsOf, Receiver!ToSet
  <2>2. Receiver!ArchiverWrites(v) = (Receiver!Writes(n1) \o Receiver!Writes(n2)) \o Receiver!Writes(n3)
    BY <1>3, <2>1 DEF Receiver!ArchiverWrites
  <2>4. PICK u, y, w : u = Receiver!Writes(n1) /\ y = Receiver!Writes(n2) /\ w = Receiver!Writes(n3)
    OBVIOUS
  <2>5. u \in Seq(Receiver!Objects) /\ y \in Seq(Receiver!Objects) /\ w \in Seq(Receiver!Objects) /\ u # <<>>
    BY <2>4, <1>4
  <2>6. u \o y \in Seq(Receiver!Objects) /\ Receiver!ToSet(u \o y) = Receiver!ToSet(u) \cup Receiver!ToSet(y) /\ u \o y # <<>>
    BY <2>5, OneAfterTheOther
  <2>7. PICK x : x = u \o y
    OBVIOUS
  <2>8. x \in Seq(Receiver!Objects) /\ x # <<>>
    BY <2>6, <2>7
  <2>9. x \o w \in Seq(Receiver!Objects) /\ Receiver!ToSet(x \o w) = Receiver!ToSet(x) \cup Receiver!ToSet(w) /\ x \o w # <<>>
    BY <2>5, <2>8, OneAfterTheOther
  <2>10. Receiver!ArchiverWrites(v) = x \o w
    BY <2>2, <2>4, <2>7
  <2>11. Receiver!ToSet(Receiver!ArchiverWrites(v)) = Receiver!ToSet(u) \cup Receiver!ToSet(y) \cup Receiver!ToSet(w)
    BY <2>6, <2>7, <2>9, <2>10
  <2>12. Receiver!ArchiverWrites(v) \in Seq(Receiver!Objects) /\ Receiver!ArchiverWrites(v) # <<>>
    BY <2>9, <2>10
  <2>13. ASSUME NEW a \in ArtifactsOf(v)
         PROVE  a \in Receiver!Names /\ Receiver!ToSet(Receiver!Writes(a)) \subseteq Receiver!ToSet(Receiver!ArchiverWrites(v))
    BY <2>1, <2>4, <2>11
  <2> QED BY <2>12, <2>13, <1>4
<1>7. {"xml", "pdf", "json", "batch", "first", "second"} \subseteq Receiver!Names
  BY DEF Receiver!Names
<1> QED BY <1>3a, <1>5, <1>6, <1>7

With(q, stage, todo, queue) == [q EXCEPT !.stage = stage, !.todo = todo, !.queue = queue]

\* A request with other fields is a request.
LEMMA RequestWith ==
  ASSUME NEW q \in Receiver!Request,
         NEW stage \in {"free", "received", "archiver", "app", "merge", "answered"},
         NEW todo \in Seq(Receiver!Objects), NEW queue \in Seq(Receiver!Members)
  PROVE  With(q, stage, todo, queue) \in Receiver!Request
  BY DEF With, Receiver!Request

LEMMA NothingToDo == <<>> \in Seq(Receiver!Objects) /\ <<>> \in Seq(Receiver!Members)
  OBVIOUS

\* The next member begins, or the document is to be answered.
LEMMA BeginKeeps ==
  ASSUME ReceiverBounds, SetUp, UNCHANGED Receiver!setup, NEW q \in Receiver!Request, NEW r, r = Receiver!Begin(q),
         Between(q)'
  PROVE  /\ r \in Receiver!Request /\ r.version = q.version
         /\ r.stage \in Running \cup {"merge"}
         /\ r.acks = q.acks /\ r.failures = q.failures /\ r.answer = "none"
         /\ Progress(r)'
<1>1. ArtifactsOf(q.version)' = ArtifactsOf(q.version) /\ members' = members /\ redelivery' = redelivery
  BY DEF Receiver!setup, ArtifactsOf, Receiver!Artifacts
<1>2. q.queue \in Seq(Receiver!Members)
  BY DEF Receiver!Request
<1>3. CASE q.queue = <<>>
  <2>1. r = [q EXCEPT !.stage = "merge", !.todo = <<>>]
    BY <1>3 DEF Receiver!Begin
  <2>2a. r = With(q, "merge", <<>>, q.queue)
    BY <2>1 DEF Receiver!Request, With
  <2>2b. r \in Receiver!Request
    BY <2>2a, <1>2, RequestWith, NothingToDo
  <2>2. /\ r \in Receiver!Request /\ r.stage = "merge" /\ r.queue = <<>> /\ r.version = q.version
        /\ r.acks = q.acks /\ r.failures = q.failures /\ r.answer = q.answer
    BY <2>1, <2>2b, <1>3 DEF Receiver!Request
  <2>3. q.answer = "none"
    BY DEF Between
  <2>4. Through(r)'
    BY <1>1, <1>3, <2>2 DEF Between, Through, Passed, Coded
  <2>5. Called(r)'
    BY <1>1, <1>3, <2>2, <2>3, <2>4 DEF Between, Called, Running, Receiver!Request
  <2>6. Quoted(r)' /\ Archiving(r)'
    BY <2>2 DEF Between, Quoted, Archiving
  <2> QED BY <2>2, <2>3, <2>5, <2>6 DEF Progress
<1>4. CASE q.queue # <<>> /\ Head(q.queue) = "archiver"
  <2>1. r = [q EXCEPT !.stage = "archiver", !.todo = Receiver!ArchiverWrites(q.version), !.queue = Tail(q.queue)]
    BY <1>4 DEF Receiver!Begin
  <2>2. /\ r.stage = "archiver" /\ r.todo = Receiver!ArchiverWrites(q.version) /\ r.queue = Tail(q.queue)
        /\ r.version = q.version /\ r.acks = q.acks /\ r.failures = q.failures
        /\ r.answer = q.answer
    BY <2>1 DEF Receiver!Request
  <2>3. r \in Receiver!Request
    <3>1. Tail(q.queue) \in Seq(Receiver!Members)
      BY <1>2, <1>4, RestOfTheQueue
    <3>2. r = With(q, "archiver", Receiver!ArchiverWrites(q.version), Tail(q.queue))
      BY <2>1 DEF With
    <3>3. Receiver!ArchiverWrites(q.version) \in Seq(Receiver!Objects)
      BY WritesCover
    <3> QED BY <3>1, <3>2, <3>3, RequestWith
  <2>4. /\ Len(q.queue) = Len(r.queue) + 1
        /\ \A m : m \in Receiver!ToSet(q.queue) => m = "archiver" \/ m \in Receiver!ToSet(r.queue)
    BY <1>2, <1>4, <2>2, RestOfTheQueue
  <2>5. q.answer = "none"
    BY DEF Between
  <2>6. Through(r)'
    BY <1>1, <2>2, <2>4 DEF Between, Through, Passed, Coded
  <2>7. Called(r)'
    BY <1>1, <2>2, <2>3, <2>4, <2>5, <2>6 DEF Between, Called, Running, Receiver!Request
  <2>8. Archiving(r)'
    BY <1>1, <2>2, WritesCover DEF Archiving, Saved, Shown
  <2>9. Quoted(r)'
    BY <2>2 DEF Between, Quoted
  <2> QED BY <2>2, <2>3, <2>5, <2>7, <2>8, <2>9 DEF Progress, Running
<1>5. CASE q.queue # <<>> /\ Head(q.queue) # "archiver"
  <2>1. r = [q EXCEPT !.stage = "app", !.todo = <<>>, !.queue = Tail(q.queue)]
    BY <1>5 DEF Receiver!Begin
  <2>2. /\ r.stage = "app" /\ r.queue = Tail(q.queue)
        /\ r.version = q.version /\ r.acks = q.acks /\ r.failures = q.failures
        /\ r.answer = q.answer
    BY <2>1 DEF Receiver!Request
  <2>3. r \in Receiver!Request
    <3>1. Tail(q.queue) \in Seq(Receiver!Members)
      BY <1>2, <1>5, RestOfTheQueue
    <3>2. r = With(q, "app", <<>>, Tail(q.queue))
      BY <2>1 DEF With
    <3> QED BY <3>1, <3>2, NothingToDo, RequestWith
  <2>4. Head(q.queue) = "app"
    BY <1>2, <1>5 DEF Receiver!Members
  <2>5. /\ Len(q.queue) = Len(r.queue) + 1
        /\ \A m : m \in Receiver!ToSet(q.queue) => m = "app" \/ m \in Receiver!ToSet(r.queue)
    BY <1>2, <1>5, <2>2, <2>4, RestOfTheQueue
  <2>6. q.answer = "none"
    BY DEF Between
  <2>7. Through(r)'
    BY <1>1, <2>2, <2>5 DEF Between, Through, Passed, Coded
  <2>8. Called(r)'
    BY <1>1, <2>2, <2>3, <2>5, <2>6, <2>7 DEF Between, Called, Running, Receiver!Request
  <2>9. Quoted(r)' /\ Archiving(r)'
    BY <2>2 DEF Between, Quoted, Archiving
  <2> QED BY <2>2, <2>3, <2>6, <2>8, <2>9 DEF Progress, Running
<1> QED BY <1>3, <1>4, <1>5

\* What a fault more leaves of a count that faults bound.
LEMMA OneFaultMore ==
  ASSUME NEW a \in Nat, NEW l \in Nat, NEW f \in Nat, NEW g, g = f \/ g = f + 1
  PROVE  /\ a - l <= f => a - l <= g
         /\ a - l <= f + 1 => a - l <= g + 1
         /\ a - l <= f + 1 /\ g = f + 1 => a - l <= g
  OBVIOUS

\* A step of a request that is being handled: what the request has come to is
\* enough, for it takes nothing from the others and from szamlazz.hu.
LEMMA InsideKeeps ==
  ASSUME ReceiverBounds, ReceiverInv, Grows,
         NEW s \in Receiver!Slots, requests[s].stage # "free",
         NEW r \in Receiver!Request, Receiver!Put(s, r), r.stage # "free", r.version = requests[s].version,
         Progress(r)', Spoken(r)',
         UNCHANGED <<version, left, vendor, awaited, connected, overlapped>>,
         latest' \in [Receiver!Places -> 0..MaxVersion], sequence' \in Nat,
         faults' = faults \/ faults' = faults + 1, faults' \in 0..MaxFaults,
         members # <<>> /\ Costly(r) => Costly(requests[s]) \/ faults' = faults + 1
  PROVE  ReceiverInv'
<1>1. requests' = [requests EXCEPT ![s] = r] /\ requests \in [Receiver!Slots -> Receiver!Request]
  BY DEF Receiver!Put, ReceiverInv, Receiver!TypeOK
<1>2. requests'[s] = r /\ \A t \in Receiver!Slots \ {s} : requests'[t] = requests[t]
  BY <1>1
<1>3. UNCHANGED <<contents, Receiver!Objects, Receiver!Request, members, kind, redelivery>>
  BY DEF Grows, Receiver!setup, Receiver!Objects, Receiver!Request
<1>4. Receiver!TypeOK' /\ SetUp'
  <2>1. requests' \in [Receiver!Slots -> Receiver!Request]
    BY <1>1
  <2>2. awaited \in 0..2 /\ (awaited # 0 => requests'[awaited].stage # "free")
    BY <1>1, <1>2 DEF ReceiverInv, Receiver!TypeOK, Receiver!Slots
  <2> QED BY <1>3, <2>1, <2>2 DEF ReceiverInv, Receiver!TypeOK, SetUp
<1>5. ASSUME NEW t \in Receiver!Slots PROVE Progress(requests[t])' /\ Spoken(requests[t])'
  <2>1. CASE t = s
    BY <1>2, <2>1
  <2>2. CASE t # s
    <3>1. PICK q : q = requests[t]
      OBVIOUS
    <3>2. requests'[t] = q
      BY <1>2, <2>2, <3>1
    <3>3. Progress(q) /\ Spoken(q)
      BY <3>1 DEF ReceiverInv
    <3>4. latest' = latest \/ overlapped' \/ q.stage = "free"
      BY <2>2, <3>1 DEF ReceiverInv, Alone
    <3>5. Progress(q)' /\ Spoken(q)'
      BY <3>3, <3>4, ProgressStays, SpokenStays
    <3> QED BY <3>2, <3>5
  <2> QED BY <2>1, <2>2
<1>6. Alone'
  BY <1>1, <1>2 DEF ReceiverInv, Alone
<1>7. AllKnown'
  <2>1. awaited # 0 => requests'[awaited].version = requests[awaited].version
    BY <1>1, <1>2 DEF ReceiverInv, Receiver!TypeOK, Receiver!Slots
  <2>2. vendor = "accepted" => overlapped'
    BY DEF ReceiverInv, Alone
  <2>3. PICK v : v = version
    OBVIOUS
  <2>4. vendor = "accepted" => Delivered(v)'
    BY <2>2, <2>3, DeliveredStays DEF ReceiverInv, AllKnown
  <2>5. vendor' = "accepted" => Delivered(version)'
    BY <2>3, <2>4
  <2>6. Receiver!StoppedByAVerdict'
    BY DEF ReceiverInv, AllKnown, Receiver!StoppedByAVerdict, Grows
  <2> QED BY <2>1, <2>5, <2>6 DEF ReceiverInv, AllKnown
<1>8. Counted'
  <2>1. CASE members = <<>>
    BY <2>1, <1>3 DEF Counted
  <2>2. CASE members # <<>> /\ awaited # 0 /\ vendor = "pushing"
    <3>1. /\ Attempts - left <= faults + 1
          /\ Costly(requests[awaited]) => Attempts - left <= faults
      BY <2>2 DEF ReceiverInv, Counted
    <3>2. awaited \in Receiver!Slots /\ left \in Nat /\ faults \in Nat /\ Attempts \in Nat
      BY <2>2 DEF ReceiverInv, Receiver!TypeOK, Receiver!Slots, ReceiverBounds, Receiver!BoundsAssumption
    <3>3. awaited = s => requests'[awaited] = r
      BY <1>2
    <3>4. awaited # s => requests'[awaited] = requests[awaited]
      BY <1>2, <3>2
    <3>5. PICK x : x = requests'[awaited]
      OBVIOUS
    <3>6. Costly(x) => Costly(requests[awaited]) \/ faults' = faults + 1
      BY <2>2, <3>3, <3>4, <3>5
    <3>7. (Costly(x) => Attempts - left <= faults') /\ Attempts - left <= faults' + 1
      <4>1. faults' = faults \/ faults' = faults + 1
        OBVIOUS
      <4> QED BY <3>1, <3>2, <3>6, <4>1, OneFaultMore
    <3>8. Costly(requests[awaited])' => Costly(x)
      BY <3>5 DEF Costly
    <3> QED BY <2>2, <3>7, <3>8 DEF Counted
  <2>3. CASE members # <<>> /\ ~(awaited # 0 /\ vendor = "pushing")
    <3>1. left \in Nat /\ faults \in Nat /\ faults' \in Nat /\ Attempts \in Nat /\ faults <= faults'
      BY DEF ReceiverInv, Receiver!TypeOK, ReceiverBounds, Receiver!BoundsAssumption
    <3>2. /\ vendor = "pushing" /\ awaited = 0 => Attempts - left <= faults
          /\ vendor = "dropped" => Attempts <= faults
      BY <2>3 DEF ReceiverInv, Counted
    <3>3. /\ vendor = "pushing" /\ awaited = 0 => Attempts - left <= faults'
          /\ vendor = "dropped" => Attempts <= faults'
      BY <3>1, <3>2
    <3> QED BY <2>3, <3>3 DEF Counted
  <2> QED BY <2>1, <2>2, <2>3
<1> QED BY <1>4, <1>5, <1>6, <1>7, <1>8 DEF ReceiverInv

\* A request goes on to its next member.
LEMMA OnwardKeeps ==
  ASSUME ReceiverBounds, ReceiverInv, Grows,
         NEW s \in Receiver!Slots, requests[s].stage # "free",
         NEW q \in Receiver!Request, Receiver!Put(s, Receiver!Begin(q)), q.version = requests[s].version, Between(q)',
         UNCHANGED <<version, left, vendor, awaited, connected, overlapped>>,
         latest' \in [Receiver!Places -> 0..MaxVersion], sequence' \in Nat,
         faults' = faults \/ faults' = faults + 1, faults' \in 0..MaxFaults,
         Costly(q) => Costly(requests[s]) \/ faults' = faults + 1
  PROVE  ReceiverInv'
<1>1. PICK r : r = Receiver!Begin(q)
  OBVIOUS
<1>2. SetUp /\ UNCHANGED Receiver!setup
  BY DEF ReceiverInv, Grows
<1>3. /\ r \in Receiver!Request /\ r.version = q.version
      /\ r.stage \in Running \cup {"merge"}
      /\ r.acks = q.acks /\ r.failures = q.failures /\ r.answer = "none"
      /\ Progress(r)'
  BY <1>1, <1>2, BeginKeeps
<1>4. Spoken(r)' /\ r.stage # "free"
  BY <1>3 DEF Spoken, Running
<1>5. Costly(r) => Costly(q)
  BY <1>3 DEF Costly
<1> QED BY <1>1, <1>3, <1>4, <1>5, InsideKeeps

LEMMA OneMoreCalled ==
  ASSUME NEW a \in Nat, NEW b \in Nat, NEW c \in Nat, NEW n, a + b + c + 1 = n
  PROVE  (a + 1) + b + c = n /\ a + (b + 1) + c = n
  OBVIOUS

LEMMA OneMoreFailure ==
  ASSUME NEW q \in Receiver!Request, NEW n \in Nat
  PROVE  [q EXCEPT !.failures = n] \in Receiver!Request
  BY DEF Receiver!Request

\* One more answer.
LEMMA OneMoreAck ==
  ASSUME NEW acks \in Seq(Receiver!Acks), NEW ack \in Receiver!Acks
  PROVE  /\ Append(acks, ack) \in Seq(Receiver!Acks) /\ Len(Append(acks, ack)) = Len(acks) + 1
         /\ \A i \in 1..Len(acks) : Append(acks, ack)[i] = acks[i]
         /\ Append(acks, ack)[Len(acks) + 1] = ack
  OBVIOUS

\* A member answers: nothing it spoke is lost, and what it took is told.
LEMMA AnsweredKeeps ==
  ASSUME ReceiverBounds, ReceiverInv, Grows,
         NEW s \in Receiver!Slots, requests[s].stage \in Running,
         NEW ack \in Receiver!Acks, Receiver!Put(s, Receiver!Answered(requests[s], ack)),
         ack.control # "none" => <<ack.control, requests[s].version>> \in refusals',
         latest' = latest \/ overlapped' \/ requests[s].stage = "archiver",
         NEW v, v = requests[s].version,
         requests[s].stage = "archiver" /\ requests[s].failures = 0 => Complete(v)',
         requests[s].stage = "app" => ack.control # "none" \/ v \in handled',
         UNCHANGED <<version, left, vendor, awaited, connected, overlapped>>,
         latest' \in [Receiver!Places -> 0..MaxVersion], sequence' \in Nat,
         faults' = faults \/ faults' = faults + 1, faults' \in 0..MaxFaults,
         ack.registration = "forbidden" => faults' = faults + 1
  PROVE  ReceiverInv'
<1>1. PICK p : p = requests[s]
  OBVIOUS
<1>2. PICK q : q = [p EXCEPT !.acks = Append(p.acks, ack)]
  OBVIOUS
<1>3. p \in Receiver!Request /\ Progress(p) /\ p.stage # "free"
  BY <1>1 DEF ReceiverInv, Receiver!TypeOK, Running
<1>4. p.acks \in Seq(Receiver!Acks) /\ p.failures \in Nat
  BY <1>3 DEF Receiver!Request
<1>5. q \in Receiver!Request
  BY <1>2, <1>3, <1>4, OneMoreAck DEF Receiver!Request
<1>6. /\ q.acks = Append(p.acks, ack) /\ q.version = v /\ q.queue = p.queue
      /\ q.failures = p.failures /\ q.answer = p.answer /\ p.version = v
  BY <1>1, <1>2, <1>3 DEF Receiver!Request
<1>7. Receiver!Put(s, Receiver!Begin(q))
  BY <1>1, <1>2 DEF Receiver!Answered
<1>8. /\ Len(q.acks) = Len(p.acks) + 1
      /\ \A i \in 1..Len(p.acks) : q.acks[i] = p.acks[i]
      /\ q.acks[Len(p.acks) + 1] = ack
  BY <1>4, <1>6, OneMoreAck
<1>9. Len(p.acks) \in Nat /\ p.queue \in Seq(Receiver!Members) /\ Len(p.queue) \in Nat
  BY <1>3, <1>4 DEF Receiver!Request
<1>10. UNCHANGED <<members, redelivery, kind>>
  BY DEF Grows, Receiver!setup
<1>11. Coded(p) \/ ack.control # "none" => Coded(q)
  BY <1>8, <1>9 DEF Coded
<1>12. Between(q)'
  <2>1. q.answer = "none"
    BY <1>1, <1>3, <1>6 DEF Progress, Called, Running
  <2>2. Len(q.acks) + q.failures + Len(q.queue) = Len(members)'
    <3>1. Len(p.acks) + p.failures + Len(p.queue) + 1 = Len(members)
      BY <1>1, <1>3 DEF Progress, Called
    <3>2. Len(q.acks) + q.failures + Len(q.queue) = Len(members)
      <4>1. Len(q.acks) = Len(p.acks) + 1
        BY <1>8
      <4>2. (Len(p.acks) + 1) + p.failures + Len(p.queue) = Len(members)
        <5>1. p.failures \in Nat /\ Len(p.acks) \in Nat /\ Len(p.queue) \in Nat
          BY <1>4, <1>9
        <5>2. PICK a, b, c, n : a = Len(p.acks) /\ b = p.failures /\ c = Len(p.queue) /\ n = Len(members)
          OBVIOUS
        <5>3. a + b + c + 1 = n
          BY <3>1, <5>2
        <5>4. a \in Nat /\ b \in Nat /\ c \in Nat
          BY <5>1, <5>2
        <5>5. (a + 1) + b + c = n
          BY <5>3, <5>4
        <5> QED BY <5>2, <5>5
      <4> QED BY <4>1, <4>2, <1>6
    <3> QED BY <3>2, <1>10
  <2>3. Quoted(q)'
    <3>1. \A i \in 1..Len(p.acks) :
            p.acks[i].control # "none" => <<p.acks[i].control, v>> \in refusals'
      BY <1>3, <1>6 DEF Progress, Quoted, Grows
    <3>2. ASSUME NEW i \in 1..Len(q.acks), q.acks[i].control # "none"
          PROVE  <<q.acks[i].control, v>> \in refusals'
      <4>1. CASE i \in 1..Len(p.acks)
        BY <3>1, <3>2, <4>1, <1>8
      <4>2. CASE i = Len(p.acks) + 1
        BY <3>2, <4>2, <1>8
      <4> QED BY <4>1, <4>2, <1>8, <1>9
    <3> QED BY <3>2, <1>6 DEF Quoted
  <2>4. ASSUME q.failures = 0, "archiver" \in Receiver!ToSet(members)', "archiver" \notin Receiver!ToSet(q.queue)
        PROVE  Complete(v)'
    <3>1. CASE p.stage = "archiver"
      BY <1>1, <1>6, <2>4, <3>1
    <3>2. CASE p.stage # "archiver"
      <4>1. Passed(p, "archiver")
        BY <2>4, <3>2, <1>6, <1>10 DEF Passed
      <4>2. Complete(v)
        BY <4>1, <2>4, <1>1, <1>3, <1>6 DEF Progress, Called, Through
      <4> QED BY <1>1, <3>2, <4>2, CompleteStays
    <3> QED BY <3>1, <3>2
  <2>5. ASSUME q.failures = 0, "app" \in Receiver!ToSet(members)', "app" \notin Receiver!ToSet(q.queue)
        PROVE  v \in handled' \/ Coded(q)
    <3>1. CASE p.stage = "app"
      BY <1>1, <3>1, <1>11
    <3>2. CASE p.stage # "app"
      <4>1. Passed(p, "app")
        BY <2>5, <3>2, <1>6, <1>10 DEF Passed
      <4>2. v \in handled \/ Coded(p)
        BY <4>1, <2>5, <1>1, <1>3, <1>6 DEF Progress, Called, Through
      <4> QED BY <4>2, <1>11 DEF Grows
    <3> QED BY <3>1, <3>2
  <2> QED BY <2>1, <2>2, <2>3, <2>4, <2>5, <1>6 DEF Between, Coded
<1>13. Costly(q) => Costly(p) \/ faults' = faults + 1
  BY <1>6, <1>8, <1>9 DEF Costly
<1> QED BY <1>1, <1>3, <1>5, <1>6, <1>7, <1>12, <1>13, OnwardKeeps

\* A member fails: the request will be refused, and the next member runs.
LEMMA FailedKeeps ==
  ASSUME ReceiverBounds, ReceiverInv, Grows,
         NEW s \in Receiver!Slots, requests[s].stage \in Running, Receiver!Put(s, Receiver!Failed(requests[s])),
         UNCHANGED <<version, left, vendor, awaited, connected, overlapped>>,
         latest' \in [Receiver!Places -> 0..MaxVersion], sequence' \in Nat,
         faults' = faults + 1, faults' \in 0..MaxFaults
  PROVE  ReceiverInv'
<1>1. PICK p : p = requests[s]
  OBVIOUS
<1>2. PICK q : q = [p EXCEPT !.failures = p.failures + 1]
  OBVIOUS
<1>3. p \in Receiver!Request /\ Progress(p) /\ p.stage # "free"
  BY <1>1 DEF ReceiverInv, Receiver!TypeOK, Running
<1>4. q \in Receiver!Request
  <2>1. p.failures + 1 \in Nat
    BY <1>3 DEF Receiver!Request
  <2> QED BY <1>2, <1>3, <2>1, OneMoreFailure
<1>5. /\ q.acks = p.acks /\ q.version = p.version /\ q.queue = p.queue
      /\ q.failures = p.failures + 1 /\ q.answer = p.answer
  BY <1>1, <1>2, <1>3 DEF Receiver!Request
<1>5a. p.failures \in Nat /\ p.acks \in Seq(Receiver!Acks) /\ p.queue \in Seq(Receiver!Members)
  BY <1>3 DEF Receiver!Request
<1>5b. Len(p.acks) \in Nat /\ Len(p.queue) \in Nat
  BY <1>5a
<1>6. Receiver!Put(s, Receiver!Begin(q))
  BY <1>1, <1>2 DEF Receiver!Failed
<1>7. Between(q)'
  <2>1. q.answer = "none"
    BY <1>1, <1>3, <1>5 DEF Progress, Called, Running
  <2>2. Len(q.acks) + q.failures + Len(q.queue) = Len(members)'
    <3>1. Len(p.acks) + p.failures + Len(p.queue) + 1 = Len(members) /\ members' = members
      BY <1>1, <1>3 DEF Progress, Called, Grows, Receiver!setup
    <3>2. Len(q.acks) + q.failures + Len(q.queue) = Len(members)
      <4>1. PICK a, b, c, n : a = Len(p.acks) /\ b = p.failures /\ c = Len(p.queue) /\ n = Len(members)
        OBVIOUS
      <4>2. a \in Nat /\ b \in Nat /\ c \in Nat /\ a + b + c + 1 = n
        BY <3>1, <1>5a, <1>5b, <4>1
      <4>3. a + (b + 1) + c = n
        BY <4>2, OneMoreCalled
      <4> QED BY <1>5, <4>1, <4>3
    <3> QED BY <3>1, <3>2
  <2>3. Quoted(q)'
    BY <1>3, <1>5 DEF Progress, Quoted, Grows
  <2>4. q.failures # 0
    BY <1>5, <1>5a
  <2> QED BY <2>1, <2>2, <2>3, <2>4 DEF Between
<1> QED BY <1>1, <1>3, <1>4, <1>5, <1>6, <1>7, OnwardKeeps

\* A request with its answer.
LEMMA AnswerType ==
  ASSUME NEW q \in Receiver!Request, NEW answer \in Receiver!Answers, NEW r, r = Receiver!Answer(q, answer)
  PROVE  /\ r \in Receiver!Request /\ r.stage = "answered" /\ r.answer = answer /\ r.acks = q.acks
         /\ r.version = q.version /\ r.failures = q.failures
  BY DEF Receiver!Answer, Receiver!Request

\* Damage, an outage of the lookup, and the answers they get.
LEMMA DamagedKeeps ==
  ASSUME ReceiverBounds, ReceiverInv, NEW s \in Receiver!Slots, Receiver!Damaged(s)
  PROVE  ReceiverInv'
<1>1. PICK p : p = requests[s]
  OBVIOUS
<1>2. PICK r : r = Receiver!Answer(p, "refused")
  OBVIOUS
<1>3. p \in Receiver!Request /\ Progress(p) /\ p.stage = "received"
  BY <1>1 DEF ReceiverInv, Receiver!TypeOK, Receiver!Damaged
<1>4. /\ r.stage = "answered" /\ r.answer = "refused" /\ r.acks = p.acks
      /\ r.version = p.version /\ r.failures = p.failures /\ r \in Receiver!Request
  BY <1>2, <1>3, AnswerType DEF Receiver!Answers
<1>5. /\ Grows /\ latest' = latest /\ sequence' = sequence /\ faults' = faults + 1
      /\ UNCHANGED <<version, left, vendor, awaited, connected, overlapped>>
      /\ Receiver!Put(s, r)
  BY <1>1, <1>2 DEF Receiver!Damaged, Receiver!Fault, Grows, Receiver!store
<1>6. faults' \in 0..MaxFaults /\ latest \in [Receiver!Places -> 0..MaxVersion] /\ sequence \in Nat
  BY DEF Receiver!Damaged, Receiver!Fault, ReceiverInv, Receiver!TypeOK, ReceiverBounds, Receiver!BoundsAssumption
<1>7. Progress(r)'
  BY <1>3, <1>4, <1>5 DEF Progress, Called, Archiving, Quoted, Running, Grows
<1>8. Spoken(r)'
  BY <1>3, <1>4 DEF Spoken, Progress, Called
<1> QED BY <1>1, <1>3, <1>4, <1>5, <1>6, <1>7, <1>8, InsideKeeps

\* The lookup: a key that is known starts the members, one that is not is answered.
LEMMA ResolveKeeps ==
  ASSUME ReceiverBounds, ReceiverInv, NEW s \in Receiver!Slots, Receiver!Resolve(s)
  PROVE  ReceiverInv'
<1>1. PICK p : p = requests[s]
  OBVIOUS
<1>2. p \in Receiver!Request /\ Progress(p) /\ p.stage = "received"
  BY <1>1 DEF ReceiverInv, Receiver!TypeOK, Receiver!Resolve
<1>3. p.acks = <<>> /\ p.failures = 0 /\ p.answer = "none"
  BY <1>2 DEF Progress, Called
<1>4. latest \in [Receiver!Places -> 0..MaxVersion] /\ sequence \in Nat /\ faults \in 0..MaxFaults
  BY DEF ReceiverInv, Receiver!TypeOK
<1>5. /\ UNCHANGED Receiver!setup /\ UNCHANGED Receiver!store
      /\ UNCHANGED <<version, left, vendor, awaited, connected, overlapped>>
  BY DEF Receiver!Resolve
<1>6. UNCHANGED <<latest, kept, sequence, handled>>
  BY <1>5 DEF Receiver!store
<1>7. CASE connected /\ Receiver!Put(s, Receiver!Begin([p EXCEPT !.queue = members])) /\ UNCHANGED <<faults, refusals>>
  <2>1. PICK q : q = [p EXCEPT !.queue = members]
    OBVIOUS
  <2>2. members \in Seq(Receiver!Members)
    BY MembersAre DEF ReceiverInv
  <2>3. q \in Receiver!Request
    BY <1>2, <2>1, <2>2 DEF Receiver!Request
  <2>4. /\ q.queue = members /\ q.acks = <<>> /\ q.failures = 0 /\ q.answer = "none"
        /\ q.version = p.version
    BY <1>2, <1>3, <2>1 DEF Receiver!Request
  <2>5. Grows
    BY <1>5, <1>6, <1>7 DEF Grows
  <2>6. members' = members
    BY <1>5 DEF Receiver!setup
  <2>7. Between(q)'
    BY <2>2, <2>4, <2>6 DEF Between, Quoted
  <2>8. ~Costly(q)
    BY <2>4 DEF Costly
  <2> QED BY <1>1, <1>2, <1>4, <1>5, <1>6, <1>7, <2>1, <2>3, <2>4, <2>5, <2>7, <2>8, OnwardKeeps
<1>8. CASE /\ ~connected /\ Receiver!Put(s, Receiver!Answer(p, "KEY_ERR"))
           /\ refusals' = refusals \cup {<<"unknown", p.version>>} /\ UNCHANGED faults
  <2>1. PICK r : r = Receiver!Answer(p, "KEY_ERR")
    OBVIOUS
  <2>2. /\ r.stage = "answered" /\ r.answer = "KEY_ERR" /\ r.acks = p.acks
        /\ r.version = p.version /\ r.failures = p.failures /\ r \in Receiver!Request
    BY <1>2, <2>1, AnswerType DEF Receiver!Answers, Receiver!Codes
  <2>3. Grows
    BY <1>5, <1>6, <1>8 DEF Grows
  <2>4. Progress(r)'
    BY <1>3, <2>2 DEF Progress, Called, Archiving, Quoted, Running
  <2>5. Spoken(r)'
    BY <1>3, <1>8, <2>2 DEF Spoken
  <2>6. ~Costly(r)
    BY <1>3, <2>2 DEF Costly
  <2> QED BY <1>1, <1>2, <1>4, <1>5, <1>6, <1>8, <2>1, <2>2, <2>3, <2>4, <2>5, <2>6, InsideKeeps
<1>9. CASE Receiver!Fault /\ Receiver!Put(s, Receiver!Answer(p, "refused")) /\ UNCHANGED refusals
  <2>1. PICK r : r = Receiver!Answer(p, "refused")
    OBVIOUS
  <2>2. /\ r.stage = "answered" /\ r.answer = "refused" /\ r.acks = p.acks
        /\ r.version = p.version /\ r.failures = p.failures /\ r \in Receiver!Request
    BY <1>2, <2>1, AnswerType DEF Receiver!Answers
  <2>3. Grows
    BY <1>5, <1>6, <1>9 DEF Grows
  <2>4. Progress(r)'
    BY <1>3, <2>2 DEF Progress, Called, Archiving, Quoted, Running
  <2>5. Spoken(r)'
    BY <1>3, <2>2 DEF Spoken
  <2>6. faults' = faults + 1 /\ faults' \in 0..MaxFaults
    BY <1>4, <1>9 DEF Receiver!Fault, ReceiverBounds, Receiver!BoundsAssumption
  <2> QED BY <1>1, <1>2, <1>4, <1>5, <1>6, <1>9, <2>1, <2>2, <2>3, <2>4, <2>5, <2>6, InsideKeeps
<1> QED BY <1>1, <1>7, <1>8, <1>9 DEF Receiver!Resolve

\* The application.
LEMMA AppKeeps ==
  ASSUME ReceiverBounds, ReceiverInv, NEW s \in Receiver!Slots, Receiver!AppStep(s)
  PROVE  ReceiverInv'
<1>1. PICK v : v = requests[s].version
  OBVIOUS
<1>2. requests[s].stage = "app" /\ requests[s].stage \in Running
  BY DEF Receiver!AppStep, Running
<1>3. latest \in [Receiver!Places -> 0..MaxVersion] /\ sequence \in Nat /\ faults \in 0..MaxFaults
  BY DEF ReceiverInv, Receiver!TypeOK
<1>4. /\ UNCHANGED Receiver!setup
      /\ UNCHANGED <<version, left, vendor, awaited, connected, overlapped, latest, kept, sequence>>
  BY DEF Receiver!AppStep
<1>5. ASSUME Receiver!Fault PROVE faults' = faults + 1 /\ faults' \in 0..MaxFaults
  BY <1>3, <1>5 DEF Receiver!Fault, ReceiverBounds, Receiver!BoundsAssumption
<1>6. ASSUME NEW registration \in {"none", "number"},
             Receiver!Put(s, Receiver!Answered(requests[s], Receiver!AckOf("none", registration))),
             handled' = handled \cup {v}, UNCHANGED <<faults, refusals>>
      PROVE  ReceiverInv'
  <2>1. PICK ack : ack = Receiver!AckOf("none", registration)
    OBVIOUS
  <2>2. ack \in Receiver!Acks /\ ack.control = "none" /\ ack.registration # "forbidden"
    BY <2>1 DEF Receiver!AckOf, Receiver!Acks, Receiver!Registrations
  <2>3. Grows
    BY <1>4, <1>6 DEF Grows
  <2> QED BY <1>1, <1>2, <1>3, <1>4, <1>6, <2>1, <2>2, <2>3, AnsweredKeeps
<1>7. ASSUME Receiver!Fault, Receiver!Put(s, Receiver!Answered(requests[s], Receiver!AckOf("none", "forbidden"))),
             handled' = handled \cup {v}, UNCHANGED refusals
      PROVE  ReceiverInv'
  <2>1. PICK ack : ack = Receiver!AckOf("none", "forbidden")
    OBVIOUS
  <2>2. ack \in Receiver!Acks /\ ack.control = "none"
    BY <2>1 DEF Receiver!AckOf, Receiver!Acks, Receiver!Registrations
  <2>3. Grows
    BY <1>4, <1>7 DEF Grows
  <2> QED BY <1>1, <1>2, <1>3, <1>4, <1>5, <1>7, <2>1, <2>2, <2>3, AnsweredKeeps
<1>8. ASSUME Receiver!Fault, Receiver!Put(s, Receiver!Failed(requests[s])), UNCHANGED <<handled, refusals>>
      PROVE  ReceiverInv'
  <2>1. Grows
    BY <1>4, <1>8 DEF Grows
  <2> QED BY <1>2, <1>3, <1>4, <1>5, <1>8, <2>1, FailedKeeps
<1>9. ASSUME NEW code \in Receiver!Codes, Receiver!Fault, Receiver!Put(s, Receiver!Answered(requests[s], Receiver!AckOf(code, "none"))),
             refusals' = refusals \cup {<<code, v>>}, UNCHANGED handled
      PROVE  ReceiverInv'
  <2>1. PICK ack : ack = Receiver!AckOf(code, "none")
    OBVIOUS
  <2>2. ack \in Receiver!Acks /\ ack.control = code /\ ack.registration # "forbidden" /\ code # "none"
    BY <2>1 DEF Receiver!AckOf, Receiver!Acks, Receiver!Registrations, Receiver!Codes
  <2>3. Grows
    BY <1>4, <1>9 DEF Grows
  <2> QED BY <1>1, <1>2, <1>3, <1>4, <1>5, <1>9, <2>1, <2>2, <2>3, AnsweredKeeps
<1>10. \/ \E registration \in {"none", "number"} :
            /\ Receiver!Put(s, Receiver!Answered(requests[s], Receiver!AckOf("none", registration)))
            /\ handled' = handled \cup {v} /\ UNCHANGED <<faults, refusals>>
       \/ /\ Receiver!Fault /\ Receiver!Put(s, Receiver!Answered(requests[s], Receiver!AckOf("none", "forbidden")))
          /\ handled' = handled \cup {v} /\ UNCHANGED refusals
       \/ Receiver!Fault /\ Receiver!Put(s, Receiver!Failed(requests[s])) /\ UNCHANGED <<handled, refusals>>
       \/ \E code \in Receiver!Codes :
            /\ Receiver!Fault /\ Receiver!Put(s, Receiver!Answered(requests[s], Receiver!AckOf(code, "none")))
            /\ refusals' = refusals \cup {<<code, v>>} /\ UNCHANGED handled
  BY <1>1 DEF Receiver!AppStep
<1> QED BY <1>6, <1>7, <1>8, <1>9, <1>10


\* The archiver has written what was next: all of it, or the rest is to do.
LEMMA WrittenKeeps ==
  ASSUME ReceiverBounds, ReceiverInv, Grows, NEW s \in Receiver!Slots, requests[s].stage = "archiver",
         NEW v, v = requests[s].version, NEW w, w = requests[s].todo[1],
         \A a \in ArtifactsOf(v) : Saved(v, a) \/ w = <<"version", a>> => Saved(v, a)',
         \A a \in ArtifactsOf(v) : Shown(v, a) \/ w = <<"latest", a>> => Shown(v, a)',
         Receiver!Put(s, Receiver!Written(requests[s])),
         UNCHANGED <<version, left, vendor, awaited, connected, overlapped, faults, handled,
                     refusals>>,
         latest' \in [Receiver!Places -> 0..MaxVersion], sequence' \in Nat
  PROVE  ReceiverInv'
<1>1. PICK p : p = requests[s]
  OBVIOUS
<1>2. p \in Receiver!Request /\ Progress(p) /\ p.stage = "archiver" /\ p.version = v /\ w = p.todo[1]
  BY <1>1 DEF ReceiverInv, Receiver!TypeOK
<1>3. p.todo \in Seq(Receiver!Objects) /\ p.todo # <<>>
  BY <1>2 DEF Receiver!Request, Progress, Archiving
<1>4. /\ Tail(p.todo) \in Seq(Receiver!Objects) /\ Len(p.todo) = Len(Tail(p.todo)) + 1
      /\ \A x : x \in Receiver!ToSet(p.todo) => x = w \/ x \in Receiver!ToSet(Tail(p.todo))
  <2>1. Head(p.todo) = w
    BY <1>2, <1>3
  <2> QED BY <2>1, <1>3, RestOfTheQueue
<1>5. ArtifactsOf(v)' = ArtifactsOf(v) /\ members' = members
  BY DEF Grows, Receiver!setup, ArtifactsOf, Receiver!Artifacts
<1>6. faults \in 0..MaxFaults
  BY DEF ReceiverInv, Receiver!TypeOK
<1>7. CASE Len(p.todo) > 1
  <2>1. PICK r : r = [p EXCEPT !.todo = Tail(p.todo)]
    OBVIOUS
  <2>2. r \in Receiver!Request
    BY <1>2, <1>4, <2>1 DEF Receiver!Request
  <2>3. /\ r.stage = "archiver" /\ r.todo = Tail(p.todo) /\ r.version = v /\ r.acks = p.acks
        /\ r.failures = p.failures /\ r.queue = p.queue /\ r.answer = p.answer
    BY <1>2, <2>1 DEF Receiver!Request
  <2>4. Receiver!Put(s, r)
    BY <1>1, <1>7, <2>1 DEF Receiver!Written
  <2>5. Through(r)'
    BY <1>2, <1>5, <2>3 DEF Progress, Called, Through, Passed, Running, Coded
  <2>6. Called(r)'
    BY <1>2, <1>5, <2>3, <2>5 DEF Progress, Called, Running
  <2>7. r.todo # <<>>
    <3>1. PICK rest : rest = Tail(p.todo)
      OBVIOUS
    <3>2. rest \in Seq(Receiver!Objects) /\ Len(p.todo) = Len(rest) + 1
      BY <3>1, <1>4
    <3>3. Len(rest) > 0
      BY <3>2, <1>7
    <3>4. rest # <<>>
      BY <3>3
    <3> QED BY <3>1, <3>4, <2>3
  <2>8. ASSUME NEW a \in ArtifactsOf(v)
        PROVE  /\ <<"version", a>> \in Receiver!ToSet(r.todo) \/ Saved(v, a)'
               /\ <<"latest", a>> \in Receiver!ToSet(r.todo) \/ Shown(v, a)'
    <3>1. /\ <<"version", a>> \in Receiver!ToSet(p.todo) \/ Saved(v, a)
          /\ <<"latest", a>> \in Receiver!ToSet(p.todo) \/ Shown(v, a)
      BY <1>2 DEF Progress, Archiving
    <3> QED BY <3>1, <1>4, <2>3
  <2>9. Archiving(r)'
    BY <1>5, <2>3, <2>7, <2>8 DEF Archiving
  <2>10. Quoted(r)'
    BY <1>2, <2>3 DEF Progress, Quoted
  <2>11. Progress(r)' /\ Spoken(r)'
    BY <2>3, <2>6, <2>9, <2>10 DEF Progress, Spoken
  <2>12. Costly(r) => Costly(p)
    BY <2>3 DEF Costly
  <2> QED BY <1>1, <1>2, <1>6, <2>2, <2>3, <2>4, <2>11, <2>12, InsideKeeps
<1>8. CASE ~(Len(p.todo) > 1)
  <2>1. Tail(p.todo) = <<>>
    BY <1>3, <1>4, <1>8
  <2>2. \A x : x \notin Receiver!ToSet(Tail(p.todo))
    BY <2>1 DEF Receiver!ToSet
  <2>3. Complete(v)'
    <3>1. ASSUME NEW a \in ArtifactsOf(v) PROVE Saved(v, a)' /\ Shown(v, a)'
      <4>1. /\ <<"version", a>> \in Receiver!ToSet(p.todo) \/ Saved(v, a)
            /\ <<"latest", a>> \in Receiver!ToSet(p.todo) \/ Shown(v, a)
        BY <1>2 DEF Progress, Archiving
      <4> QED BY <4>1, <1>4, <2>2
    <3> QED BY <3>1, <1>5 DEF Complete
  <2>4. PICK ack : ack = Receiver!AckOf("none", "none")
    OBVIOUS
  <2>5. ack \in Receiver!Acks /\ ack.control = "none" /\ ack.registration # "forbidden"
    BY <2>4 DEF Receiver!AckOf, Receiver!Acks, Receiver!Registrations
  <2>6. Receiver!Put(s, Receiver!Answered(requests[s], ack))
    BY <1>1, <1>8, <2>4 DEF Receiver!Written
  <2>7. requests[s].stage \in Running
    BY DEF Running
  <2> QED BY <1>6, <2>3, <2>5, <2>6, <2>7, AnsweredKeeps
<1> QED BY <1>7, <1>8

LEMMA ArchiverKeeps ==
  ASSUME ReceiverBounds, ReceiverInv, NEW s \in Receiver!Slots, Receiver!ArchiverStep(s)
  PROVE  ReceiverInv'
<1>1. PICK w : w = requests[s].todo[1]
  OBVIOUS
<1>2. PICK v : v = requests[s].version
  OBVIOUS
<1>3. /\ requests[s].stage = "archiver" /\ requests[s].stage \in Running
      /\ requests[s] \in Receiver!Request /\ Progress(requests[s])
  BY DEF Receiver!ArchiverStep, Running, ReceiverInv, Receiver!TypeOK
<1>4. w \in Receiver!Objects
  <2>1. requests[s].todo \in Seq(Receiver!Objects) /\ requests[s].todo # <<>>
    BY <1>3 DEF Receiver!Request, Progress, Archiving
  <2> QED BY <1>1, <2>1
<1>5. PICK x \in {"version", "latest"}, b \in Receiver!Names : w = <<x, b>>
  BY <1>4 DEF Receiver!Objects
<1>6. w[1] = x /\ w[2] = b
  BY <1>5
<1>7. /\ UNCHANGED Receiver!setup /\ UNCHANGED <<version, left, vendor, awaited, connected, handled, refusals,
                                        overlapped>>
      /\ latest \in [Receiver!Places -> 0..MaxVersion] /\ sequence \in Nat /\ faults \in 0..MaxFaults
      /\ v \in 0..MaxVersion
  BY <1>2, <1>3 DEF Receiver!ArchiverStep, ReceiverInv, Receiver!TypeOK, Receiver!Request
<1>8. CASE x = "version" /\ Receiver!WriteVersion(s, b) /\ UNCHANGED faults
  <2>1. sequence' = sequence + 1 /\ latest' = latest
    BY <1>8 DEF Receiver!WriteVersion
  <2>0. PICK file : file = [artifact |-> b, stamp |-> sequence, version |-> v]
    OBVIOUS
  <2>2. CASE Receiver!Taken(file)
    <3>1. PICK r : r = requests[s]
      OBVIOUS
    <3>2. UNCHANGED <<kept, requests>>
      BY <1>2, <1>8, <2>0, <2>2 DEF Receiver!WriteVersion
    <3>3. Receiver!Put(s, r)
      <4>1. requests \in [Receiver!Slots -> Receiver!Request]
        BY DEF ReceiverInv, Receiver!TypeOK
      <4> QED BY <3>1, <3>2, <4>1 DEF Receiver!Put
    <3>4. Grows
      BY <1>7, <3>2 DEF Grows
    <3>5. Progress(r)' /\ Spoken(r)'
      <4>1. Progress(r) /\ Spoken(r)
        BY <3>1 DEF ReceiverInv
      <4> QED BY <2>1, <3>4, <4>1, ProgressStays, SpokenStays
    <3> QED BY <1>3, <1>7, <1>8, <2>1, <3>1, <3>3, <3>4, <3>5, InsideKeeps
  <2>3. CASE ~Receiver!Taken(file)
    <3>2. kept' = kept \cup {file} /\ Receiver!Put(s, Receiver!Written(requests[s]))
      BY <1>2, <1>8, <2>0, <2>3 DEF Receiver!WriteVersion
    <3>3. Grows
      BY <1>7, <3>2 DEF Grows
    <3>4. file.artifact = b /\ file.version = v
      BY <2>0
    <3>5. \A a \in ArtifactsOf(v) : Saved(v, a) \/ w = <<"version", a>> => Saved(v, a)'
      BY <1>5, <1>7, <1>8, <3>2, <3>4 DEF Saved, Receiver!setup
    <3>6. \A a \in ArtifactsOf(v) : Shown(v, a) \/ w = <<"latest", a>> => Shown(v, a)'
      BY <1>5, <1>7, <1>8, <2>1 DEF Shown, Receiver!Unversioned, Receiver!setup
    <3> QED BY <1>1, <1>2, <1>3, <1>7, <1>8, <2>1, <3>2, <3>3, <3>5, <3>6, WrittenKeeps
  <2> QED BY <2>2, <2>3
<1>9. CASE x = "latest" /\ Receiver!WriteLatest(s, b) /\ UNCHANGED faults
  <2>1. /\ latest' = [latest EXCEPT ![Receiver!Unversioned(v, b)] = v] /\ Receiver!Put(s, Receiver!Written(requests[s]))
        /\ UNCHANGED <<kept, sequence>>
    BY <1>2, <1>9 DEF Receiver!WriteLatest
  <2>2. Grows
    BY <1>7, <2>1 DEF Grows
  <2>3. latest' \in [Receiver!Places -> 0..MaxVersion]
    BY <1>7, <2>1
  <2>4. \A a \in ArtifactsOf(v) : Saved(v, a) \/ w = <<"version", a>> => Saved(v, a)'
    BY <1>5, <1>7, <1>9, <2>1 DEF Saved, Receiver!setup
  <2>5. ASSUME NEW a \in ArtifactsOf(v), Shown(v, a) \/ w = <<"latest", a>> PROVE Shown(v, a)'
    <3>1. UNCHANGED <<overlapped, redelivery, contents>>
      BY <1>7 DEF Receiver!setup
    <3>2. SUFFICES ASSUME ~overlapped, redelivery # "timestamped", v \in 1..MaxVersion
                   PROVE  latest'[Receiver!Unversioned(v, a)] = v
      BY <3>1 DEF Shown, Receiver!Unversioned
    <3>3. Receiver!Unversioned(v, b) \in Receiver!Places
      <4>1. contents \in [1..MaxVersion -> Receiver!Content]
        BY DEF ReceiverInv, SetUp, ReceiverBounds, Receiver!ContentsAssumption
      <4>2. contents[v] \in Receiver!Content
        BY <3>2, <4>1
      <4> QED BY <1>5, <4>2 DEF Receiver!Content, Receiver!Unversioned, Receiver!Places
    <3>4. CASE a = b
      BY <1>7, <2>1, <3>3, <3>4
    <3>5. CASE a # b
      <4>1. latest[Receiver!Unversioned(v, a)] = v
        BY <1>5, <2>5, <3>2, <3>5 DEF Shown
      <4>2. Receiver!Unversioned(v, a) # Receiver!Unversioned(v, b)
        BY <3>5 DEF Receiver!Unversioned
      <4> QED BY <1>7, <2>1, <3>3, <4>1, <4>2
    <3> QED BY <3>4, <3>5
  <2> QED BY <1>1, <1>2, <1>3, <1>7, <1>9, <2>1, <2>2, <2>3, <2>4, <2>5, WrittenKeeps
<1>10. CASE Receiver!WriteFails(s, b)
  <2>1. /\ faults' = faults + 1 /\ faults' \in 0..MaxFaults /\ Receiver!Put(s, Receiver!Failed(requests[s]))
    BY <1>7, <1>10 DEF Receiver!WriteFails, Receiver!Fault, ReceiverBounds, Receiver!BoundsAssumption
  <2>2. sequence' \in Nat /\ kept \subseteq kept'
    BY <1>7, <1>10 DEF Receiver!WriteFails
  <2>3. latest' \in [Receiver!Places -> 0..MaxVersion]
    BY <1>2, <1>7, <1>10 DEF Receiver!WriteFails
  <2>4. Grows
    BY <1>7, <2>2 DEF Grows
  <2> QED BY <1>3, <1>7, <2>1, <2>2, <2>3, <2>4, FailedKeeps
<1> QED BY <1>1, <1>6, <1>8, <1>9, <1>10 DEF Receiver!ArchiverStep

LEMMA AckCodes ==
  ASSUME NEW acks \in Seq(Receiver!Acks), NEW i \in 1..Len(acks)
  PROVE  acks[i].control \in {"none", "KEY_ERR", "KEY_DEL"}
<1>1. acks[i] \in Receiver!Acks
  OBVIOUS
<1> QED BY <1>1 DEF Receiver!Acks, Receiver!Codes

\* What a merge says of at most two answers.
LEMMA MergedIs ==
  ASSUME NEW acks \in Seq(Receiver!Acks), Len(acks) <= 2, NEW m, m = Receiver!Merged(acks)
  PROVE  /\ m.control = "KEY_DEL" <=> \E i \in 1..Len(acks) : acks[i].control = "KEY_DEL"
         /\ m.control = "KEY_ERR" <=> /\ \E i \in 1..Len(acks) : acks[i].control = "KEY_ERR"
                                      /\ ~ \E i \in 1..Len(acks) : acks[i].control = "KEY_DEL"
         /\ m.control \in {"none", "KEY_ERR", "KEY_DEL"}
         /\ m.registration = "forbidden" =>
              \E i \in 1..Len(acks) : acks[i].registration = "forbidden"
<1>1. \A i \in 1..Len(acks) : acks[i].control \in {"none", "KEY_ERR", "KEY_DEL"}
  BY AckCodes
<1>2. CASE acks = <<>>
  <2>1. Len(acks) = 0 /\ m.control = "none" /\ m.registration = "none"
    BY <1>2 DEF Receiver!Merged, Receiver!AckOf
  <2> QED BY <2>1
<1>3. CASE acks # <<>> /\ Len(acks) = 1
  <2>1. /\ m.control = Receiver!escalate("none", acks[1].control)
        /\ m.registration = acks[1].registration
    BY <1>3 DEF Receiver!Merged, Receiver!Joined, Receiver!AckOf
  <2>2. 1..Len(acks) = {1}
    BY <1>3
  <2> QED BY <1>1, <2>1, <2>2 DEF Receiver!escalate
<1>4. CASE acks # <<>> /\ Len(acks) # 1
  <2>1. Len(acks) = 2
    <3>1. acks \in Seq(Receiver!Acks) /\ acks # <<>>
      BY <1>4
    <3>2. Len(acks) \in Nat /\ Len(acks) # 0
      BY <3>1
    <3>3. \A n \in Nat : n <= 2 /\ n # 0 /\ n # 1 => n = 2
      OBVIOUS
    <3>4. Len(acks) <= 2
      OBVIOUS
    <3> QED BY <1>4, <3>2, <3>3, <3>4, Zenon
  <2>2. 1..Len(acks) = {1, 2}
    BY <2>1
  <2>3. PICK one : one = Receiver!Joined(Receiver!AckOf("none", "none"), acks[1])
    OBVIOUS
  <2>4. /\ one.control = Receiver!escalate("none", acks[1].control)
        /\ one.registration = acks[1].registration
    BY <2>3 DEF Receiver!Joined, Receiver!AckOf
  <2>5. /\ m.control = Receiver!escalate(one.control, acks[2].control)
        /\ m.registration = IF one.registration = "none" THEN acks[2].registration
                            ELSE one.registration
    BY <1>4, <2>1, <2>3 DEF Receiver!Merged, Receiver!Joined, Receiver!AckOf
  <2> QED BY <1>1, <2>2, <2>4, <2>5 DEF Receiver!escalate
<1> QED BY <1>2, <1>3, <1>4

LEMMA MergeKeeps ==
  ASSUME ReceiverBounds, ReceiverInv, NEW s \in Receiver!Slots, Receiver!Merge(s)
  PROVE  ReceiverInv'
<1>1. PICK p : p = requests[s]
  OBVIOUS
<1>2. p \in Receiver!Request /\ Progress(p) /\ p.stage = "merge"
  BY <1>1 DEF ReceiverInv, Receiver!TypeOK, Receiver!Merge
<1>3. /\ p.acks \in Seq(Receiver!Acks) /\ p.failures \in Nat /\ p.queue = <<>> /\ p.answer = "none"
      /\ Len(p.acks) + p.failures = Len(members) /\ Through(p)
  BY <1>2 DEF Receiver!Request, Progress, Called
<1>4. Len(p.acks) <= 2
  BY <1>3, MembersAre DEF ReceiverInv
<1>5. PICK m : m = Receiver!Merged(p.acks)
  OBVIOUS
<1>6. PICK answer : answer = Receiver!Rendered(p)
  OBVIOUS
<1>7. answer = IF members = <<>> \/ p.failures > 0 THEN "refused"
               ELSE IF m.control # "none" THEN m.control
               ELSE IF m.registration = "forbidden" THEN "refused" ELSE "accepted"
  BY <1>5, <1>6 DEF Receiver!Rendered
<1>8. /\ m.control = "KEY_DEL" <=> \E i \in 1..Len(p.acks) : p.acks[i].control = "KEY_DEL"
      /\ m.control = "KEY_ERR" <=> /\ \E i \in 1..Len(p.acks) : p.acks[i].control = "KEY_ERR"
                                   /\ ~ \E i \in 1..Len(p.acks) : p.acks[i].control = "KEY_DEL"
      /\ m.control \in {"none", "KEY_ERR", "KEY_DEL"}
      /\ m.registration = "forbidden" =>
           \E i \in 1..Len(p.acks) : p.acks[i].registration = "forbidden"
  BY <1>3, <1>4, <1>5, MergedIs
<1>9. answer \in Receiver!Answers
  BY <1>7, <1>8 DEF Receiver!Answers, Receiver!Codes
<1>10. PICK r : r = Receiver!Answer(p, answer)
  OBVIOUS
<1>11. /\ r \in Receiver!Request /\ r.stage = "answered" /\ r.answer = answer /\ r.acks = p.acks
       /\ r.version = p.version /\ r.failures = p.failures
  BY <1>2, <1>9, <1>10, AnswerType
<1>12. /\ UNCHANGED Receiver!setup /\ UNCHANGED <<version, left, vendor, awaited, connected, latest, kept,
                                         sequence, handled, faults, refusals, overlapped>>
       /\ Receiver!Put(s, r)
  BY <1>1, <1>6, <1>10 DEF Receiver!Merge, Receiver!store
<1>13. Grows
  BY <1>12 DEF Grows
<1>14. latest \in [Receiver!Places -> 0..MaxVersion] /\ sequence \in Nat /\ faults \in 0..MaxFaults
  BY DEF ReceiverInv, Receiver!TypeOK
<1>15. Progress(r)'
  <2>1. answer # "none"
    BY <1>7
  <2> QED BY <1>2, <1>11, <1>12, <2>1 DEF Progress, Called, Archiving, Quoted, Running
<1>16. Spoken(r)'
  <2>1. answer = "accepted" => Delivered(p.version)
    <3>1. SUFFICES ASSUME answer = "accepted" PROVE Delivered(p.version)
      OBVIOUS
    <3>2. members # <<>> /\ p.failures = 0 /\ ~Coded(p)
      <4>1. members # <<>> /\ ~(p.failures > 0) /\ m.control = "none"
        BY <3>1, <1>7, <1>8
      <4>2. \A i \in 1..Len(p.acks) : p.acks[i].control \in {"none", "KEY_ERR", "KEY_DEL"}
        BY <1>3, AckCodes
      <4>3. ~Coded(p)
        BY <4>1, <4>2, <1>8 DEF Coded
      <4> QED BY <4>1, <4>3, <1>3
    <3>3. \A x : x \notin Receiver!ToSet(p.queue)
      BY <1>3 DEF Receiver!ToSet
    <3> QED BY <3>2, <3>3, <1>2, <1>3 DEF Through, Passed, Delivered
  <2>2. answer = "accepted" => Delivered(p.version)'
    BY <2>1, <1>12, <1>13, DeliveredStays
  <2>3. answer = "KEY_ERR" => <<"KEY_ERR", p.version>> \in refusals'
    BY <1>2, <1>7, <1>8, <1>12 DEF Progress, Quoted
  <2>4. answer = "KEY_DEL" => <<"KEY_DEL", p.version>> \in refusals'
    BY <1>2, <1>7, <1>8, <1>12 DEF Progress, Quoted
  <2>5. p.acks # <<>> /\ p.failures = 0 =>
          /\ "KEY_DEL" \in CodesIn(p.acks) <=> answer = "KEY_DEL"
          /\ "KEY_ERR" \in CodesIn(p.acks) /\ "KEY_DEL" \notin CodesIn(p.acks) <=> answer = "KEY_ERR"
    <3>1. p.acks # <<>> => members # <<>>
      BY <1>3
    <3>2. p.acks # <<>> /\ p.failures = 0 =>
            (answer = m.control \/ (m.control = "none" /\ answer \in {"refused", "accepted"}))
      BY <3>1, <1>7
    <3>3. \A c : c \in CodesIn(p.acks) <=> \E i \in 1..Len(p.acks) : p.acks[i].control = c
      BY DEF CodesIn
    <3> QED BY <3>2, <3>3, <1>8
  <2> QED BY <2>2, <2>3, <2>4, <2>5, <1>11 DEF Spoken
<1>17. members # <<>> /\ Costly(r) => Costly(p)
  BY <1>3, <1>7, <1>8, <1>11 DEF Costly
<1> QED BY <1>1, <1>2, <1>11, <1>12, <1>13, <1>14, <1>15, <1>16, <1>17, InsideKeeps

-----------------------------------------------------------------------------
(* szamlazz.hu and the faults.                                             *)

LEMMA SameTypes ==
  ASSUME Grows
  PROVE  UNCHANGED <<contents, Receiver!Objects, Receiver!Request, members, kind, redelivery>>
  BY DEF Grows, Receiver!setup, Receiver!Objects, Receiver!Request

\* No request at all.
LEMMA FreeIs ==
  ASSUME ReceiverBounds
  PROVE  /\ Receiver!Free \in Receiver!Request /\ Receiver!Free.stage = "free" /\ Receiver!Free.version = 0 /\ Receiver!Free.acks = <<>>
         /\ Receiver!Free.failures = 0 /\ Receiver!Free.answer = "none" /\ Receiver!Free.todo = <<>> /\ Receiver!Free.queue = <<>>
<1>1. <<>> \in Seq(Receiver!Acks)
  OBVIOUS
<1> QED BY <1>1, NothingToDo DEF Receiver!Free, Receiver!Request, Receiver!Answers, ReceiverBounds, Receiver!BoundsAssumption

\* A request nobody touches, or that is gone.
LEMMA UntouchedKeeps ==
  ASSUME ReceiverBounds, ReceiverInv, Grows, latest' = latest,
         NEW t \in Receiver!Slots, requests'[t] = requests[t] \/ requests'[t] = Receiver!Free
  PROVE  Progress(requests[t])' /\ Spoken(requests[t])'
<1>1. CASE requests'[t] = requests[t]
  <2>1. PICK q : q = requests[t]
    OBVIOUS
  <2>2. Progress(q) /\ Spoken(q)
    BY <2>1 DEF ReceiverInv
  <2>3. Progress(q)' /\ Spoken(q)'
    BY <2>2, ProgressStays, SpokenStays
  <2> QED BY <1>1, <2>1, <2>3
<1>2. CASE requests'[t] = Receiver!Free
  <2>1. PICK q : q = Receiver!Free
    OBVIOUS
  <2>2. /\ q.stage = "free" /\ q.acks = <<>> /\ q.answer = "none"
    BY <2>1, FreeIs
  <2>3. Progress(q)' /\ Spoken(q)'
    BY <2>2 DEF Progress, Called, Archiving, Quoted, Spoken, Running
  <2> QED BY <1>2, <2>1, <2>3
<1> QED BY <1>1, <1>2

\* What szamlazz.hu was told stays true.
LEMMA ToldStays ==
  ASSUME ReceiverInv, Grows, latest' = latest, UNCHANGED <<version, vendor>>
  PROVE  (vendor = "accepted" => Delivered(version))' /\ Receiver!StoppedByAVerdict'
<1>1. PICK v : v = version
  OBVIOUS
<1>2. vendor = "accepted" => Delivered(v)'
  BY <1>1, DeliveredStays DEF ReceiverInv, AllKnown
<1>3. Receiver!StoppedByAVerdict'
  BY DEF ReceiverInv, AllKnown, Receiver!StoppedByAVerdict, Grows
<1> QED BY <1>1, <1>2, <1>3

LEMMA Numbers ==
  ASSUME ReceiverBounds, ReceiverInv
  PROVE  /\ left \in Nat /\ faults \in Nat /\ Attempts \in Nat /\ MaxFaults \in Nat
         /\ MaxVersion \in Nat /\ version \in 1..MaxVersion /\ left \in 0..Attempts
         /\ faults \in 0..MaxFaults
  BY DEF ReceiverInv, Receiver!TypeOK, ReceiverBounds, Receiver!BoundsAssumption

LEMMA PushKeeps ==
  ASSUME ReceiverBounds, ReceiverInv, NEW s \in Receiver!Slots, Receiver!Push(s)
  PROVE  ReceiverInv'
<1>1. PICK r : r = [Receiver!Free EXCEPT !.stage = "received", !.version = version]
  OBVIOUS
<1>2. /\ r \in Receiver!Request /\ r.stage = "received" /\ r.version = version /\ r.acks = <<>>
      /\ r.failures = 0 /\ r.answer = "none"
  <2>1. version \in 0..MaxVersion
    BY Numbers
  <2>2. r.stage = "received" /\ r.version = version
    BY <1>1 DEF Receiver!Free
  <2> QED BY <1>1, <2>1, <2>2, FreeIs DEF Receiver!Request
<1>3. /\ requests' = [requests EXCEPT ![s] = r] /\ requests \in [Receiver!Slots -> Receiver!Request]
      /\ vendor = "pushing" /\ awaited = 0 /\ left > 0 /\ left' = left - 1 /\ awaited' = s
      /\ UNCHANGED <<version, vendor, connected, faults>>
      /\ latest' = latest /\ sequence' = sequence
  BY <1>1 DEF Receiver!Push, Receiver!Put, Receiver!store, ReceiverInv, Receiver!TypeOK
<1>4. requests'[s] = r /\ \A t \in Receiver!Slots \ {s} : requests'[t] = requests[t]
  BY <1>3
<1>5. /\ Grows
      /\ overlapped' = (overlapped \/ \E t \in Receiver!Slots : requests[t].stage # "free")
      /\ overlapped' \in BOOLEAN
  BY DEF Receiver!Push, Grows, Receiver!store, Receiver!setup
<1>6. UNCHANGED <<contents, Receiver!Objects, Receiver!Request, members, kind, redelivery>>
  BY <1>5, SameTypes
<1>7. Receiver!TypeOK' /\ SetUp'
  <2>1. requests' \in [Receiver!Slots -> Receiver!Request]
    BY <1>2, <1>3
  <2>2. left' \in 0..Attempts
    BY <1>3, Numbers
  <2>3. awaited' \in 0..2 /\ requests'[awaited'].stage # "free"
    BY <1>2, <1>3, <1>4 DEF Receiver!Slots
  <2> QED BY <1>3, <1>5, <1>6, <2>1, <2>2, <2>3 DEF ReceiverInv, Receiver!TypeOK, SetUp
<1>8. ASSUME NEW t \in Receiver!Slots PROVE Progress(requests[t])' /\ Spoken(requests[t])'
  <2>1. CASE t = s
    <3>1. Progress(r)' /\ Spoken(r)'
      BY <1>2 DEF Progress, Called, Archiving, Quoted, Spoken, Running
    <3> QED BY <1>4, <2>1, <3>1
  <2>2. CASE t # s
    BY <1>3, <1>4, <1>5, <2>2, UntouchedKeeps
  <2> QED BY <2>1, <2>2
<1>9. Alone'
  <2>1. ASSUME ~overlapped' PROVE \A t \in Receiver!Slots \ {s} : requests'[t].stage = "free"
    BY <1>4, <1>5, <2>1
  <2> QED BY <1>3, <2>1 DEF Alone
<1>10. AllKnown'
  <2>1. requests'[awaited'].version = version'
    BY <1>2, <1>3, <1>4
  <2> QED BY <1>3, <2>1 DEF AllKnown, Receiver!StoppedByAVerdict
<1>11. Counted'
  <2>1. ~Costly(requests[awaited])'
    <3>1. ~Costly(r)
      BY <1>2 DEF Costly
    <3> QED BY <1>3, <1>4, <3>1 DEF Costly
  <2>2. members # <<>> => Attempts - left' <= faults + 1
    BY <1>3, Numbers DEF ReceiverInv, Counted
  <2> QED BY <1>3, <1>6, <2>1, <2>2 DEF Counted, Receiver!Slots
<1> QED BY <1>7, <1>8, <1>9, <1>10, <1>11 DEF ReceiverInv

LEMMA GiveUpKeeps ==
  ASSUME ReceiverBounds, ReceiverInv, Receiver!GiveUp
  PROVE  ReceiverInv'
<1>1. /\ vendor = "pushing" /\ awaited = 0 /\ left = 0 /\ vendor' = "dropped"
      /\ UNCHANGED <<version, left, awaited, connected, requests, faults, overlapped>>
      /\ latest' = latest /\ sequence' = sequence /\ Grows
  BY DEF Receiver!GiveUp, Grows, Receiver!store
<1>2. UNCHANGED <<contents, Receiver!Objects, Receiver!Request, members, kind, redelivery>>
  BY <1>1, SameTypes
<1>3. Receiver!TypeOK' /\ SetUp'
  BY <1>1, <1>2 DEF ReceiverInv, Receiver!TypeOK, SetUp
<1>4. ASSUME NEW t \in Receiver!Slots PROVE Progress(requests[t])' /\ Spoken(requests[t])'
  BY <1>1, UntouchedKeeps
<1>5. Alone' /\ AllKnown'
  BY <1>1 DEF ReceiverInv, Alone, AllKnown, Receiver!StoppedByAVerdict
<1>6. Counted'
  <2>1. members # <<>> => Attempts <= faults
    BY <1>1, Numbers DEF ReceiverInv, Counted
  <2> QED BY <1>1, <1>2, <2>1 DEF Counted
<1> QED BY <1>3, <1>4, <1>5, <1>6 DEF ReceiverInv

LEMMA ChangeKeeps ==
  ASSUME ReceiverBounds, ReceiverInv, Receiver!Change
  PROVE  ReceiverInv'
<1>1. /\ awaited = 0 /\ version < MaxVersion /\ version' = version + 1 /\ left' = Attempts
      /\ vendor' = "pushing"
      /\ UNCHANGED <<awaited, connected, requests, faults, overlapped>>
      /\ latest' = latest /\ sequence' = sequence /\ Grows
  BY DEF Receiver!Change, Grows, Receiver!store
<1>2. UNCHANGED <<contents, Receiver!Objects, Receiver!Request, members, kind, redelivery>>
  BY <1>1, SameTypes
<1>3. Receiver!TypeOK' /\ SetUp'
  <2>1. version' \in 1..MaxVersion /\ left' \in 0..Attempts
    BY <1>1, Numbers
  <2> QED BY <1>1, <1>2, <2>1 DEF ReceiverInv, Receiver!TypeOK, SetUp
<1>4. ASSUME NEW t \in Receiver!Slots PROVE Progress(requests[t])' /\ Spoken(requests[t])'
  BY <1>1, UntouchedKeeps
<1>5. Alone' /\ AllKnown'
  BY <1>1 DEF ReceiverInv, Alone, AllKnown, Receiver!StoppedByAVerdict
<1>6. Counted'
  <2>1. Attempts - left' <= faults
    BY <1>1, Numbers
  <2> QED BY <1>1, <2>1 DEF Counted
<1> QED BY <1>3, <1>4, <1>5, <1>6 DEF ReceiverInv

\* The answer arrives, at somebody who waits for it or at nobody.
LEMMA ArriveKeeps ==
  ASSUME ReceiverBounds, ReceiverInv, NEW s \in Receiver!Slots, Receiver!Arrive(s)
  PROVE  ReceiverInv'
<1>1. PICK p : p = requests[s]
  OBVIOUS
<1>2. p \in Receiver!Request /\ p.stage = "answered" /\ Progress(p) /\ Spoken(p)
  BY <1>1 DEF Receiver!Arrive, ReceiverInv, Receiver!TypeOK
<1>3. /\ requests' = [requests EXCEPT ![s] = Receiver!Free] /\ requests \in [Receiver!Slots -> Receiver!Request]
      /\ UNCHANGED <<version, left, connected, faults, overlapped>>
      /\ latest' = latest /\ sequence' = sequence /\ Grows
  BY DEF Receiver!Arrive, Receiver!Put, Grows, Receiver!store, ReceiverInv, Receiver!TypeOK
<1>4. requests'[s] = Receiver!Free /\ \A t \in Receiver!Slots \ {s} : requests'[t] = requests[t]
  BY <1>3
<1>5. UNCHANGED <<contents, Receiver!Objects, Receiver!Request, members, kind, redelivery>>
  BY <1>3, SameTypes
<1>6. p.answer \in {"accepted", "refused", "KEY_ERR", "KEY_DEL"}
  BY <1>2 DEF Receiver!Request, Receiver!Answers, Receiver!Codes, Progress, Called
<1>7. /\ awaited = s => awaited' = 0 /\ vendor' = (IF p.answer = "accepted" THEN "accepted"
                                                 ELSE IF p.answer = "KEY_ERR" THEN "stopped"
                                                 ELSE IF p.answer = "KEY_DEL" THEN "severed"
                                                 ELSE vendor)
      /\ awaited # s => UNCHANGED <<awaited, vendor>>
  BY <1>1 DEF Receiver!Arrive
<1>8. Receiver!TypeOK' /\ SetUp'
  <2>1. requests' \in [Receiver!Slots -> Receiver!Request]
    BY <1>3, FreeIs
  <2>2. vendor' \in {"pushing", "accepted", "stopped", "severed", "dropped"}
    BY <1>7 DEF ReceiverInv, Receiver!TypeOK
  <2>3. awaited' \in 0..2 /\ (awaited' # 0 => requests'[awaited'].stage # "free")
    BY <1>4, <1>7 DEF ReceiverInv, Receiver!TypeOK, Receiver!Slots
  <2> QED BY <1>3, <1>5, <2>1, <2>2, <2>3 DEF ReceiverInv, Receiver!TypeOK, SetUp
<1>9. ASSUME NEW t \in Receiver!Slots PROVE Progress(requests[t])' /\ Spoken(requests[t])'
  BY <1>3, <1>4, UntouchedKeeps
<1>10. Alone'
  <2>1. ASSUME ~overlapped, NEW t \in Receiver!Slots PROVE requests'[t].stage = "free"
    BY <1>1, <1>2, <1>4, <2>1, FreeIs DEF ReceiverInv, Alone
  <2> QED BY <1>3, <2>1 DEF Alone
<1>11. AllKnown'
  <2>1. CASE awaited = s
    <3>1. s # 0 /\ vendor = "pushing" /\ p.version = version
      BY <1>1, <2>1 DEF ReceiverInv, AllKnown, Receiver!Slots
    <3>2. PICK v : v = version
      OBVIOUS
    <3>3. p.answer = "accepted" => Delivered(v)'
      BY <1>2, <1>3, <3>1, <3>2, DeliveredStays DEF Spoken
    <3>4. vendor' = "accepted" => Delivered(version)'
      BY <1>3, <1>6, <1>7, <2>1, <3>1, <3>2, <3>3
    <3>5. Receiver!StoppedByAVerdict'
      BY <1>2, <1>3, <1>6, <1>7, <2>1, <3>1 DEF Spoken, Receiver!StoppedByAVerdict, Grows
    <3> QED BY <1>7, <2>1, <3>4, <3>5 DEF AllKnown
  <2>2. CASE awaited # s
    <3>1. UNCHANGED <<awaited, vendor>>
      BY <1>7, <2>2
    <3>2. (vendor = "accepted" => Delivered(version))' /\ Receiver!StoppedByAVerdict'
      BY <1>3, <3>1, ToldStays
    <3>3. awaited # 0 => vendor = "pushing" /\ requests'[awaited].version = version
      BY <1>4, <2>2 DEF ReceiverInv, AllKnown, Receiver!TypeOK, Receiver!Slots
    <3> QED BY <1>3, <3>1, <3>2, <3>3 DEF AllKnown
  <2> QED BY <2>1, <2>2
<1>12. Counted'
  <2>1. CASE members = <<>>
    BY <1>5, <2>1 DEF Counted
  <2>2. CASE members # <<>> /\ awaited = s
    <3>1. s # 0 /\ vendor = "pushing"
      BY <2>2 DEF ReceiverInv, AllKnown, Receiver!Slots
    <3>2. Costly(requests[awaited]) => Attempts - left <= faults
      BY <2>2, <3>1 DEF ReceiverInv, Counted
    <3>3. vendor' = "pushing" => p.answer = "refused"
      BY <1>6, <1>7, <2>2
    <3>4. vendor' = "pushing" => Attempts - left <= faults
      BY <1>1, <2>2, <3>2, <3>3 DEF Costly
    <3>5. vendor' # "dropped"
      BY <1>7, <2>2, <3>1
    <3> QED BY <1>3, <1>7, <2>2, <3>4, <3>5 DEF Counted
  <2>3. CASE members # <<>> /\ awaited # s
    <3>1. UNCHANGED <<awaited, vendor>>
      BY <1>7, <2>3
    <3>2. awaited # 0 => requests'[awaited] = requests[awaited]
      BY <1>4, <2>3 DEF ReceiverInv, Receiver!TypeOK, Receiver!Slots
    <3>3. Costly(requests[awaited])' /\ awaited # 0 => Costly(requests[awaited])
      BY <3>1, <3>2 DEF Costly
    <3>4. Counted
      BY DEF ReceiverInv
    <3> QED BY <1>3, <1>5, <3>1, <3>3, <3>4 DEF Counted
  <2> QED BY <2>1, <2>2, <2>3
<1> QED BY <1>8, <1>9, <1>10, <1>11, <1>12 DEF ReceiverInv

\* szamlazz.hu waits no longer, the process dies, or the connection is removed: each is a
\* fault, and pays for the attempt it costs.
LEMMA FaultKeeps ==
  ASSUME ReceiverBounds, ReceiverInv, Receiver!Abandon \/ Receiver!Crash \/ Receiver!Disconnect
  PROVE  ReceiverInv'
<1>1. /\ faults' = faults + 1 /\ faults' \in 0..MaxFaults
      /\ UNCHANGED <<version, left, vendor, overlapped>>
      /\ latest' = latest /\ sequence' \in Nat /\ Grows /\ connected' \in BOOLEAN
  <2>1. sequence \in Nat /\ connected \in BOOLEAN
    BY DEF ReceiverInv, Receiver!TypeOK
  <2>2. Receiver!Fault
    BY DEF Receiver!Abandon, Receiver!Crash, Receiver!Disconnect
  <2>3. faults' = faults + 1 /\ faults' \in 0..MaxFaults
    BY <2>2, Numbers DEF Receiver!Fault
  <2>4. UNCHANGED <<version, left, vendor, overlapped>> /\ latest' = latest /\ Grows
    BY DEF Receiver!Abandon, Receiver!Crash, Receiver!Disconnect, Grows, Receiver!store
  <2>5. sequence' = sequence \/ sequence' = 0
    BY DEF Receiver!Abandon, Receiver!Crash, Receiver!Disconnect, Receiver!store
  <2>6. connected' = connected \/ connected' = FALSE
    BY DEF Receiver!Abandon, Receiver!Crash, Receiver!Disconnect
  <2>7. sequence' \in Nat
    BY <2>1, <2>5
  <2>8. connected' \in BOOLEAN
    BY <2>1, <2>6
  <2> QED BY <2>3, <2>4, <2>7, <2>8
<1>2. requests \in [Receiver!Slots -> Receiver!Request] /\ requests' \in [Receiver!Slots -> Receiver!Request]
  BY FreeIs DEF ReceiverInv, Receiver!TypeOK, Receiver!Abandon, Receiver!Crash, Receiver!Disconnect
<1>3. \A t \in Receiver!Slots : requests'[t] = requests[t] \/ requests'[t] = Receiver!Free
  BY DEF Receiver!Abandon, Receiver!Crash, Receiver!Disconnect
<1>4. awaited' = 0 \/ (awaited' = awaited /\ requests' = requests)
  BY DEF Receiver!Abandon, Receiver!Crash, Receiver!Disconnect
<1>5. UNCHANGED <<contents, Receiver!Objects, Receiver!Request, members, kind, redelivery>>
  BY <1>1, SameTypes
<1>6. Receiver!TypeOK' /\ SetUp'
  <2>1. awaited' \in 0..2 /\ (awaited' # 0 => requests'[awaited'].stage # "free")
    BY <1>4 DEF ReceiverInv, Receiver!TypeOK
  <2> QED BY <1>1, <1>2, <1>5, <2>1 DEF ReceiverInv, Receiver!TypeOK, SetUp
<1>7. ASSUME NEW t \in Receiver!Slots PROVE Progress(requests[t])' /\ Spoken(requests[t])'
  BY <1>1, <1>3, UntouchedKeeps
<1>8. Alone'
  <2>1. \A t \in Receiver!Slots : requests'[t].stage # "free" => requests[t].stage # "free"
    BY <1>3, FreeIs
  <2> QED BY <1>1, <2>1 DEF ReceiverInv, Alone
<1>9. AllKnown'
  <2>1. (vendor = "accepted" => Delivered(version))' /\ Receiver!StoppedByAVerdict'
    BY <1>1, ToldStays
  <2> QED BY <1>1, <1>4, <2>1 DEF ReceiverInv, AllKnown
<1>10. Counted'
  <2>1. CASE members = <<>>
    BY <1>5, <2>1 DEF Counted
  <2>2. CASE members # <<>>
    <3>1. /\ vendor = "pushing" => Attempts - left <= faults'
          /\ vendor = "dropped" => Attempts <= faults'
      <4>1. /\ vendor = "pushing" => Attempts - left <= faults + 1
            /\ vendor = "dropped" => Attempts <= faults
        BY <2>2, Numbers DEF ReceiverInv, Counted
      <4> QED BY <1>1, <4>1, Numbers
    <3>2. vendor = "pushing" => Attempts - left <= faults' + 1
      BY <1>1, <3>1, Numbers
    <3> QED BY <1>1, <3>1, <3>2 DEF Counted
  <2> QED BY <2>1, <2>2
<1> QED BY <1>6, <1>7, <1>8, <1>9, <1>10 DEF ReceiverInv

LEMMA ReceiverStutters ==
  ASSUME ReceiverInv, UNCHANGED Receiver!vars
  PROVE  ReceiverInv'
<1>1. UNCHANGED <<kind, contents, redelivery, members, version, left, vendor, awaited, connected, requests,
                  latest, kept, sequence, handled, faults, refusals, overlapped>>
  BY DEF Receiver!vars
<1>2. Grows /\ latest' = latest
  BY <1>1 DEF Grows, Receiver!setup
<1>3. UNCHANGED <<contents, Receiver!Objects, Receiver!Request, members, kind, redelivery>>
  BY <1>2, SameTypes
<1>4. Receiver!TypeOK' /\ SetUp'
  BY <1>1, <1>3 DEF ReceiverInv, Receiver!TypeOK, SetUp
<1>5. ASSUME NEW t \in Receiver!Slots PROVE Progress(requests[t])' /\ Spoken(requests[t])'
  <2>1. PICK q : q = requests[t]
    OBVIOUS
  <2>2. Progress(q) /\ Spoken(q)
    BY <2>1 DEF ReceiverInv
  <2>3. Progress(q)' /\ Spoken(q)'
    BY <1>2, <2>2, ProgressStays, SpokenStays
  <2> QED BY <1>1, <2>1, <2>3
<1>6. Alone'
  BY <1>1 DEF ReceiverInv, Alone
<1>7. AllKnown'
  <2>1. (vendor = "accepted" => Delivered(version))' /\ Receiver!StoppedByAVerdict'
    BY <1>1, <1>2, ToldStays
  <2> QED BY <1>1, <2>1 DEF ReceiverInv, AllKnown
<1>8. Counted'
  BY <1>1 DEF ReceiverInv, Counted, Costly
<1> QED BY <1>4, <1>5, <1>6, <1>7, <1>8 DEF ReceiverInv

LEMMA ReceiverStarts ==
  ASSUME ReceiverBounds, Receiver!Init
  PROVE  ReceiverInv
<1>1. /\ version = 1 /\ left = Attempts /\ vendor = "pushing" /\ awaited = 0
      /\ connected = TRUE /\ requests = [s \in Receiver!Slots |-> Receiver!Free]
      /\ latest = [o \in Receiver!Places |-> 0] /\ sequence = 0 /\ faults = 0 /\ overlapped = FALSE
  BY DEF Receiver!Init
<1>2. MaxVersion \in Nat \ {0} /\ Attempts \in Nat /\ MaxFaults \in Nat
  BY DEF ReceiverBounds, Receiver!BoundsAssumption
<1>3. \A t \in Receiver!Slots : requests[t] = Receiver!Free
  BY <1>1
<1>4. Receiver!TypeOK
  <2>1. requests \in [Receiver!Slots -> Receiver!Request]
    BY <1>1, FreeIs
  <2>2. latest \in [Receiver!Places -> 0..MaxVersion]
    BY <1>1, <1>2
  <2>3. /\ version \in 1..MaxVersion /\ left \in 0..Attempts /\ faults \in 0..MaxFaults
        /\ awaited \in 0..2 /\ sequence \in Nat
    BY <1>1, <1>2
  <2>4. connected \in BOOLEAN /\ overlapped \in BOOLEAN
    BY <1>1
  <2> QED BY <1>1, <2>1, <2>2, <2>3, <2>4 DEF Receiver!TypeOK
<1>5. SetUp
  BY DEF Receiver!Init, SetUp
<1>6. ASSUME NEW t \in Receiver!Slots PROVE Progress(requests[t]) /\ Spoken(requests[t])
  <2>1. Progress(Receiver!Free) /\ Spoken(Receiver!Free)
    BY FreeIs DEF Progress, Called, Archiving, Quoted, Spoken, Running
  <2> QED BY <1>3, <2>1
<1>7. Alone
  BY <1>3, FreeIs DEF Alone
<1>8. AllKnown
  BY <1>1 DEF AllKnown, Receiver!StoppedByAVerdict
<1>9. Counted
  BY <1>1, <1>2 DEF Counted
<1> QED BY <1>4, <1>5, <1>6, <1>7, <1>8, <1>9 DEF ReceiverInv

LEMMA ReceiverSteps ==
  ASSUME ReceiverBounds, ReceiverInv, Receiver!Next
  PROVE  ReceiverInv'
<1>1. ASSUME NEW s \in Receiver!Slots, Receiver!Step(s) PROVE ReceiverInv'
  BY <1>1, ResolveKeeps, ArchiverKeeps, AppKeeps, MergeKeeps DEF Receiver!Step
<1> QED BY <1>1, GiveUpKeeps, ChangeKeeps, FaultKeeps, PushKeeps, ArriveKeeps, DamagedKeeps DEF Receiver!Next

\* What the invariant says of archive and acknowledgements.
LEMMA ReceiverSays ==
  ASSUME ReceiverBounds, ReceiverInv
  PROVE  Receiver!TypeOK /\ Receiver!ArchiveIsComplete /\ Receiver!AcknowledgementsAreTrue
<1>1. Receiver!TypeOK
  BY DEF ReceiverInv
<1>2. Receiver!AcceptedIsKept
  BY DEF ReceiverInv, AllKnown, Delivered, Complete, Saved, ArtifactsOf, Receiver!AcceptedIsKept
<1>3. Receiver!LatestWins
  BY <1>1 DEF ReceiverInv, AllKnown, Delivered, Complete, Shown, ArtifactsOf, Receiver!LatestWins, Receiver!TypeOK
<1>4. Receiver!StoppedByAVerdict
  BY DEF ReceiverInv, AllKnown
<1>5. Receiver!CodesSurvive
  BY DEF ReceiverInv, Spoken, CodesIn, Receiver!CodesSurvive
<1>6. Receiver!FailureStopsNobody
  BY DEF ReceiverInv, Progress, Called, Receiver!FailureStopsNobody
<1>7. Receiver!NeverDropped
  <2>1. vendor = "dropped" /\ members # <<>> => Attempts <= faults
    BY DEF ReceiverInv, Counted
  <2> QED BY <2>1, Numbers DEF Receiver!NeverDropped
<1> QED BY <1>1, <1>2, <1>3, <1>4, <1>5, <1>6, <1>7 DEF Receiver!ArchiveIsComplete, Receiver!AcknowledgementsAreTrue

-----------------------------------------------------------------------------
(* One exchange.  What szamlazz.hu says is so, whatever the channel.       *)

\* A code that is true of a request: of o, performed or not, about a document
\* that is there or not, under a good or a bad key.
Truthful(o, did, has, k, code) ==
  /\ code \in Agent!Credential => k = "bad" /\ ~did
  /\ o \notin Agent!Queries /\ did => code \notin Agent!RefusalCodes(o)
  /\ o \in Agent!Queries /\ (has \/ k = "bad") => code # "7"

\* What can be read in an answer, as it was sent or as it arrived: codes that
\* are true; no acknowledgement and no number for a write that was not
\* performed, except under a refusal or on a page nobody parses; no document
\* unless there is one.
Honest(o, did, has, k, r) ==
  /\ Agent!HeaderError(r) => Truthful(o, did, has, k, Agent!ErrorCode(r.code))
  /\ Agent!Readable(r.body) /\ Agent!BodyError(r.body) # "none" => Truthful(o, did, has, k, Agent!BodyError(r.body))
  /\ o \notin Agent!Queries /\ ~did /\ Agent!Readable(r.body) /\ Agent!BodyError(r.body) = "none"
       => o = "credit" /\ Agent!InvoiceNumber(r) = "other"
  /\ o \in Agent!Issuing /\ ~did /\ Agent!InvoiceNumber(r) # "none"
       => IF Agent!Readable(r.body) THEN Agent!BodyError(r.body) \notin {"none", Agent!NotificationFailed}
          ELSE r.body.shape # "plain"
  /\ o \in Agent!Queries /\ r.body.shape = "szamla" => has /\ k = "good"

\* An answer: headers, a status and a body.
Formed(r) ==
  \E down, code, number, status, body : r = Agent!Response(down, code, number, status, body)

AnyCode == Agent!Known \cup {"Unknown", "Absent"}

\* What the client may make of it.
Plausible(o, did, has, k, e) ==
  \/ e.kind \in {"ServiceUnavailable", "HttpStatus", "Parse", "Transport", "IncompleteResponse"}
  \/ e.kind = "Request" /\ ~did
  \/ \E c \in AnyCode : e = Agent!Api(c) /\ Truthful(o, did, has, k, c)
  \/ o \in Agent!Issuing /\ e.kind = "issued" /\ did
  \/ o \in Agent!Issuing /\ e.kind = "unnumbered"
  \/ o = "delete" /\ e.kind = "acknowledged" /\ did
  \/ o = "credit" /\ e.kind = "acknowledged" /\ (did \/ e.number = "other")
  \/ o \in Agent!Queries /\ e.kind = "document" /\ has /\ k = "good"

\* What the gateway may conclude.
Justified(o, did, has, k, x) ==
  /\ x \in Agent!Outcomes \ {"none"}
  /\ x \in {"Rejected", "Duplicate", "CredentialsRejected", "AlreadyGone"} => ~did
  /\ x \in {"Issued", "Deleted", "Done"} => did
  /\ x = "NotFound" => o \in Agent!Queries /\ ~has
  /\ x = "Found" => o \in Agent!Queries /\ has
  /\ x = "Accepted" => k = "good"

ExchangeBounds == Agent!OpsAssumption /\ Agent!TokensAssumption

ExchangeInv ==
  /\ Agent!TypeOK /\ key \in {"good", "bad"} /\ holds \in BOOLEAN
  /\ phase \in {"request", "sent"} => ~acted
  /\ op \in Agent!Queries => ~acted
  /\ phase \in {"answered", "received"} =>
       Formed(response) /\ Honest(op, acted, holds, key, response)
  /\ phase \in {"parsed", "settled"} =>
       /\ Plausible(op, acted, holds, key, result)
       /\ damage = "none" /\ result.kind # "Request" => result = Agent!Parse(op, response)
  /\ IF phase = "settled" THEN outcome = Agent!Outcome(op, result) ELSE outcome = "none"

-----------------------------------------------------------------------------
LEMMA CodeFacts ==
  ASSUME NEW t
  PROVE  /\ Agent!ErrorCode(t) \in AnyCode
         /\ Agent!ErrorCode(t) = Agent!NotificationFailed => t = Agent!NotificationFailed
<1>1. "7" \in Agent!Known
  BY DEF Agent!Known
<1> QED BY <1>1 DEF Agent!ErrorCode, AnyCode, Agent!NotificationFailed

LEMMA NoneIsNoCode == "none" \notin AnyCode
  BY DEF AnyCode, Agent!Known

LEMMA NotificationCode ==
  /\ Agent!ErrorCode(Agent!NotificationFailed) = Agent!NotificationFailed /\ Agent!NotificationFailed \in AnyCode
  /\ Agent!NotificationFailed \notin Agent!Credential /\ Agent!NotificationFailed \notin {"none", "blank", "7"}
  BY DEF Agent!ErrorCode, Agent!NotificationFailed, AnyCode, Agent!Known, Agent!Credential

LEMMA NotificationIsTrue ==
  ASSUME NEW o \in Agent!Issuing, NEW did, NEW has, NEW k
  PROVE  Truthful(o, did, has, k, Agent!NotificationFailed)
  BY NotificationCode DEF Truthful, Agent!Issuing, Agent!Queries, Agent!RefusalCodes, Agent!NotificationFailed

\* The fields of an answer.
LEMMA Fields ==
  ASSUME NEW down, NEW code, NEW number, NEW status, NEW shape, NEW sikeres, NEW hibakod,
         NEW named, NEW meta,
         NEW r, r = Agent!Response(down, code, number, status, Agent!Body(shape, sikeres, hibakod, named, meta))
  PROVE  /\ r.down = down /\ r.code = code /\ r.number = number /\ r.status = status
         /\ r.body.shape = shape /\ r.body.sikeres = sikeres /\ r.body.hibakod = hibakod
         /\ r.body.number = named /\ r.body.meta = meta
  BY DEF Agent!Response, Agent!Body

LEMMA PageFields ==
  ASSUME NEW code, NEW number, NEW status, NEW b \in {Agent!Page, Agent!Plain},
         NEW r, r = Agent!Response("none", code, number, status, b)
  PROVE  /\ r.down = "none" /\ r.code = code /\ r.number = number /\ r.status = status
         /\ r.body.shape \in {"markup", "plain"} /\ r.body.number = "none"
         /\ ~Agent!Readable(r.body)
  BY DEF Agent!Response, Agent!Page, Agent!Plain, Agent!Body, Agent!Readable

\* A code szamlazz.hu may report is true.
LEMMA ReportsAreTrue ==
  ASSUME NEW o, NEW t, NEW did, NEW has, NEW k, Agent!MayReport(o, t, did, has, k)
  PROVE  Truthful(o, did, has, k, Agent!ErrorCode(t))
  BY DEF Agent!MayReport, Truthful, Agent!Credential

LEMMA ErrorsAreHonest ==
  ASSUME Agent!TokensAssumption, NEW o \in Agent!AllOps, NEW did \in BOOLEAN, NEW has \in BOOLEAN, NEW k,
         NEW r \in Agent!Errors(o, did, has, k)
  PROVE  Honest(o, did, has, k, r)
<1> DEFINE can == {t \in ErrorCodes : Agent!MayReport(o, t, did, has, k)}
           body(t) == Agent!Body("envelope", "false", t, "none", "good")
<1>1. \A t \in can : /\ Truthful(o, did, has, k, Agent!ErrorCode(t))
                     /\ t \notin {"none", "duplicated"} /\ Agent!ErrorCode(t) # "none"
  BY ReportsAreTrue, CodeFacts, NoneIsNoCode DEF Agent!TokensAssumption
<1>2. ASSUME NEW c, NEW n, NEW t \in can, r = Agent!Response("none", c, n, 200, body(t)),
             c \in {"none", t} \/ (o \in Agent!Issuing /\ ~did /\ c = Agent!NotificationFailed
                                  /\ t # Agent!NotificationFailed),
             n = "none" \/ (o \in Agent!Issuing /\ ~did /\ t # Agent!NotificationFailed)
      PROVE  Honest(o, did, has, k, r)
  <2>1. /\ r.code = c /\ r.number = n /\ r.body.shape = "envelope" /\ r.body.sikeres = "false"
        /\ r.body.hibakod = t /\ r.body.number = "none"
    BY <1>2, Fields
  <2>2. Agent!Readable(r.body) /\ Agent!BodyError(r.body) = Agent!ErrorCode(t)
    BY <1>1, <2>1 DEF Agent!Readable, Agent!BodyError
  <2>3. Agent!HeaderError(r) => Truthful(o, did, has, k, Agent!ErrorCode(r.code))
    BY <1>1, <1>2, <2>1, NotificationCode, NotificationIsTrue DEF Agent!HeaderError
  <2>4. Agent!InvoiceNumber(r) # "none" => n # "none"
    BY <2>1 DEF Agent!InvoiceNumber
  <2>5. t # Agent!NotificationFailed => Agent!ErrorCode(t) # Agent!NotificationFailed
    BY CodeFacts
  <2> QED BY <1>1, <1>2, <2>1, <2>2, <2>3, <2>4, <2>5 DEF Honest
<1>3. ASSUME NEW t \in can, NEW b \in {Agent!Page, Agent!Plain}, r = Agent!Response("none", t, "none", 200, b)
      PROVE  Honest(o, did, has, k, r)
  <2>1. /\ r.code = t /\ r.number = "none" /\ r.body.shape \in {"markup", "plain"}
        /\ r.body.number = "none" /\ ~Agent!Readable(r.body)
    BY <1>3, PageFields
  <2>2. Agent!InvoiceNumber(r) = "none"
    BY <2>1 DEF Agent!InvoiceNumber
  <2> QED BY <1>1, <2>1, <2>2 DEF Honest
<1>4. \/ \E t \in can : r = Agent!Response("none", "none", "none", 200, body(t))
      \/ \E t \in can : r = Agent!Response("none", t, "none", 200, body(t))
      \/ \E t \in can, b \in {Agent!Page, Agent!Plain} : r = Agent!Response("none", t, "none", 200, b)
      \/ /\ ~did /\ o \in Agent!Issuing
         /\ \E t \in can \ {Agent!NotificationFailed, "blank"}, n \in {"none", "ours"} :
              r = Agent!Response("none", Agent!NotificationFailed, n, 200, body(t))
  BY DEF Agent!Errors
<1> HIDE DEF can, body
<1> QED BY <1>2, <1>3, <1>4

LEMMA VagueIsHonest ==
  ASSUME NEW o, NEW did, NEW has, NEW k, NEW r \in Agent!Vague(o)
  PROVE  Honest(o, did, has, k, r)
<1>1. ASSUME NEW s, NEW h, r = Agent!Response("none", "none", "none", 200, Agent!Body("envelope", s, h, "none", "good")),
             s \in {"none", "junk", "duplicated"} \/ h = "duplicated"
      PROVE  Honest(o, did, has, k, r)
  <2>1. /\ r.code = "none" /\ r.number = "none" /\ r.body.shape = "envelope" /\ r.body.sikeres = s
        /\ r.body.hibakod = h /\ r.body.number = "none"
    BY <1>1, Fields
  <2>2. ~Agent!Readable(r.body) /\ ~Agent!HeaderError(r) /\ Agent!InvoiceNumber(r) = "none"
    BY <1>1, <2>1 DEF Agent!Readable, Agent!HeaderError, Agent!InvoiceNumber
  <2> QED BY <2>1, <2>2 DEF Honest
<1>2. ASSUME NEW c \in {"none", "1"}, r = Agent!Response("text", c, "none", 200, Agent!Plain)
      PROVE  Honest(o, did, has, k, r)
  <2>1. /\ r.code = c /\ r.number = "none" /\ r.body.shape = "plain" /\ r.body.number = "none"
    BY <1>2 DEF Agent!Response, Agent!Plain, Agent!Body
  <2>2. ~Agent!Readable(r.body) /\ Agent!InvoiceNumber(r) = "none"
    BY <2>1 DEF Agent!Readable, Agent!InvoiceNumber
  <2>3. Agent!HeaderError(r) => Agent!ErrorCode(r.code) = "1"
    BY <2>1 DEF Agent!HeaderError, Agent!ErrorCode, Agent!Known
  <2>4. Truthful(o, did, has, k, "1")
    BY DEF Truthful, Agent!Credential, Agent!RefusalCodes
  <2> QED BY <2>1, <2>2, <2>3, <2>4 DEF Honest
<1>3. \/ \E s \in {"none", "junk", "duplicated"}, h \in {"none", "duplicated"} :
           r = Agent!Response("none", "none", "none", 200, Agent!Body("envelope", s, h, "none", "good"))
      \/ r = Agent!Response("none", "none", "none", 200, Agent!Body("envelope", "false", "duplicated", "none", "good"))
      \/ \E c \in {"none", "1"} : r = Agent!Response("text", c, "none", 200, Agent!Plain)
  BY DEF Agent!Vague
<1> QED BY <1>1, <1>2, <1>3

LEMMA SuccessesAreHonest ==
  ASSUME NEW o \in Agent!AllOps, NEW did \in BOOLEAN, NEW has \in BOOLEAN, NEW k, NEW r \in Agent!Successes(o),
         IF o \in Agent!Queries THEN has /\ k = "good" ELSE did
  PROVE  Honest(o, did, has, k, r)
<1>1. CASE o \in Agent!Queries
  <2>1. o \notin Agent!Issuing \cup {"delete", "credit"}
    BY <1>1 DEF Agent!Queries, Agent!Issuing
  <2>2. PICK b \in {"ours", "blank"}, m \in Agent!Metas :
          r = Agent!Response("none", "none", "none", 200, Agent!Body("szamla", "none", "none", b, m))
    BY <2>1 DEF Agent!Successes
  <2>3. r.code = "none" /\ r.body.shape = "szamla"
    BY <2>2, Fields
  <2> QED BY <1>1, <2>1, <2>3 DEF Honest, Agent!HeaderError, Agent!Readable
<1>2. CASE o \notin Agent!Queries
  <2>1. o \in Agent!Issuing \cup {"delete", "credit"}
    BY <1>2 DEF Agent!AllOps
  <2>2. PICK c, n, b, m : c \in {"none", "blank"} /\
          r = Agent!Response("none", c, n, 200, Agent!Body("envelope", "true", "none", b, m))
    BY <2>1 DEF Agent!Successes
  <2>3. r.code \in {"none", "blank"} /\ r.body.sikeres = "true"
    BY <2>2, Fields
  <2>4. ~Agent!HeaderError(r) /\ Agent!BodyError(r.body) = "none"
    BY <2>3 DEF Agent!HeaderError, Agent!BodyError
  <2> QED BY <1>2, <2>4 DEF Honest
<1> QED BY <1>1, <1>2

LEMMA NotifiedFields ==
  ASSUME NEW o, NEW r \in Agent!Notified(o)
  PROVE  /\ o \in Agent!Issuing /\ r.down = "none" /\ r.code \in {"none", Agent!NotificationFailed}
         /\ r.status = 200 /\ r.number \in {"none", "ours"}
         /\ r.body.number \in {"none", "blank", "ours", "duplicated"}
         /\ \/ /\ Agent!Readable(r.body) /\ Agent!BodyError(r.body) \in {"none", Agent!NotificationFailed}
               /\ Agent!BodyError(r.body) = "none" => r.code = Agent!NotificationFailed
            \/ r.body.shape = "plain" /\ r.code = Agent!NotificationFailed /\ ~Agent!Readable(r.body)
<1>1. o \in Agent!Issuing
  BY DEF Agent!Notified
<1>2. ASSUME NEW c \in {"none", Agent!NotificationFailed}, NEW n \in {"none", "ours"},
             NEW s \in {"true", "false"}, NEW h \in {"none", Agent!NotificationFailed},
             NEW b \in {"none", "blank", "ours", "duplicated"}, NEW m \in Agent!Metas,
             r = Agent!Response("none", c, n, 200, Agent!Body("envelope", s, h, b, m)),
             r.body.sikeres = "false" <=> r.body.hibakod = Agent!NotificationFailed,
             Agent!NotificationFailed \in {r.code, r.body.hibakod}
      PROVE  /\ r.down = "none" /\ r.code \in {"none", Agent!NotificationFailed}
             /\ r.status = 200 /\ r.number \in {"none", "ours"}
             /\ r.body.number \in {"none", "blank", "ours", "duplicated"}
             /\ Agent!Readable(r.body) /\ Agent!BodyError(r.body) \in {"none", Agent!NotificationFailed}
             /\ Agent!BodyError(r.body) = "none" => r.code = Agent!NotificationFailed
  <2>1. /\ r.down = "none" /\ r.code = c /\ r.status = 200 /\ r.number = n
        /\ r.body.shape = "envelope" /\ r.body.sikeres = s /\ r.body.hibakod = h
        /\ r.body.number = b
    BY <1>2, Fields
  <2>2. Agent!Readable(r.body)
    BY <2>1 DEF Agent!Readable, Agent!NotificationFailed
  <2>3. Agent!BodyError(r.body) = IF s = "true" THEN "none" ELSE Agent!NotificationFailed
    BY <1>2, <2>1, NotificationCode DEF Agent!BodyError
  <2> QED BY <1>2, <2>1, <2>2, <2>3, NotificationCode
<1>3. ASSUME NEW n \in {"none", "ours"}, r = Agent!Response("none", Agent!NotificationFailed, n, 200, Agent!Plain)
      PROVE  /\ r.down = "none" /\ r.code = Agent!NotificationFailed /\ r.status = 200 /\ r.number = n
             /\ r.body.number = "none" /\ r.body.shape = "plain" /\ ~Agent!Readable(r.body)
  BY <1>3 DEF Agent!Response, Agent!Plain, Agent!Body, Agent!Readable
<1>4. \/ \E c \in {"none", Agent!NotificationFailed}, n \in {"none", "ours"},
             s \in {"true", "false"}, h \in {"none", Agent!NotificationFailed},
             b \in {"none", "blank", "ours", "duplicated"}, m \in Agent!Metas :
           /\ r = Agent!Response("none", c, n, 200, Agent!Body("envelope", s, h, b, m))
           /\ r.body.sikeres = "false" <=> r.body.hibakod = Agent!NotificationFailed
           /\ Agent!NotificationFailed \in {r.code, r.body.hibakod}
      \/ \E n \in {"none", "ours"} : r = Agent!Response("none", Agent!NotificationFailed, n, 200, Agent!Plain)
  BY <1>1 DEF Agent!Notified
<1>5. CASE \E n \in {"none", "ours"} : r = Agent!Response("none", Agent!NotificationFailed, n, 200, Agent!Plain)
  BY <1>1, <1>3, <1>5
<1>6. CASE \E c \in {"none", Agent!NotificationFailed}, n \in {"none", "ours"},
              s \in {"true", "false"}, h \in {"none", Agent!NotificationFailed},
              b \in {"none", "blank", "ours", "duplicated"}, m \in Agent!Metas :
             /\ r = Agent!Response("none", c, n, 200, Agent!Body("envelope", s, h, b, m))
             /\ r.body.sikeres = "false" <=> r.body.hibakod = Agent!NotificationFailed
             /\ Agent!NotificationFailed \in {r.code, r.body.hibakod}
  BY <1>1, <1>2, <1>6
<1> QED BY <1>4, <1>5, <1>6

LEMMA NotifiedIsHonest ==
  ASSUME NEW o, NEW did, did, NEW has, NEW k, NEW r \in Agent!Notified(o)
  PROVE  Honest(o, did, has, k, r)
<1>1. o \in Agent!Issuing /\ o \notin Agent!Queries
  BY NotifiedFields DEF Agent!Issuing, Agent!Queries
<1>2. Truthful(o, did, has, k, Agent!NotificationFailed)
  BY <1>1, NotificationIsTrue
<1>3. r.code \in {"none", Agent!NotificationFailed}
  BY NotifiedFields
<1>4. Agent!HeaderError(r) => Truthful(o, did, has, k, Agent!ErrorCode(r.code))
  BY <1>2, <1>3, NotificationCode DEF Agent!HeaderError
<1>5. Agent!Readable(r.body) => Agent!BodyError(r.body) \in {"none", Agent!NotificationFailed}
  BY NotifiedFields
<1> QED BY <1>1, <1>2, <1>4, <1>5 DEF Honest

LEMMA MisdirectedIsHonest ==
  ASSUME NEW o, NEW did, NEW has, NEW k, NEW r \in Agent!Misdirected(o)
  PROVE  Honest(o, did, has, k, r)
<1>1. o = "credit"
  BY DEF Agent!Misdirected
<1>2. PICK n \in {"none", "other"}, b \in {"other"} :
        r = Agent!Response("none", "none", n, 200, Agent!Body("envelope", "true", "none", b, "good"))
  BY <1>1 DEF Agent!Misdirected
<1>3. r.code = "none" /\ r.body.sikeres = "true" /\ r.body.number = "other"
  BY <1>2, Fields
<1>4. ~Agent!HeaderError(r) /\ Agent!BodyError(r.body) = "none" /\ Agent!InvoiceNumber(r) = "other"
  BY <1>3 DEF Agent!HeaderError, Agent!BodyError, Agent!InvoiceNumber
<1> QED BY <1>1, <1>4 DEF Honest, Agent!Issuing, Agent!Queries


\* The answer on its way: what is left of it is as honest.
LEMMA CarriedIsHonest ==
  ASSUME NEW o, NEW did, NEW has, NEW k, NEW r, Honest(o, did, has, k, r), NEW x,
         \/ x = [r EXCEPT !.body = Agent!Page]
         \/ \E status \in {200, 404, 503}, b \in {Agent!Page, Agent!Plain} :
              x = Agent!Response("none", "none", "none", status, b)
         \/ x = [r EXCEPT !.status = 503],
         Formed(r)
  PROVE  Formed(x) /\ Honest(o, did, has, k, x)
<1>0. PICK down, code, number, status, body : r = Agent!Response(down, code, number, status, body)
  BY DEF Formed
<1>1. CASE x = [r EXCEPT !.body = Agent!Page]
  <2>0. x = Agent!Response(down, code, number, status, Agent!Page)
    BY <1>0, <1>1 DEF Agent!Response
  <2>1. x.code = r.code /\ x.body = Agent!Page
    BY <1>0, <2>0 DEF Agent!Response
  <2>3. Formed(x)
    BY <2>0 DEF Formed
  <2>2. ~Agent!Readable(x.body) /\ x.body.shape = "markup"
    BY <2>1 DEF Agent!Readable, Agent!Page, Agent!Body
  <2> QED BY <2>3, <2>1, <2>2 DEF Honest, Agent!HeaderError
<1>2. ASSUME NEW other \in {200, 404, 503}, NEW b \in {Agent!Page, Agent!Plain},
             x = Agent!Response("none", "none", "none", other, b)
      PROVE  Formed(x) /\ Honest(o, did, has, k, x)
  <2>1. /\ x.code = "none" /\ x.number = "none" /\ x.body.number = "none"
        /\ x.body.shape \in {"markup", "plain"} /\ ~Agent!Readable(x.body)
    BY <1>2, PageFields
  <2>2. Formed(x)
    BY <1>2 DEF Formed
  <2> QED BY <2>1, <2>2 DEF Honest, Agent!HeaderError, Agent!InvoiceNumber
<1>3. CASE x = [r EXCEPT !.status = 503]
  <2>0. x = Agent!Response(down, code, number, 503, body)
    BY <1>0, <1>3 DEF Agent!Response
  <2>1. x.code = r.code /\ x.body = r.body /\ x.number = r.number
    BY <1>0, <2>0 DEF Agent!Response
  <2>3. Formed(x)
    BY <2>0 DEF Formed
  <2>2. Agent!InvoiceNumber(x) = Agent!InvoiceNumber(r) /\ (Agent!HeaderError(x) <=> Agent!HeaderError(r))
    BY <2>1 DEF Agent!InvoiceNumber, Agent!HeaderError
  <2> QED BY <2>3, <2>1, <2>2 DEF Honest
<1> QED BY <1>1, <1>2, <1>3

-----------------------------------------------------------------------------
(* The parsers.                                                            *)

LEMMA ApiFields ==
  ASSUME NEW c
  PROVE  Agent!Api(c).kind = "Api" /\ Agent!Api(c).code = c
  BY DEF Agent!Api, Agent!Failed

LEMMA HeadIs ==
  ASSUME NEW o, NEW did, NEW has, NEW k, NEW r, Honest(o, did, has, k, r),
         NEW e, e = Agent!HeaderVerdict(r)
  PROVE  \/ e.kind \in {"ServiceUnavailable", "HttpStatus"}
         \/ /\ Agent!HeaderError(r) /\ e = Agent!Api(Agent!ErrorCode(r.code)) /\ e.kind = "Api"
            /\ Truthful(o, did, has, k, Agent!ErrorCode(r.code)) /\ Agent!ErrorCode(r.code) \in AnyCode
         \/ e.kind = "body" /\ ~Agent!HeaderError(r)
<1>1. CASE r.down = "text"
  BY <1>1 DEF Agent!HeaderVerdict, Agent!Failed
<1>2. CASE r.down # "text" /\ Agent!HeaderError(r)
  BY <1>2, CodeFacts, ApiFields DEF Agent!HeaderVerdict, Honest
<1>3. CASE r.down # "text" /\ ~Agent!HeaderError(r) /\ ~Agent!Success(r.status)
  BY <1>3 DEF Agent!HeaderVerdict, Agent!Failed
<1>4. CASE r.down # "text" /\ ~Agent!HeaderError(r) /\ Agent!Success(r.status)
  BY <1>4 DEF Agent!HeaderVerdict, Agent!Done
<1> QED BY <1>1, <1>2, <1>3, <1>4

LEMMA BodyCode ==
  ASSUME NEW b, Agent!BodyError(b) # "none"
  PROVE  Agent!BodyError(b) \in AnyCode
  BY CodeFacts DEF Agent!BodyError, AnyCode

LEMMA ParseFailedFields == Agent!ParseFailed.kind = "Parse"
  BY DEF Agent!ParseFailed, Agent!Failed

\* A verdict that is not the body's is plausible.
LEMMA HeadIsPlausible ==
  ASSUME NEW o, NEW did, NEW has, NEW k, NEW r, Honest(o, did, has, k, r),
         NEW e, e = Agent!HeaderVerdict(r), e.kind # "body"
  PROVE  Plausible(o, did, has, k, e)
  BY HeadIs DEF Plausible

LEMMA BodyIsPlausible ==
  ASSUME NEW o, NEW did, NEW has, NEW k, NEW r, Honest(o, did, has, k, r),
         Agent!Readable(r.body), Agent!BodyError(r.body) # "none"
  PROVE  Plausible(o, did, has, k, Agent!Api(Agent!BodyError(r.body)))
  BY BodyCode DEF Plausible, Honest

LEMMA VerdictIs ==
  ASSUME NEW o, NEW did, NEW has, NEW k, NEW r, Honest(o, did, has, k, r),
         NEW e, e = Agent!VerdictText(r)
  PROVE  \/ Plausible(o, did, has, k, e) /\ e.kind # "acknowledged"
         \/ e = Agent!Done("acknowledged", "none") /\ Agent!Readable(r.body) /\ Agent!BodyError(r.body) = "none"
<1>1. PICK head : head = Agent!HeaderVerdict(r)
  OBVIOUS
<1>2. CASE head.kind # "body"
  BY <1>1, <1>2, HeadIs, HeadIsPlausible DEF Agent!VerdictText
<1>3. CASE head.kind = "body" /\ ~Agent!Readable(r.body)
  BY <1>1, <1>3, ParseFailedFields DEF Agent!VerdictText, Plausible
<1>4. CASE head.kind = "body" /\ Agent!Readable(r.body) /\ Agent!BodyError(r.body) # "none"
  BY <1>1, <1>4, BodyIsPlausible, ApiFields DEF Agent!VerdictText
<1>5. CASE head.kind = "body" /\ Agent!Readable(r.body) /\ Agent!BodyError(r.body) = "none"
  BY <1>1, <1>5 DEF Agent!VerdictText
<1> QED BY <1>2, <1>3, <1>4, <1>5

LEMMA DoneFields ==
  ASSUME NEW x, NEW n
  PROVE  Agent!Done(x, n).kind = x /\ Agent!Done(x, n).number = n
  BY DEF Agent!Done

LEMMA ReplyIs ==
  ASSUME NEW o \in Agent!Issuing, NEW did \in BOOLEAN, NEW has, NEW k, NEW r, Honest(o, did, has, k, r),
         NEW e, e = Agent!ParseReply(r)
  PROVE  Plausible(o, did, has, k, e)
<1>1. PICK head : head = Agent!HeaderVerdict(r)
  OBVIOUS
<1>2. PICK said : said = IF Agent!Readable(r.body) THEN Agent!BodyError(r.body) ELSE "none"
  OBVIOUS
<1>3. PICK number : number = Agent!InvoiceNumber(r)
  OBVIOUS
<1>4. PICK notified \in BOOLEAN : notified = (Agent!HeaderError(r) \/ said = Agent!NotificationFailed)
  OBVIOUS
<1>5. e = IF head.kind # "body" /\ head # Agent!Api(Agent!NotificationFailed) THEN head
          ELSE IF ~Agent!Readable(r.body) /\ ~Agent!PlainNotification(r) THEN Agent!ParseFailed
          ELSE IF said \notin {"none", Agent!NotificationFailed} THEN Agent!Api(said)
          ELSE IF r.body.number = "duplicated" \/ (~notified /\ r.body.meta = "duplicated") THEN Agent!ParseFailed
          ELSE IF number = "none" /\ notified THEN Agent!Api(Agent!NotificationFailed)
          ELSE IF ~Agent!Lenient(notified, r.body.meta) THEN Agent!ParseFailed
          ELSE Agent!Done(IF number = "none" THEN "unnumbered" ELSE "issued", number)
  BY <1>1, <1>2, <1>3, <1>4 DEF Agent!ParseReply
<1>6. CASE e = head /\ head.kind # "body"
  BY <1>1, <1>6, HeadIsPlausible
<1>7. CASE e = Agent!ParseFailed
  BY <1>7, ParseFailedFields DEF Plausible
<1>8. CASE e = Agent!Api(said) /\ said # "none"
  BY <1>2, <1>8, BodyIsPlausible
<1>9. CASE e = Agent!Api(Agent!NotificationFailed)
  BY <1>9, NotificationIsTrue, NotificationCode DEF Plausible
<1>10. CASE /\ e = Agent!Done(IF number = "none" THEN "unnumbered" ELSE "issued", number)
            /\ Agent!Readable(r.body) \/ Agent!PlainNotification(r)
            /\ said \in {"none", Agent!NotificationFailed}
  <2>1. CASE number = "none"
    BY <1>10, <2>1, DoneFields DEF Plausible
  <2>2. CASE number # "none"
    <3>1. did
      BY <1>2, <1>3, <1>10, <2>2 DEF Honest, Agent!PlainNotification
    <3>2. e.kind = "issued"
      BY <1>10, <2>2, DoneFields
    <3> QED BY <3>1, <3>2 DEF Plausible
  <2> QED BY <2>1, <2>2
<1> QED BY <1>5, <1>6, <1>7, <1>8, <1>9, <1>10

LEMMA ParseIsPlausible ==
  ASSUME NEW o \in Agent!AllOps, NEW did \in BOOLEAN, NEW has, NEW k, NEW r, Honest(o, did, has, k, r),
         NEW e, e = Agent!Parse(o, r)
  PROVE  Plausible(o, did, has, k, e)
<1>1. CASE o = "create"
  <2>1. o \in Agent!Issuing
    BY <1>1 DEF Agent!Issuing
  <2>2. PICK reply : reply = Agent!ParseReply(r)
    OBVIOUS
  <2>3. e = IF reply.kind = "unnumbered" THEN Agent!ParseFailed ELSE reply
    BY <1>1, <2>2 DEF Agent!Parse, Agent!ParseCreate
  <2>4. Plausible(o, did, has, k, reply)
    BY <2>1, <2>2, ReplyIs
  <2>5. Plausible(o, did, has, k, Agent!ParseFailed)
    BY ParseFailedFields DEF Plausible
  <2> QED BY <2>3, <2>4, <2>5
<1>2. CASE o = "storno"
  BY <1>2, ReplyIs DEF Agent!Parse, Agent!Issuing
<1>3. CASE o = "delete"
  <2>1. e = Agent!VerdictText(r) /\ o \notin Agent!Queries
    BY <1>3 DEF Agent!Parse, Agent!Queries
  <2>2. e = Agent!Done("acknowledged", "none") /\ Agent!Readable(r.body) /\ Agent!BodyError(r.body) = "none" => did
    BY <1>3, <2>1 DEF Honest
  <2> QED BY <1>3, <2>1, <2>2, VerdictIs, DoneFields DEF Plausible
<1>4. CASE o = "credit"
  <2>1. o \notin Agent!Queries /\ e = Agent!ParseCredit(r)
    BY <1>4 DEF Agent!Parse, Agent!Queries
  <2>2. PICK head : head = Agent!VerdictText(r)
    OBVIOUS
  <2>3. CASE head.kind # "acknowledged"
    <3>1. e = head
      BY <2>1, <2>2, <2>3 DEF Agent!ParseCredit
    <3> QED BY <2>2, <2>3, <3>1, VerdictIs, DoneFields
  <2>4. CASE head.kind = "acknowledged"
    <3>1. Agent!Readable(r.body) /\ Agent!BodyError(r.body) = "none"
      BY <2>2, <2>4, VerdictIs
    <3>2. did \/ Agent!InvoiceNumber(r) = "other"
      BY <2>1, <3>1 DEF Honest
    <3>3. e = Agent!ParseFailed \/ e = Agent!Done("acknowledged", Agent!InvoiceNumber(r))
      BY <2>1, <2>2, <2>4 DEF Agent!ParseCredit
    <3> QED BY <1>4, <3>2, <3>3, DoneFields, ParseFailedFields DEF Plausible
  <2> QED BY <2>3, <2>4
<1>5. CASE o \in Agent!Queries
  <2>1. e = Agent!ParseQuery(r)
    BY <1>5 DEF Agent!Parse, Agent!Queries
  <2>2. PICK head : head = Agent!HeaderVerdict(r)
    OBVIOUS
  <2>3. CASE head.kind # "body"
    BY <2>1, <2>2, <2>3, HeadIsPlausible DEF Agent!ParseQuery
  <2>4. CASE head.kind = "body" /\ r.body.shape = "szamla" /\ r.body.meta = "good"
    <3>1. e = Agent!Done("document", r.body.number)
      BY <2>1, <2>2, <2>4 DEF Agent!ParseQuery
    <3>2. e.kind = "document"
      BY <3>1, DoneFields
    <3>3. has /\ k = "good"
      BY <1>5, <2>4 DEF Honest
    <3> QED BY <1>5, <3>2, <3>3 DEF Plausible
  <2>5. CASE head.kind = "body" /\ ~(r.body.shape = "szamla" /\ r.body.meta = "good")
    <3>1. \/ e = Agent!ParseFailed
          \/ e = Agent!Api(Agent!BodyError(r.body)) /\ Agent!Readable(r.body) /\ Agent!BodyError(r.body) # "none"
      BY <2>1, <2>2, <2>5 DEF Agent!ParseQuery
    <3>2. Plausible(o, did, has, k, Agent!ParseFailed)
      BY ParseFailedFields DEF Plausible
    <3> QED BY <3>1, <3>2, BodyIsPlausible
  <2> QED BY <2>3, <2>4, <2>5
<1> QED BY <1>1, <1>2, <1>3, <1>4, <1>5 DEF Agent!AllOps, Agent!Issuing

-----------------------------------------------------------------------------
(* The gateway.                                                            *)

\* No answer, none that can be read, and the kinds that are no failure.
LEMMA UnansweredIs ==
  ASSUME NEW e, e.kind \in {"ServiceUnavailable", "HttpStatus", "Parse", "Transport",
                           "IncompleteResponse"}
  PROVE  /\ Agent!Unanswered(e) \in {"Unavailable", "Transport"}
         /\ \A c : e # Agent!Api(c)
         /\ e.kind \notin {"Api", "Request", "issued", "unnumbered", "acknowledged", "document"}
  BY ApiFields DEF Agent!Unanswered

LEMMA IssuingIsJustified ==
  ASSUME NEW o \in Agent!Issuing, NEW did \in BOOLEAN, NEW has, NEW k, NEW e, Plausible(o, did, has, k, e)
  PROVE  Justified(o, did, has, k, Agent!IssuingOutcome(e))
<1>0. o \notin Agent!Queries /\ o # "delete" /\ o # "credit"
  BY DEF Agent!Issuing, Agent!Queries
<1>1. CASE e.kind \in {"ServiceUnavailable", "HttpStatus", "Parse", "Transport", "IncompleteResponse"}
  <2>1. Agent!IssuingOutcome(e) \in {"Unavailable", "Transport"}
    BY <1>1, UnansweredIs DEF Agent!IssuingOutcome, Agent!ClassifyFailure
  <2> QED BY <2>1 DEF Justified, Agent!Outcomes
<1>2. CASE e.kind = "Request" /\ ~did
  <2>1. Agent!IssuingOutcome(e) = "Rejected"
    BY <1>2 DEF Agent!IssuingOutcome, Agent!ClassifyFailure
  <2> QED BY <1>2, <2>1 DEF Justified, Agent!Outcomes
<1>3. ASSUME NEW c \in AnyCode, e = Agent!Api(c), Truthful(o, did, has, k, c)
      PROVE  Justified(o, did, has, k, Agent!IssuingOutcome(e))
  <2>1. e.kind = "Api" /\ e.code = c
    BY <1>3, ApiFields
  <2>2. did => c \notin Agent!Known \ {"1", "55", "56"} /\ c \notin Agent!Credential
    BY <1>0, <1>3 DEF Truthful, Agent!RefusalCodes
  <2>3. did => Agent!OutcomeClass(c) = "Unknown"
    BY <2>2 DEF Agent!OutcomeClass, AnyCode
  <2>4. Agent!IssuingOutcome(e) = IF c \in Agent!Credential THEN "CredentialsRejected"
                            ELSE IF Agent!OutcomeClass(c) = "DuplicateOrderNumber" THEN "Duplicate"
                            ELSE IF Agent!OutcomeClass(c) \in {"Rejected", "NotFound"} THEN "Rejected"
                            ELSE "Open"
    BY <2>1 DEF Agent!IssuingOutcome, Agent!ClassifyFailure
  <2> QED BY <2>2, <2>3, <2>4 DEF Justified, Agent!Outcomes
<1>4. CASE (e.kind = "issued" /\ did) \/ e.kind = "unnumbered"
  BY <1>4 DEF Agent!IssuingOutcome, Justified, Agent!Outcomes
<1> QED BY <1>0, <1>1, <1>2, <1>3, <1>4 DEF Plausible

LEMMA DeleteIsJustified ==
  ASSUME NEW did \in BOOLEAN, NEW has, NEW k, NEW e, Plausible("delete", did, has, k, e)
  PROVE  Justified("delete", did, has, k, Agent!DeleteOutcome(e))
<1>0. "delete" \notin Agent!Queries /\ "delete" \notin Agent!Issuing
  BY DEF Agent!Issuing, Agent!Queries
<1>1. CASE e.kind \in {"ServiceUnavailable", "HttpStatus", "Parse", "Transport", "IncompleteResponse"}
  <2>1. Agent!DeleteOutcome(e) = "Lost"
    BY <1>1, UnansweredIs DEF Agent!DeleteOutcome
  <2> QED BY <2>1 DEF Justified, Agent!Outcomes
<1>2. CASE e.kind = "Request" /\ ~did
  <2>1. Agent!DeleteOutcome(e) = "Rejected"
    BY <1>2, ApiFields DEF Agent!DeleteOutcome
  <2> QED BY <1>2, <2>1 DEF Justified, Agent!Outcomes
<1>3. ASSUME NEW c \in AnyCode, e = Agent!Api(c), Truthful("delete", did, has, k, c)
      PROVE  Justified("delete", did, has, k, Agent!DeleteOutcome(e))
  <2>1. e.kind = "Api" /\ e.code = c /\ (e = Agent!Api("335") <=> c = "335")
    BY <1>3, ApiFields
  <2>2. did => c \notin {"53", "57", "335"} /\ c \notin Agent!Credential
    BY <1>0, <1>3 DEF Truthful, Agent!RefusalCodes
  <2>3. Agent!DeleteOutcome(e) = IF c = "335" THEN "AlreadyGone"
                           ELSE IF c \in Agent!Credential THEN "CredentialsRejected"
                           ELSE IF c \in {"53", "57"} THEN "Rejected" ELSE "Inconclusive"
    BY <2>1 DEF Agent!DeleteOutcome
  <2> QED BY <2>2, <2>3 DEF Justified, Agent!Outcomes
<1>4. CASE e.kind = "acknowledged" /\ did
  BY <1>4 DEF Agent!DeleteOutcome, Justified, Agent!Outcomes
<1> QED BY <1>0, <1>1, <1>2, <1>3, <1>4 DEF Plausible

LEMMA CreditIsJustified ==
  ASSUME NEW did \in BOOLEAN, NEW has, NEW k, NEW e, Plausible("credit", did, has, k, e)
  PROVE  Justified("credit", did, has, k, Agent!CreditOutcome(e))
<1>0. "credit" \notin Agent!Queries /\ "credit" \notin Agent!Issuing
  BY DEF Agent!Issuing, Agent!Queries
<1>1. CASE e.kind \in {"ServiceUnavailable", "HttpStatus", "Parse", "Transport", "IncompleteResponse"}
  <2>1. Agent!CreditOutcome(e) = "Lost"
    BY <1>1, UnansweredIs DEF Agent!CreditOutcome
  <2> QED BY <2>1 DEF Justified, Agent!Outcomes
<1>2. CASE e.kind = "Request" /\ ~did
  <2>1. Agent!CreditOutcome(e) = "Rejected"
    BY <1>2 DEF Agent!CreditOutcome
  <2> QED BY <1>2, <2>1 DEF Justified, Agent!Outcomes
<1>3. ASSUME NEW c \in AnyCode, e = Agent!Api(c), Truthful("credit", did, has, k, c)
      PROVE  Justified("credit", did, has, k, Agent!CreditOutcome(e))
  <2>1. e.kind = "Api" /\ e.code = c
    BY <1>3, ApiFields
  <2>2. did => c \notin {"53", "57", "463"} /\ c \notin Agent!Credential
    BY <1>0, <1>3 DEF Truthful, Agent!RefusalCodes
  <2>3. Agent!CreditOutcome(e) = IF c \in Agent!Credential THEN "CredentialsRejected"
                           ELSE IF c \in {"53", "57", "463"} THEN "Rejected" ELSE "Inconclusive"
    BY <2>1 DEF Agent!CreditOutcome
  <2> QED BY <2>2, <2>3 DEF Justified, Agent!Outcomes
<1>4. CASE e.kind = "acknowledged" /\ (did \/ e.number = "other")
  <2>1. Agent!CreditOutcome(e) = "Lost" \/ (Agent!CreditOutcome(e) = "Done" /\ did)
    BY <1>4 DEF Agent!CreditOutcome
  <2> QED BY <2>1 DEF Justified, Agent!Outcomes
<1> QED BY <1>0, <1>1, <1>2, <1>3, <1>4 DEF Plausible

\* A query: what the handler is told of the document and of the key.
LEMMA QueryIs ==
  ASSUME NEW o \in Agent!Queries, NEW did \in BOOLEAN, NEW has, NEW k, NEW e, Plausible(o, did, has, k, e),
         NEW q, NEW x, x = Agent!Answered(Agent!QueryProjected(q, e))
  PROVE  /\ x \in {"Found", "NotFound", "CredentialsRejected", "Unavailable", "Api", "Transport"}
         /\ x = "NotFound" => ~has /\ k # "bad"
         /\ x = "Found" => has /\ k = "good"
         /\ x = "CredentialsRejected" => ~did
<1>0. o \notin Agent!Issuing /\ o # "delete" /\ o # "credit"
  BY DEF Agent!Issuing, Agent!Queries
<1>1. CASE e.kind \in {"ServiceUnavailable", "HttpStatus", "Parse", "Transport", "IncompleteResponse"}
  <2>1. Agent!QueryProjected(q, e) \in {"Unavailable", "Transport"}
    BY <1>1, UnansweredIs DEF Agent!QueryProjected, Agent!QueryError
  <2> QED BY <2>1 DEF Agent!Answered
<1>2. CASE e.kind = "Request"
  <2>1. Agent!QueryProjected(q, e) = "Transport"
    BY <1>2, ApiFields DEF Agent!QueryProjected, Agent!QueryError, Agent!Unanswered
  <2> QED BY <2>1 DEF Agent!Answered
<1>3. ASSUME NEW c \in AnyCode, e = Agent!Api(c), Truthful(o, did, has, k, c)
      PROVE  /\ x \in {"NotFound", "CredentialsRejected", "Unavailable", "Api"}
             /\ x = "NotFound" => ~has /\ k # "bad"
             /\ x = "CredentialsRejected" => ~did
  <2>1. e.kind = "Api" /\ e.code = c /\ (e = Agent!Api("7") <=> c = "7")
    BY <1>3, ApiFields
  <2>2. Agent!QueryProjected(q, e) = IF c = "7" THEN "NotFound"
                               ELSE IF c \in Agent!Credential THEN "CredentialsRejected"
                               ELSE IF c \in Agent!Retryable THEN "Transient" ELSE "Api"
    BY <2>1 DEF Agent!QueryProjected, Agent!QueryError
  <2>3. (c = "7" => ~has /\ k # "bad") /\ (c \in Agent!Credential => ~did)
    BY <1>3 DEF Truthful
  <2> QED BY <2>2, <2>3 DEF Agent!Answered
<1>4. CASE e.kind = "document" /\ has /\ k = "good"
  <2>1. Agent!QueryProjected(q, e) \in {"Found", "Transport"}
    BY <1>4 DEF Agent!QueryProjected
  <2> QED BY <1>4, <2>1 DEF Agent!Answered
<1> QED BY <1>0, <1>1, <1>2, <1>3, <1>4 DEF Plausible

LEMMA OutcomeIsJustified ==
  ASSUME NEW o \in Agent!AllOps, NEW did \in BOOLEAN, NEW has, NEW k \in {"good", "bad"}, NEW e,
         Plausible(o, did, has, k, e)
  PROVE  Justified(o, did, has, k, Agent!Outcome(o, e))
<1>1. CASE o \in Agent!Issuing
  BY <1>1, IssuingIsJustified DEF Agent!Outcome
<1>2. CASE o = "delete"
  BY <1>2, DeleteIsJustified DEF Agent!Outcome, Agent!Issuing
<1>3. CASE o = "credit"
  BY <1>3, CreditIsJustified DEF Agent!Outcome, Agent!Issuing
<1>4. CASE o = "probe"
  <2>1. PICK seen : seen = Agent!Answered(Agent!QueryProjected("probe", e))
    OBVIOUS
  <2>2. o \in Agent!Queries
    BY <1>4 DEF Agent!Queries
  <2>3. /\ seen \in {"Found", "NotFound", "CredentialsRejected", "Unavailable", "Api", "Transport"}
        /\ seen \in {"Found", "NotFound"} => k = "good"
        /\ seen = "CredentialsRejected" => ~did
    BY <2>1, <2>2, QueryIs
  <2>4. Agent!Outcome(o, e) = IF seen \in {"Found", "NotFound"} THEN "Accepted"
                        ELSE IF seen = "Api" THEN "Unavailable" ELSE seen
    BY <1>4, <2>1 DEF Agent!Outcome, Agent!Probe, Agent!Issuing
  <2> QED BY <2>3, <2>4 DEF Justified, Agent!Outcomes
<1>5. CASE o \in Agent!Queries /\ o # "probe"
  <2>1. PICK x : x = Agent!Answered(Agent!QueryProjected(o, e))
    OBVIOUS
  <2>2. Agent!Outcome(o, e) = x
    BY <1>5, <2>1 DEF Agent!Outcome, Agent!Issuing, Agent!Queries
  <2>3. /\ x \in {"Found", "NotFound", "CredentialsRejected", "Unavailable", "Api", "Transport"}
        /\ x = "NotFound" => ~has
        /\ x = "Found" => has
        /\ x = "CredentialsRejected" => ~did
    BY <1>5, <2>1, QueryIs
  <2> QED BY <1>5, <2>2, <2>3 DEF Justified, Agent!Outcomes
<1> QED BY <1>1, <1>2, <1>3, <1>4, <1>5 DEF Agent!AllOps

\* An issued document whose notification failed is reported with its number.
LEMMA NotificationIsReported ==
  ASSUME NEW o, NEW r \in Agent!Notified(o), r.body.number # "duplicated",
         "ours" \in {r.number, r.body.number}
  PROVE  Agent!Outcome(o, Agent!Parse(o, r)) = "Issued"
<1>1. o \in Agent!Issuing
  BY NotifiedFields
<1>2. Agent!InvoiceNumber(r) = "ours"
  BY NotifiedFields DEF Agent!InvoiceNumber
<1>3. Agent!HeaderVerdict(r) = IF r.code = Agent!NotificationFailed THEN Agent!Api(Agent!NotificationFailed)
                         ELSE Agent!Done("body", "none")
  BY NotifiedFields, NotificationCode DEF Agent!HeaderVerdict, Agent!HeaderError, Agent!Success
<1>4. PICK said : said = IF Agent!Readable(r.body) THEN Agent!BodyError(r.body) ELSE "none"
  OBVIOUS
<1>5. said \in {"none", Agent!NotificationFailed} /\ (said = "none" => r.code = Agent!NotificationFailed)
  BY <1>4, NotifiedFields
<1>6. Agent!HeaderError(r) <=> r.code = Agent!NotificationFailed
  BY NotifiedFields, NotificationCode DEF Agent!HeaderError
<1>7. Agent!Readable(r.body) \/ Agent!PlainNotification(r)
  BY <1>6, NotifiedFields DEF Agent!PlainNotification
<1>8. Agent!ParseReply(r) = Agent!Done("issued", "ours")
  <2>1. Agent!Done("body", "none").kind = "body"
    BY DoneFields
  <2>2. Agent!HeaderVerdict(r).kind = "body" \/ Agent!HeaderVerdict(r) = Agent!Api(Agent!NotificationFailed)
    BY <1>3, <2>1
  <2>3. Agent!HeaderError(r) \/ said = Agent!NotificationFailed
    BY <1>5, <1>6
  <2> QED BY <1>2, <1>4, <1>5, <1>7, <2>2, <2>3 DEF Agent!ParseReply, Agent!Lenient
<1>9. Agent!Parse(o, r) = Agent!Done("issued", "ours")
  <2>1. Agent!Done("issued", "ours").kind # "unnumbered"
    BY DoneFields
  <2> QED BY <1>1, <1>8, <2>1 DEF Agent!Parse, Agent!ParseCreate, Agent!Issuing
<1> QED BY <1>1, <1>9, DoneFields DEF Agent!Outcome, Agent!IssuingOutcome

-----------------------------------------------------------------------------
(* The steps of an exchange.                                               *)

LEMMA ExchangeStarts ==
  ASSUME ExchangeBounds, Agent!Init
  PROVE  ExchangeInv
  BY DEF ExchangeBounds, Agent!OpsAssumption, Agent!Init, ExchangeInv, Agent!TypeOK, Agent!Outcomes

LEMMA ServedIsFormed ==
  ASSUME NEW o, NEW did, NEW has, NEW k, NEW r,
         r \in Agent!Errors(o, did, has, k) \cup Agent!Vague(o) \cup Agent!Successes(o) \cup Agent!Notified(o) \cup Agent!Misdirected(o)
  PROVE  Formed(r)
<1>1. r \in Agent!Errors(o, did, has, k) => Formed(r)
  BY DEF Agent!Errors, Formed
<1>2. r \in Agent!Vague(o) => Formed(r)
  BY DEF Agent!Vague, Formed
<1>3. r \in Agent!Successes(o) => Formed(r)
  BY DEF Agent!Successes, Formed
<1>4. r \in Agent!Notified(o) => Formed(r)
  BY DEF Agent!Notified, Formed
<1>5. r \in Agent!Misdirected(o) => Formed(r)
  BY DEF Agent!Misdirected, Formed
<1> QED BY <1>1, <1>2, <1>3, <1>4, <1>5

\* szamlazz.hu's answers are honest.
LEMMA ServeKeeps ==
  ASSUME ExchangeBounds, ExchangeInv, Agent!Serve
  PROVE  ExchangeInv'
<1>1. /\ phase = "sent" /\ phase' = "answered" /\ UNCHANGED <<op, key, holds, damage, result, outcome>>
      /\ op \in Agent!AllOps /\ op \in Ops /\ key \in {"good", "bad"} /\ holds \in BOOLEAN /\ outcome = "none"
  BY DEF Agent!Serve, ExchangeInv, Agent!TypeOK, ExchangeBounds, Agent!OpsAssumption
<1>2. PICK did \in (IF op \in Agent!Queries \/ key = "bad" THEN {FALSE} ELSE BOOLEAN) :
        /\ acted' = did
        /\ response' \in Agent!Errors(op, did, holds, key) \cup Agent!Vague(op)
                         \cup (IF did THEN Agent!Successes(op) \cup Agent!Notified(op) ELSE Agent!Misdirected(op))
                         \cup (IF op \in Agent!Queries /\ holds /\ key = "good"
                               THEN Agent!Successes(op) ELSE {})
  BY DEF Agent!Serve
<1>3. did \in BOOLEAN /\ (op \in Agent!Queries => ~did)
  OBVIOUS
<1>4. PICK r : r = response'
  OBVIOUS
<1>5. Honest(op, did, holds, key, r)
  <2>1. CASE r \in Agent!Errors(op, did, holds, key)
    BY <1>1, <1>3, <2>1, ErrorsAreHonest DEF ExchangeBounds
  <2>2. CASE r \in Agent!Vague(op)
    BY <2>2, VagueIsHonest
  <2>3. CASE did /\ r \in Agent!Successes(op)
    BY <1>1, <1>3, <2>3, SuccessesAreHonest
  <2>4. CASE did /\ r \in Agent!Notified(op)
    BY <2>4, NotifiedIsHonest
  <2>5. CASE r \in Agent!Misdirected(op)
    BY <2>5, MisdirectedIsHonest
  <2>6. CASE op \in Agent!Queries /\ holds /\ key = "good" /\ r \in Agent!Successes(op)
    BY <1>1, <1>3, <2>6, SuccessesAreHonest
  <2> QED BY <1>2, <1>4, <2>1, <2>2, <2>3, <2>4, <2>5, <2>6
<1>6. acted' \in BOOLEAN /\ (op \in Agent!Queries => ~acted')
  BY <1>2, <1>3
<1>7. Formed(r)
  BY <1>2, <1>4, ServedIsFormed
<1>8. Formed(response') /\ Honest(op', acted', holds', key', response')
  BY <1>1, <1>2, <1>4, <1>5, <1>7
<1> QED BY <1>1, <1>6, <1>8 DEF ExchangeInv, Agent!TypeOK, Agent!Outcomes

LEMMA CarryKeeps ==
  ASSUME ExchangeInv, Agent!Carry
  PROVE  ExchangeInv'
<1>1. /\ phase = "answered" /\ phase' = "received" /\ UNCHANGED <<op, key, acted, holds, result, outcome>>
      /\ Formed(response) /\ Honest(op, acted, holds, key, response) /\ outcome = "none"
  BY DEF Agent!Carry, ExchangeInv
<1>2. PICK x : x = response'
  OBVIOUS
<1>3. \/ x = response
      \/ x = [response EXCEPT !.body = Agent!Page]
      \/ \E status \in {200, 404, 503}, b \in {Agent!Page, Agent!Plain} :
           x = Agent!Response("none", "none", "none", status, b)
      \/ x = [response EXCEPT !.status = 503]
  BY <1>2 DEF Agent!Carry
<1>4. Formed(x) /\ Honest(op, acted, holds, key, x)
  BY <1>1, <1>3, CarriedIsHonest
<1>5. Formed(response') /\ Honest(op', acted', holds', key', response')
  BY <1>1, <1>2, <1>4
<1> QED BY <1>1, <1>5 DEF ExchangeInv, Agent!TypeOK

LEMMA RefuseKeeps ==
  ASSUME ExchangeInv, Agent!RefuseLocally
  PROVE  ExchangeInv'
<1>1. /\ phase = "request" /\ phase' = "parsed" /\ result'.kind = "Request" /\ ~acted
      /\ UNCHANGED <<op, key, acted, holds, response, damage, outcome>> /\ outcome = "none"
  BY DEF Agent!RefuseLocally, ExchangeInv, Agent!Failed
<1>2. Plausible(op', acted', holds', key', result')
  BY <1>1 DEF Plausible
<1> QED BY <1>1, <1>2 DEF ExchangeInv, Agent!TypeOK

LEMMA SendKeeps ==
  ASSUME ExchangeInv, Agent!Send
  PROVE  ExchangeInv'
  BY DEF ExchangeInv, Agent!Send, Agent!TypeOK

LEMMA ReceiveKeeps ==
  ASSUME ExchangeBounds, ExchangeInv, Agent!Receive
  PROVE  ExchangeInv'
<1>1. /\ phase = "received" /\ phase' = "parsed"
      /\ UNCHANGED <<op, key, acted, holds, response, damage, outcome>> /\ outcome = "none"
      /\ Honest(op, acted, holds, key, response) /\ op \in Agent!AllOps /\ acted \in BOOLEAN
  BY DEF Agent!Receive, ExchangeInv, Agent!TypeOK, ExchangeBounds, Agent!OpsAssumption
<1>2. PICK e : e = result'
  OBVIOUS
<1>3. e = IF damage = "lost" THEN Agent!Failed("Transport", "none")
          ELSE IF damage = "incomplete" THEN Agent!Failed("IncompleteResponse", "none")
          ELSE Agent!Parse(op, response)
  BY <1>2 DEF Agent!Receive
<1>4. Plausible(op, acted, holds, key, e)
  <2>1. CASE damage \in {"lost", "incomplete"}
    <3>1. e.kind \in {"Transport", "IncompleteResponse"}
      BY <1>3, <2>1 DEF Agent!Failed
    <3> QED BY <3>1 DEF Plausible
  <2>2. CASE damage \notin {"lost", "incomplete"}
    BY <1>1, <1>3, <2>2, ParseIsPlausible
  <2> QED BY <2>1, <2>2
<1>5. Plausible(op', acted', holds', key', result')
  BY <1>1, <1>2, <1>4
<1>6. damage' = "none" => result' = Agent!Parse(op', response')
  BY <1>1, <1>2, <1>3
<1> QED BY <1>1, <1>5, <1>6 DEF ExchangeInv, Agent!TypeOK

LEMMA SettleKeeps ==
  ASSUME ExchangeBounds, ExchangeInv, Agent!Settle
  PROVE  ExchangeInv'
<1>1. /\ phase = "parsed" /\ phase' = "settled" /\ outcome' = Agent!Outcome(op, result)
      /\ UNCHANGED <<op, key, acted, holds, response, damage, result>>
      /\ Plausible(op, acted, holds, key, result) /\ op \in Agent!AllOps /\ acted \in BOOLEAN
      /\ key \in {"good", "bad"}
      /\ damage = "none" /\ result.kind # "Request" => result = Agent!Parse(op, response)
  BY DEF Agent!Settle, ExchangeInv, Agent!TypeOK, ExchangeBounds, Agent!OpsAssumption
<1>2. Justified(op, acted, holds, key, Agent!Outcome(op, result))
  BY <1>1, OutcomeIsJustified
<1>3. outcome' \in Agent!Outcomes /\ outcome' # "none"
  BY <1>1, <1>2 DEF Justified
<1>4. outcome' = Agent!Outcome(op', result') /\ Plausible(op', acted', holds', key', result')
  BY <1>1
<1>5. damage' = "none" /\ result'.kind # "Request" => result' = Agent!Parse(op', response')
  BY <1>1
<1> QED BY <1>1, <1>3, <1>4, <1>5 DEF ExchangeInv, Agent!TypeOK

LEMMA ExchangeStutters ==
  ASSUME ExchangeInv, UNCHANGED Agent!vars
  PROVE  ExchangeInv'
  BY DEF ExchangeInv, Agent!TypeOK, Agent!vars

LEMMA ExchangeSteps ==
  ASSUME ExchangeBounds, ExchangeInv, Agent!Next
  PROVE  ExchangeInv'
  BY RefuseKeeps, SendKeeps, ServeKeeps, CarryKeeps, ReceiveKeeps, SettleKeeps, ExchangeStutters
     DEF Agent!Next, Agent!Finished

\* What the invariant says of outcomes.
LEMMA ExchangeSays ==
  ASSUME ExchangeBounds, ExchangeInv
  PROVE  Agent!TypeOK /\ Agent!OutcomesAreTrue
<1>1. Agent!TypeOK
  BY DEF ExchangeInv
<1>2. phase = "settled" => Justified(op, acted, holds, key, outcome)
  <2>1. SUFFICES ASSUME phase = "settled" PROVE Justified(op, acted, holds, key, outcome)
    OBVIOUS
  <2>2. /\ outcome = Agent!Outcome(op, result) /\ Plausible(op, acted, holds, key, result)
        /\ op \in Agent!AllOps /\ acted \in BOOLEAN /\ key \in {"good", "bad"}
    BY <2>1 DEF ExchangeInv, Agent!TypeOK, ExchangeBounds, Agent!OpsAssumption
  <2> QED BY <2>2, OutcomeIsJustified
<1>3. phase # "settled" => outcome = "none"
  BY DEF ExchangeInv
<1>4. Agent!RefusalMeansNotActed /\ Agent!SuccessMeansActed /\ Agent!AbsenceIsAnswered /\ Agent!AcceptedKeyIsGood
  BY <1>2, <1>3 DEF Justified, Agent!RefusalMeansNotActed, Agent!SuccessMeansActed, Agent!AbsenceIsAnswered,
                    Agent!AcceptedKeyIsGood
<1>5. Agent!NumberedNotificationIsIssued
  <2>1. SUFFICES ASSUME phase = "settled", damage = "none", result.kind # "Request",
                        response \in Agent!Notified(op), response.body.number # "duplicated",
                        "ours" \in {response.number, response.body.number}
                 PROVE  outcome = "Issued"
    BY DEF Agent!NumberedNotificationIsIssued
  <2>2. outcome = Agent!Outcome(op, Agent!Parse(op, response))
    BY <2>1 DEF ExchangeInv
  <2> QED BY <2>1, <2>2, NotificationIsReported
<1> QED BY <1>1, <1>4, <1>5 DEF Agent!OutcomesAreTrue

-----------------------------------------------------------------------------
(* The contents of pushed documents.                                       *)
(*                                                                         *)
(* The readers of document.rs are compared with the vendor's schema block  *)
(* by block (PushAgrees).  A table is a merge of tables with one reader    *)
(* each, so what it has and reads is taken apart with AllHas, AllReads,    *)
(* BothHave and BothRead.                                                  *)

DocumentsBounds == Documents!KindsAssumption

Has(f, n) == n \in DOMAIN f

Reads(f, n, r) == n \in DOMAIN f /\ f[n] = r

LEMMA AllHas ==
  ASSUME NEW names, NEW reader, NEW n
  PROVE  Has(Documents!All(names, reader), n) <=> n \in names
  BY DEF Documents!All, Has

LEMMA AllReads ==
  ASSUME NEW names, NEW reader, NEW n, NEW r
  PROVE  Reads(Documents!All(names, reader), n, r) <=> n \in names /\ r = reader
  BY DEF Documents!All, Reads

LEMMA BothHave ==
  ASSUME NEW f, NEW g, NEW n
  PROVE  Has(Documents!++(f, g), n) <=> Has(f, n) \/ Has(g, n)
  BY DEF Documents!++, Has

LEMMA BothRead ==
  ASSUME NEW f, NEW g, NEW n, NEW r
  PROVE  Reads(Documents!++(f, g), n, r)
           <=> Reads(f, n, r) \/ (~Has(f, n) /\ Reads(g, n, r))
  BY DEF Documents!++, Has, Reads

PushReaders ==
  {"identity", "name", "number", "boolean", "date", "pdf", "text", "nonblank", "direction"}

\* A reader of document.rs and the type the schema gives the leaf.
PushCompatible(n, reader, type) ==
  /\ reader = "identity" => type = "number"
  /\ reader = "name" => type = "string"
  /\ reader = "number" => type \in {"number", "rate"}
  /\ reader = "boolean" => type = "boolean"
  /\ type = "string" => reader \in {"text", "name", "nonblank"} \/ n = "pdf"
  /\ type = "number" => reader \in {"number", "identity"}
  /\ n = "afakulcs" => type = "rate"

\* The readers of a block and the schema's types of its leaves.
PushAgrees(stream, block, readers, types) ==
  /\ DOMAIN types \subseteq DOMAIN readers
  /\ \A n \in DOMAIN types : PushCompatible(n, readers[n], types[n])
  /\ \A n \in DOMAIN readers : readers[n] \in PushReaders
  /\ \A n \in DOMAIN readers : readers[n] \in {"identity", "name"} =>
       /\ <<block, n>> \in Documents!Identity(stream)
       /\ n \in Documents!SchemaRequired(stream, block) \cap DOMAIN types
  /\ \A n \in Documents!Required(stream, block) :
       /\ n \in Documents!SchemaRequired(stream, block) \cap DOMAIN types
       /\ readers[n] \notin {"nonblank", "pdf"}

LEMMA PushAgreement ==
  ASSUME NEW stream, NEW block, NEW readers, NEW types,
         \A n : Has(types, n) => Has(readers, n),
         \A n, r, t : Reads(readers, n, r) /\ Reads(types, n, t) => PushCompatible(n, r, t),
         \A n, r : Reads(readers, n, r) => r \in PushReaders,
         \A n, r : Reads(readers, n, r) /\ r \in {"identity", "name"} =>
           /\ <<block, n>> \in Documents!Identity(stream)
           /\ n \in Documents!SchemaRequired(stream, block) /\ Has(types, n),
         \A n \in Documents!Required(stream, block) :
           /\ n \in Documents!SchemaRequired(stream, block) /\ Has(types, n)
           /\ \A r : Reads(readers, n, r) => r \notin {"nonblank", "pdf"}
  PROVE  PushAgrees(stream, block, readers, types)
<1>1. \A n \in DOMAIN readers : Reads(readers, n, readers[n])
  BY DEF Reads
<1>2. \A n \in DOMAIN types : Reads(types, n, types[n]) /\ n \in DOMAIN readers
  BY DEF Reads, Has
<1>3. \A n : Has(types, n) <=> n \in DOMAIN types
  BY DEF Has
<1> QED BY <1>1, <1>2, <1>3 DEF PushAgrees

LEMMA InvoiceRoot ==
  ASSUME NEW stream \in Documents!Invoices
  PROVE  PushAgrees(stream, "root", Documents!InvoiceDocument,
                    Documents!SchemaInvoice(stream).root)
<1> DEFINE readers == Documents!InvoiceDocument
           types == Documents!SchemaInvoice(stream).root
<1>1. ASSUME NEW n, Has(types, n) PROVE Has(readers, n)
  BY <1>1, AllHas, BothHave
  DEF Documents!InvoiceDocument, Documents!SchemaInvoice, Documents!Typed
<1>2. ASSUME NEW n, NEW r, NEW t, Reads(readers, n, r), Reads(types, n, t)
      PROVE  PushCompatible(n, r, t)
  BY <1>2, AllReads, BothRead, AllHas, BothHave
  DEF Documents!InvoiceDocument, Documents!SchemaInvoice, Documents!Typed, PushCompatible
<1>5. ASSUME NEW n, NEW r, Reads(readers, n, r) PROVE r \in PushReaders
  BY <1>5, AllReads, BothRead DEF Documents!InvoiceDocument, PushReaders
<1>3. ASSUME NEW n, NEW r, Reads(readers, n, r), r \in {"identity", "name"}
      PROVE  /\ <<"root", n>> \in Documents!Identity(stream)
             /\ n \in Documents!SchemaRequired(stream, "root") /\ Has(types, n)
  BY <1>3, AllReads, BothRead, AllHas, BothHave
  DEF Documents!InvoiceDocument, Documents!SchemaInvoice, Documents!Typed, Documents!Identity,
      Documents!SchemaRequired, Documents!Invoices
<1>4. ASSUME NEW n \in Documents!Required(stream, "root")
      PROVE  /\ n \in Documents!SchemaRequired(stream, "root") /\ Has(types, n)
             /\ \A r : Reads(readers, n, r) => r \notin {"nonblank", "pdf"}
  BY <1>4, AllReads, BothRead, AllHas, BothHave
  DEF Documents!InvoiceDocument, Documents!SchemaInvoice, Documents!Typed, Documents!Required,
      Documents!InvoiceRequired, Documents!SchemaRequired, Documents!Invoices
<1> QED BY <1>1, <1>2, <1>3, <1>4, <1>5, PushAgreement

LEMMA InvoiceAlap ==
  ASSUME NEW stream \in Documents!Invoices
  PROVE  PushAgrees(stream, "alap", Documents!InvoiceInfo, Documents!SchemaInvoice(stream).alap)
<1> DEFINE readers == Documents!InvoiceInfo
           types == Documents!SchemaInvoice(stream).alap
<1>1. ASSUME NEW n, Has(types, n) PROVE Has(readers, n)
  BY <1>1, AllHas, BothHave DEF Documents!InvoiceInfo, Documents!SchemaInvoice, Documents!Typed
<1>2. ASSUME NEW n, NEW r, NEW t, Reads(readers, n, r), Reads(types, n, t)
      PROVE  PushCompatible(n, r, t)
  BY <1>2, AllReads, BothRead, AllHas, BothHave
  DEF Documents!InvoiceInfo, Documents!SchemaInvoice, Documents!Typed, PushCompatible
<1>5. ASSUME NEW n, NEW r, Reads(readers, n, r) PROVE r \in PushReaders
  BY <1>5, AllReads, BothRead DEF Documents!InvoiceInfo, PushReaders
<1>3. ASSUME NEW n, NEW r, Reads(readers, n, r), r \in {"identity", "name"}
      PROVE  /\ <<"alap", n>> \in Documents!Identity(stream)
             /\ n \in Documents!SchemaRequired(stream, "alap") /\ Has(types, n)
  BY <1>3, AllReads, BothRead, AllHas, BothHave
  DEF Documents!InvoiceInfo, Documents!SchemaInvoice, Documents!Typed, Documents!Identity,
      Documents!SchemaRequired, Documents!Invoices
<1>4. ASSUME NEW n \in Documents!Required(stream, "alap")
      PROVE  /\ n \in Documents!SchemaRequired(stream, "alap") /\ Has(types, n)
             /\ \A r : Reads(readers, n, r) => r \notin {"nonblank", "pdf"}
  BY <1>4, AllReads, BothRead, AllHas, BothHave
  DEF Documents!InvoiceInfo, Documents!SchemaInvoice, Documents!Typed, Documents!Required,
      Documents!InvoiceRequired, Documents!SchemaRequired, Documents!Invoices
<1> QED BY <1>1, <1>2, <1>3, <1>4, <1>5, PushAgreement

LEMMA InvoiceSzallito ==
  ASSUME NEW stream \in Documents!Invoices
  PROVE  PushAgrees(stream, "szallito", Documents!Party, Documents!SchemaInvoice(stream).szallito)
<1> DEFINE readers == Documents!Party
           types == Documents!SchemaInvoice(stream).szallito
<1>1. ASSUME NEW n, Has(types, n) PROVE Has(readers, n)
  BY <1>1, AllHas, BothHave DEF Documents!Party, Documents!SchemaInvoice, Documents!Typed
<1>2. ASSUME NEW n, NEW r, NEW t, Reads(readers, n, r), Reads(types, n, t)
      PROVE  PushCompatible(n, r, t)
  BY <1>2, AllReads, BothRead, AllHas, BothHave
  DEF Documents!Party, Documents!SchemaInvoice, Documents!Typed, PushCompatible
<1>5. ASSUME NEW n, NEW r, Reads(readers, n, r) PROVE r \in PushReaders
  BY <1>5, AllReads, BothRead DEF Documents!Party, PushReaders
<1>3. ASSUME NEW n, NEW r, Reads(readers, n, r), r \in {"identity", "name"}
      PROVE  /\ <<"szallito", n>> \in Documents!Identity(stream)
             /\ n \in Documents!SchemaRequired(stream, "szallito") /\ Has(types, n)
  BY <1>3, AllReads, BothRead, AllHas, BothHave
  DEF Documents!Party, Documents!SchemaInvoice, Documents!Typed, Documents!Identity,
      Documents!SchemaRequired, Documents!Invoices
<1>4. ASSUME NEW n \in Documents!Required(stream, "szallito")
      PROVE  /\ n \in Documents!SchemaRequired(stream, "szallito") /\ Has(types, n)
             /\ \A r : Reads(readers, n, r) => r \notin {"nonblank", "pdf"}
  BY <1>4, AllReads, BothRead, AllHas, BothHave
  DEF Documents!Party, Documents!SchemaInvoice, Documents!Typed, Documents!Required,
      Documents!InvoiceRequired, Documents!SchemaRequired, Documents!Invoices
<1> QED BY <1>1, <1>2, <1>3, <1>4, <1>5, PushAgreement

LEMMA InvoiceSzallitoCim ==
  ASSUME NEW stream \in Documents!Invoices
  PROVE  PushAgrees(stream, "szallito_cim", Documents!Address,
                    Documents!SchemaInvoice(stream).szallito_cim)
<1> DEFINE readers == Documents!Address
           types == Documents!SchemaInvoice(stream).szallito_cim
<1>1. ASSUME NEW n, Has(types, n) PROVE Has(readers, n)
  BY <1>1, AllHas, BothHave
  DEF Documents!Address, Documents!SchemaInvoice, Documents!Typed, Documents!SchemaAddress
<1>2. ASSUME NEW n, NEW r, NEW t, Reads(readers, n, r), Reads(types, n, t)
      PROVE  PushCompatible(n, r, t)
  BY <1>2, AllReads, BothRead, AllHas, BothHave
  DEF Documents!Address, Documents!SchemaInvoice, Documents!Typed, Documents!SchemaAddress,
      PushCompatible
<1>5. ASSUME NEW n, NEW r, Reads(readers, n, r) PROVE r \in PushReaders
  BY <1>5, AllReads, BothRead DEF Documents!Address, PushReaders
<1>3. ASSUME NEW n, NEW r, Reads(readers, n, r), r \in {"identity", "name"}
      PROVE  /\ <<"szallito_cim", n>> \in Documents!Identity(stream)
             /\ n \in Documents!SchemaRequired(stream, "szallito_cim") /\ Has(types, n)
  BY <1>3, AllReads, BothRead, AllHas, BothHave
  DEF Documents!Address, Documents!SchemaInvoice, Documents!Typed, Documents!SchemaAddress,
      Documents!Identity, Documents!SchemaRequired, Documents!Invoices
<1>4. ASSUME NEW n \in Documents!Required(stream, "szallito_cim")
      PROVE  /\ n \in Documents!SchemaRequired(stream, "szallito_cim") /\ Has(types, n)
             /\ \A r : Reads(readers, n, r) => r \notin {"nonblank", "pdf"}
  BY <1>4, AllReads, BothRead, AllHas, BothHave
  DEF Documents!Address, Documents!SchemaInvoice, Documents!Typed, Documents!SchemaAddress,
      Documents!Required, Documents!InvoiceRequired, Documents!SchemaRequired, Documents!Invoices
<1> QED BY <1>1, <1>2, <1>3, <1>4, <1>5, PushAgreement

LEMMA InvoiceSzallitoPostacim ==
  ASSUME NEW stream \in Documents!Invoices
  PROVE  PushAgrees(stream, "szallito_postacim", Documents!Address,
                    Documents!SchemaInvoice(stream).szallito_postacim)
<1> DEFINE readers == Documents!Address
           types == Documents!SchemaInvoice(stream).szallito_postacim
<1>1. ASSUME NEW n, Has(types, n) PROVE Has(readers, n)
  BY <1>1, AllHas, BothHave
  DEF Documents!Address, Documents!SchemaInvoice, Documents!Typed, Documents!SchemaAddress,
      Documents!SchemaPostal
<1>2. ASSUME NEW n, NEW r, NEW t, Reads(readers, n, r), Reads(types, n, t)
      PROVE  PushCompatible(n, r, t)
  BY <1>2, AllReads, BothRead, AllHas, BothHave
  DEF Documents!Address, Documents!SchemaInvoice, Documents!Typed, Documents!SchemaAddress,
      Documents!SchemaPostal, PushCompatible
<1>5. ASSUME NEW n, NEW r, Reads(readers, n, r) PROVE r \in PushReaders
  BY <1>5, AllReads, BothRead DEF Documents!Address, PushReaders
<1>3. ASSUME NEW n, NEW r, Reads(readers, n, r), r \in {"identity", "name"}
      PROVE  /\ <<"szallito_postacim", n>> \in Documents!Identity(stream)
             /\ n \in Documents!SchemaRequired(stream, "szallito_postacim") /\ Has(types, n)
  BY <1>3, AllReads, BothRead, AllHas, BothHave
  DEF Documents!Address, Documents!SchemaInvoice, Documents!Typed, Documents!SchemaAddress,
      Documents!SchemaPostal, Documents!Identity, Documents!SchemaRequired, Documents!Invoices
<1>4. ASSUME NEW n \in Documents!Required(stream, "szallito_postacim")
      PROVE  /\ n \in Documents!SchemaRequired(stream, "szallito_postacim") /\ Has(types, n)
             /\ \A r : Reads(readers, n, r) => r \notin {"nonblank", "pdf"}
  BY <1>4, AllReads, BothRead, AllHas, BothHave
  DEF Documents!Address, Documents!SchemaInvoice, Documents!Typed, Documents!SchemaAddress,
      Documents!SchemaPostal, Documents!Required, Documents!InvoiceRequired,
      Documents!SchemaRequired, Documents!Invoices
<1> QED BY <1>1, <1>2, <1>3, <1>4, <1>5, PushAgreement

LEMMA InvoiceSzallitoBank ==
  ASSUME NEW stream \in Documents!Invoices
  PROVE  PushAgrees(stream, "szallito_bank", Documents!Bank,
                    Documents!SchemaInvoice(stream).szallito_bank)
<1> DEFINE readers == Documents!Bank
           types == Documents!SchemaInvoice(stream).szallito_bank
<1>1. ASSUME NEW n, Has(types, n) PROVE Has(readers, n)
  BY <1>1, AllHas, BothHave DEF Documents!Bank, Documents!SchemaInvoice, Documents!Typed
<1>2. ASSUME NEW n, NEW r, NEW t, Reads(readers, n, r), Reads(types, n, t)
      PROVE  PushCompatible(n, r, t)
  BY <1>2, AllReads, BothRead, AllHas, BothHave
  DEF Documents!Bank, Documents!SchemaInvoice, Documents!Typed, PushCompatible
<1>5. ASSUME NEW n, NEW r, Reads(readers, n, r) PROVE r \in PushReaders
  BY <1>5, AllReads, BothRead DEF Documents!Bank, PushReaders
<1>3. ASSUME NEW n, NEW r, Reads(readers, n, r), r \in {"identity", "name"}
      PROVE  /\ <<"szallito_bank", n>> \in Documents!Identity(stream)
             /\ n \in Documents!SchemaRequired(stream, "szallito_bank") /\ Has(types, n)
  BY <1>3, AllReads, BothRead, AllHas, BothHave
  DEF Documents!Bank, Documents!SchemaInvoice, Documents!Typed, Documents!Identity,
      Documents!SchemaRequired, Documents!Invoices
<1>4. ASSUME NEW n \in Documents!Required(stream, "szallito_bank")
      PROVE  /\ n \in Documents!SchemaRequired(stream, "szallito_bank") /\ Has(types, n)
             /\ \A r : Reads(readers, n, r) => r \notin {"nonblank", "pdf"}
  BY <1>4, AllReads, BothRead, AllHas, BothHave
  DEF Documents!Bank, Documents!SchemaInvoice, Documents!Typed, Documents!Required,
      Documents!InvoiceRequired, Documents!SchemaRequired, Documents!Invoices
<1> QED BY <1>1, <1>2, <1>3, <1>4, <1>5, PushAgreement

LEMMA InvoiceVevo ==
  ASSUME NEW stream \in Documents!Invoices
  PROVE  PushAgrees(stream, "vevo", Documents!Party, Documents!SchemaInvoice(stream).vevo)
<1> DEFINE readers == Documents!Party
           types == Documents!SchemaInvoice(stream).vevo
<1>1. ASSUME NEW n, Has(types, n) PROVE Has(readers, n)
  BY <1>1, AllHas, BothHave DEF Documents!Party, Documents!SchemaInvoice, Documents!Typed
<1>2. ASSUME NEW n, NEW r, NEW t, Reads(readers, n, r), Reads(types, n, t)
      PROVE  PushCompatible(n, r, t)
  BY <1>2, AllReads, BothRead, AllHas, BothHave
  DEF Documents!Party, Documents!SchemaInvoice, Documents!Typed, PushCompatible
<1>5. ASSUME NEW n, NEW r, Reads(readers, n, r) PROVE r \in PushReaders
  BY <1>5, AllReads, BothRead DEF Documents!Party, PushReaders
<1>3. ASSUME NEW n, NEW r, Reads(readers, n, r), r \in {"identity", "name"}
      PROVE  /\ <<"vevo", n>> \in Documents!Identity(stream)
             /\ n \in Documents!SchemaRequired(stream, "vevo") /\ Has(types, n)
  BY <1>3, AllReads, BothRead, AllHas, BothHave
  DEF Documents!Party, Documents!SchemaInvoice, Documents!Typed, Documents!Identity,
      Documents!SchemaRequired, Documents!Invoices
<1>4. ASSUME NEW n \in Documents!Required(stream, "vevo")
      PROVE  /\ n \in Documents!SchemaRequired(stream, "vevo") /\ Has(types, n)
             /\ \A r : Reads(readers, n, r) => r \notin {"nonblank", "pdf"}
  BY <1>4, AllReads, BothRead, AllHas, BothHave
  DEF Documents!Party, Documents!SchemaInvoice, Documents!Typed, Documents!Required,
      Documents!InvoiceRequired, Documents!BuyerRequired, Documents!SchemaRequired,
      Documents!Invoices
<1> QED BY <1>1, <1>2, <1>3, <1>4, <1>5, PushAgreement

LEMMA InvoiceVevoCim ==
  ASSUME NEW stream \in Documents!Invoices
  PROVE  PushAgrees(stream, "vevo_cim", Documents!Address,
                    Documents!SchemaInvoice(stream).vevo_cim)
<1> DEFINE readers == Documents!Address
           types == Documents!SchemaInvoice(stream).vevo_cim
<1>1. ASSUME NEW n, Has(types, n) PROVE Has(readers, n)
  BY <1>1, AllHas, BothHave
  DEF Documents!Address, Documents!SchemaInvoice, Documents!Typed, Documents!SchemaAddress
<1>2. ASSUME NEW n, NEW r, NEW t, Reads(readers, n, r), Reads(types, n, t)
      PROVE  PushCompatible(n, r, t)
  BY <1>2, AllReads, BothRead, AllHas, BothHave
  DEF Documents!Address, Documents!SchemaInvoice, Documents!Typed, Documents!SchemaAddress,
      PushCompatible
<1>5. ASSUME NEW n, NEW r, Reads(readers, n, r) PROVE r \in PushReaders
  BY <1>5, AllReads, BothRead DEF Documents!Address, PushReaders
<1>3. ASSUME NEW n, NEW r, Reads(readers, n, r), r \in {"identity", "name"}
      PROVE  /\ <<"vevo_cim", n>> \in Documents!Identity(stream)
             /\ n \in Documents!SchemaRequired(stream, "vevo_cim") /\ Has(types, n)
  BY <1>3, AllReads, BothRead, AllHas, BothHave
  DEF Documents!Address, Documents!SchemaInvoice, Documents!Typed, Documents!SchemaAddress,
      Documents!Identity, Documents!SchemaRequired, Documents!Invoices
<1>4. ASSUME NEW n \in Documents!Required(stream, "vevo_cim")
      PROVE  /\ n \in Documents!SchemaRequired(stream, "vevo_cim") /\ Has(types, n)
             /\ \A r : Reads(readers, n, r) => r \notin {"nonblank", "pdf"}
  BY <1>4, AllReads, BothRead, AllHas, BothHave
  DEF Documents!Address, Documents!SchemaInvoice, Documents!Typed, Documents!SchemaAddress,
      Documents!Required, Documents!InvoiceRequired, Documents!SchemaRequired, Documents!Invoices
<1> QED BY <1>1, <1>2, <1>3, <1>4, <1>5, PushAgreement

LEMMA InvoiceVevoPostacim ==
  ASSUME NEW stream \in Documents!Invoices
  PROVE  PushAgrees(stream, "vevo_postacim", Documents!Address,
                    Documents!SchemaInvoice(stream).vevo_postacim)
<1> DEFINE readers == Documents!Address
           types == Documents!SchemaInvoice(stream).vevo_postacim
<1>1. ASSUME NEW n, Has(types, n) PROVE Has(readers, n)
  BY <1>1, AllHas, BothHave
  DEF Documents!Address, Documents!SchemaInvoice, Documents!Typed, Documents!SchemaPostal
<1>2. ASSUME NEW n, NEW r, NEW t, Reads(readers, n, r), Reads(types, n, t)
      PROVE  PushCompatible(n, r, t)
  BY <1>2, AllReads, BothRead, AllHas, BothHave
  DEF Documents!Address, Documents!SchemaInvoice, Documents!Typed, Documents!SchemaPostal,
      PushCompatible
<1>5. ASSUME NEW n, NEW r, Reads(readers, n, r) PROVE r \in PushReaders
  BY <1>5, AllReads, BothRead DEF Documents!Address, PushReaders
<1>3. ASSUME NEW n, NEW r, Reads(readers, n, r), r \in {"identity", "name"}
      PROVE  /\ <<"vevo_postacim", n>> \in Documents!Identity(stream)
             /\ n \in Documents!SchemaRequired(stream, "vevo_postacim") /\ Has(types, n)
  BY <1>3, AllReads, BothRead, AllHas, BothHave
  DEF Documents!Address, Documents!SchemaInvoice, Documents!Typed, Documents!SchemaPostal,
      Documents!Identity, Documents!SchemaRequired, Documents!Invoices
<1>4. ASSUME NEW n \in Documents!Required(stream, "vevo_postacim")
      PROVE  /\ n \in Documents!SchemaRequired(stream, "vevo_postacim") /\ Has(types, n)
             /\ \A r : Reads(readers, n, r) => r \notin {"nonblank", "pdf"}
  BY <1>4, AllReads, BothRead, AllHas, BothHave
  DEF Documents!Address, Documents!SchemaInvoice, Documents!Typed, Documents!SchemaPostal,
      Documents!Required, Documents!InvoiceRequired, Documents!SchemaRequired, Documents!Invoices
<1> QED BY <1>1, <1>2, <1>3, <1>4, <1>5, PushAgreement

LEMMA InvoiceVevoFokonyv ==
  ASSUME NEW stream \in Documents!Invoices
  PROVE  PushAgrees(stream, "vevo_fokonyv", Documents!BuyerLedger,
                    Documents!SchemaInvoice(stream).vevo_fokonyv)
<1> DEFINE readers == Documents!BuyerLedger
           types == Documents!SchemaInvoice(stream).vevo_fokonyv
<1>1. ASSUME NEW n, Has(types, n) PROVE Has(readers, n)
  BY <1>1, AllHas, BothHave DEF Documents!BuyerLedger, Documents!SchemaInvoice, Documents!Typed
<1>2. ASSUME NEW n, NEW r, NEW t, Reads(readers, n, r), Reads(types, n, t)
      PROVE  PushCompatible(n, r, t)
  BY <1>2, AllReads, BothRead, AllHas, BothHave
  DEF Documents!BuyerLedger, Documents!SchemaInvoice, Documents!Typed, PushCompatible
<1>5. ASSUME NEW n, NEW r, Reads(readers, n, r) PROVE r \in PushReaders
  BY <1>5, AllReads, BothRead DEF Documents!BuyerLedger, PushReaders
<1>3. ASSUME NEW n, NEW r, Reads(readers, n, r), r \in {"identity", "name"}
      PROVE  /\ <<"vevo_fokonyv", n>> \in Documents!Identity(stream)
             /\ n \in Documents!SchemaRequired(stream, "vevo_fokonyv") /\ Has(types, n)
  BY <1>3, AllReads, BothRead, AllHas, BothHave
  DEF Documents!BuyerLedger, Documents!SchemaInvoice, Documents!Typed, Documents!Identity,
      Documents!SchemaRequired, Documents!Invoices
<1>4. ASSUME NEW n \in Documents!Required(stream, "vevo_fokonyv")
      PROVE  /\ n \in Documents!SchemaRequired(stream, "vevo_fokonyv") /\ Has(types, n)
             /\ \A r : Reads(readers, n, r) => r \notin {"nonblank", "pdf"}
  BY <1>4, AllReads, BothRead, AllHas, BothHave
  DEF Documents!BuyerLedger, Documents!SchemaInvoice, Documents!Typed, Documents!Required,
      Documents!InvoiceRequired, Documents!SchemaRequired, Documents!Invoices
<1> QED BY <1>1, <1>2, <1>3, <1>4, <1>5, PushAgreement

LEMMA InvoiceTetel ==
  ASSUME NEW stream \in Documents!Invoices
  PROVE  PushAgrees(stream, "tetel", Documents!InvoiceItem, Documents!SchemaInvoice(stream).tetel)
<1> DEFINE readers == Documents!InvoiceItem
           types == Documents!SchemaInvoice(stream).tetel
<1>1. ASSUME NEW n, Has(types, n) PROVE Has(readers, n)
  BY <1>1, AllHas, BothHave DEF Documents!InvoiceItem, Documents!SchemaInvoice, Documents!Typed
<1>2. ASSUME NEW n, NEW r, NEW t, Reads(readers, n, r), Reads(types, n, t)
      PROVE  PushCompatible(n, r, t)
  BY <1>2, AllReads, BothRead, AllHas, BothHave
  DEF Documents!InvoiceItem, Documents!SchemaInvoice, Documents!Typed, PushCompatible
<1>5. ASSUME NEW n, NEW r, Reads(readers, n, r) PROVE r \in PushReaders
  BY <1>5, AllReads, BothRead DEF Documents!InvoiceItem, PushReaders
<1>3. ASSUME NEW n, NEW r, Reads(readers, n, r), r \in {"identity", "name"}
      PROVE  /\ <<"tetel", n>> \in Documents!Identity(stream)
             /\ n \in Documents!SchemaRequired(stream, "tetel") /\ Has(types, n)
  BY <1>3, AllReads, BothRead, AllHas, BothHave
  DEF Documents!InvoiceItem, Documents!SchemaInvoice, Documents!Typed, Documents!Identity,
      Documents!SchemaRequired, Documents!Invoices
<1>4. ASSUME NEW n \in Documents!Required(stream, "tetel")
      PROVE  /\ n \in Documents!SchemaRequired(stream, "tetel") /\ Has(types, n)
             /\ \A r : Reads(readers, n, r) => r \notin {"nonblank", "pdf"}
  BY <1>4, AllReads, BothRead, AllHas, BothHave
  DEF Documents!InvoiceItem, Documents!SchemaInvoice, Documents!Typed, Documents!Required,
      Documents!InvoiceRequired, Documents!ItemRequired, Documents!SchemaRequired,
      Documents!Invoices
<1> QED BY <1>1, <1>2, <1>3, <1>4, <1>5, PushAgreement

LEMMA InvoiceTetelFokonyv ==
  ASSUME NEW stream \in Documents!Invoices
  PROVE  PushAgrees(stream, "tetel_fokonyv", Documents!InvoiceItemLedger,
                    Documents!SchemaInvoice(stream).tetel_fokonyv)
<1> DEFINE readers == Documents!InvoiceItemLedger
           types == Documents!SchemaInvoice(stream).tetel_fokonyv
<1>1. ASSUME NEW n, Has(types, n) PROVE Has(readers, n)
  BY <1>1, AllHas, BothHave
  DEF Documents!InvoiceItemLedger, Documents!SchemaInvoice, Documents!Typed
<1>2. ASSUME NEW n, NEW r, NEW t, Reads(readers, n, r), Reads(types, n, t)
      PROVE  PushCompatible(n, r, t)
  BY <1>2, AllReads, BothRead, AllHas, BothHave
  DEF Documents!InvoiceItemLedger, Documents!SchemaInvoice, Documents!Typed, PushCompatible
<1>5. ASSUME NEW n, NEW r, Reads(readers, n, r) PROVE r \in PushReaders
  BY <1>5, AllReads, BothRead DEF Documents!InvoiceItemLedger, PushReaders
<1>3. ASSUME NEW n, NEW r, Reads(readers, n, r), r \in {"identity", "name"}
      PROVE  /\ <<"tetel_fokonyv", n>> \in Documents!Identity(stream)
             /\ n \in Documents!SchemaRequired(stream, "tetel_fokonyv") /\ Has(types, n)
  BY <1>3, AllReads, BothRead, AllHas, BothHave
  DEF Documents!InvoiceItemLedger, Documents!SchemaInvoice, Documents!Typed, Documents!Identity,
      Documents!SchemaRequired, Documents!Invoices
<1>4. ASSUME NEW n \in Documents!Required(stream, "tetel_fokonyv")
      PROVE  /\ n \in Documents!SchemaRequired(stream, "tetel_fokonyv") /\ Has(types, n)
             /\ \A r : Reads(readers, n, r) => r \notin {"nonblank", "pdf"}
  BY <1>4, AllReads, BothRead, AllHas, BothHave
  DEF Documents!InvoiceItemLedger, Documents!SchemaInvoice, Documents!Typed, Documents!Required,
      Documents!InvoiceRequired, Documents!SchemaRequired, Documents!Invoices
<1> QED BY <1>1, <1>2, <1>3, <1>4, <1>5, PushAgreement

LEMMA InvoiceQutet ==
  ASSUME NEW stream \in Documents!Invoices
  PROVE  PushAgrees(stream, "qutet", Documents!FinancialItem,
                    Documents!SchemaInvoice(stream).qutet)
<1> DEFINE readers == Documents!FinancialItem
           types == Documents!SchemaInvoice(stream).qutet
<1>1. ASSUME NEW n, Has(types, n) PROVE Has(readers, n)
  BY <1>1, AllHas, BothHave DEF Documents!FinancialItem, Documents!SchemaInvoice, Documents!Typed
<1>2. ASSUME NEW n, NEW r, NEW t, Reads(readers, n, r), Reads(types, n, t)
      PROVE  PushCompatible(n, r, t)
  BY <1>2, AllReads, BothRead, AllHas, BothHave
  DEF Documents!FinancialItem, Documents!SchemaInvoice, Documents!Typed, PushCompatible
<1>5. ASSUME NEW n, NEW r, Reads(readers, n, r) PROVE r \in PushReaders
  BY <1>5, AllReads, BothRead DEF Documents!FinancialItem, PushReaders
<1>3. ASSUME NEW n, NEW r, Reads(readers, n, r), r \in {"identity", "name"}
      PROVE  /\ <<"qutet", n>> \in Documents!Identity(stream)
             /\ n \in Documents!SchemaRequired(stream, "qutet") /\ Has(types, n)
  BY <1>3, AllReads, BothRead, AllHas, BothHave
  DEF Documents!FinancialItem, Documents!SchemaInvoice, Documents!Typed, Documents!Identity,
      Documents!SchemaRequired, Documents!Invoices
<1>4. ASSUME NEW n \in Documents!Required(stream, "qutet")
      PROVE  /\ n \in Documents!SchemaRequired(stream, "qutet") /\ Has(types, n)
             /\ \A r : Reads(readers, n, r) => r \notin {"nonblank", "pdf"}
  BY <1>4, AllReads, BothRead, AllHas, BothHave
  DEF Documents!FinancialItem, Documents!SchemaInvoice, Documents!Typed, Documents!Required,
      Documents!InvoiceRequired, Documents!SchemaRequired, Documents!Invoices
<1> QED BY <1>1, <1>2, <1>3, <1>4, <1>5, PushAgreement

LEMMA InvoiceAfakulcsossz ==
  ASSUME NEW stream \in Documents!Invoices
  PROVE  PushAgrees(stream, "afakulcsossz", Documents!VatTotal,
                    Documents!SchemaInvoice(stream).afakulcsossz)
<1> DEFINE readers == Documents!VatTotal
           types == Documents!SchemaInvoice(stream).afakulcsossz
<1>1. ASSUME NEW n, Has(types, n) PROVE Has(readers, n)
  BY <1>1, AllHas, BothHave
  DEF Documents!VatTotal, Documents!SchemaInvoice, Documents!Typed, Documents!SchemaRates
<1>2. ASSUME NEW n, NEW r, NEW t, Reads(readers, n, r), Reads(types, n, t)
      PROVE  PushCompatible(n, r, t)
  BY <1>2, AllReads, BothRead, AllHas, BothHave
  DEF Documents!VatTotal, Documents!SchemaInvoice, Documents!Typed, Documents!SchemaRates,
      PushCompatible
<1>5. ASSUME NEW n, NEW r, Reads(readers, n, r) PROVE r \in PushReaders
  BY <1>5, AllReads, BothRead DEF Documents!VatTotal, PushReaders
<1>3. ASSUME NEW n, NEW r, Reads(readers, n, r), r \in {"identity", "name"}
      PROVE  /\ <<"afakulcsossz", n>> \in Documents!Identity(stream)
             /\ n \in Documents!SchemaRequired(stream, "afakulcsossz") /\ Has(types, n)
  BY <1>3, AllReads, BothRead, AllHas, BothHave
  DEF Documents!VatTotal, Documents!SchemaInvoice, Documents!Typed, Documents!SchemaRates,
      Documents!Identity, Documents!SchemaRequired, Documents!Invoices
<1>4. ASSUME NEW n \in Documents!Required(stream, "afakulcsossz")
      PROVE  /\ n \in Documents!SchemaRequired(stream, "afakulcsossz") /\ Has(types, n)
             /\ \A r : Reads(readers, n, r) => r \notin {"nonblank", "pdf"}
  BY <1>4, AllReads, BothRead, AllHas, BothHave
  DEF Documents!VatTotal, Documents!SchemaInvoice, Documents!Typed, Documents!SchemaRates,
      Documents!Required, Documents!InvoiceRequired, Documents!TotalRequired,
      Documents!SchemaRequired, Documents!Invoices
<1> QED BY <1>1, <1>2, <1>3, <1>4, <1>5, PushAgreement

LEMMA InvoiceTotalossz ==
  ASSUME NEW stream \in Documents!Invoices
  PROVE  PushAgrees(stream, "totalossz", Documents!VatTotal,
                    Documents!SchemaInvoice(stream).totalossz)
<1> DEFINE readers == Documents!VatTotal
           types == Documents!SchemaInvoice(stream).totalossz
<1>1. ASSUME NEW n, Has(types, n) PROVE Has(readers, n)
  BY <1>1, AllHas, BothHave
  DEF Documents!VatTotal, Documents!SchemaInvoice, Documents!Typed, Documents!SchemaGrand
<1>2. ASSUME NEW n, NEW r, NEW t, Reads(readers, n, r), Reads(types, n, t)
      PROVE  PushCompatible(n, r, t)
  BY <1>2, AllReads, BothRead, AllHas, BothHave
  DEF Documents!VatTotal, Documents!SchemaInvoice, Documents!Typed, Documents!SchemaGrand,
      PushCompatible
<1>5. ASSUME NEW n, NEW r, Reads(readers, n, r) PROVE r \in PushReaders
  BY <1>5, AllReads, BothRead DEF Documents!VatTotal, PushReaders
<1>3. ASSUME NEW n, NEW r, Reads(readers, n, r), r \in {"identity", "name"}
      PROVE  /\ <<"totalossz", n>> \in Documents!Identity(stream)
             /\ n \in Documents!SchemaRequired(stream, "totalossz") /\ Has(types, n)
  BY <1>3, AllReads, BothRead, AllHas, BothHave
  DEF Documents!VatTotal, Documents!SchemaInvoice, Documents!Typed, Documents!SchemaGrand,
      Documents!Identity, Documents!SchemaRequired, Documents!Invoices
<1>4. ASSUME NEW n \in Documents!Required(stream, "totalossz")
      PROVE  /\ n \in Documents!SchemaRequired(stream, "totalossz") /\ Has(types, n)
             /\ \A r : Reads(readers, n, r) => r \notin {"nonblank", "pdf"}
  BY <1>4, AllReads, BothRead, AllHas, BothHave
  DEF Documents!VatTotal, Documents!SchemaInvoice, Documents!Typed, Documents!SchemaGrand,
      Documents!Required, Documents!InvoiceRequired, Documents!TotalRequired,
      Documents!SchemaRequired, Documents!Invoices
<1> QED BY <1>1, <1>2, <1>3, <1>4, <1>5, PushAgreement

LEMMA InvoiceKifizetes ==
  ASSUME NEW stream \in Documents!Invoices
  PROVE  PushAgrees(stream, "kifizetes", Documents!RecordedCreditEntry,
                    Documents!SchemaInvoice(stream).kifizetes)
<1> DEFINE readers == Documents!RecordedCreditEntry
           types == Documents!SchemaInvoice(stream).kifizetes
<1>1. ASSUME NEW n, Has(types, n) PROVE Has(readers, n)
  BY <1>1, AllHas, BothHave
  DEF Documents!RecordedCreditEntry, Documents!SchemaInvoice, Documents!Typed
<1>2. ASSUME NEW n, NEW r, NEW t, Reads(readers, n, r), Reads(types, n, t)
      PROVE  PushCompatible(n, r, t)
  BY <1>2, AllReads, BothRead, AllHas, BothHave
  DEF Documents!RecordedCreditEntry, Documents!SchemaInvoice, Documents!Typed, PushCompatible
<1>5. ASSUME NEW n, NEW r, Reads(readers, n, r) PROVE r \in PushReaders
  BY <1>5, AllReads, BothRead DEF Documents!RecordedCreditEntry, PushReaders
<1>3. ASSUME NEW n, NEW r, Reads(readers, n, r), r \in {"identity", "name"}
      PROVE  /\ <<"kifizetes", n>> \in Documents!Identity(stream)
             /\ n \in Documents!SchemaRequired(stream, "kifizetes") /\ Has(types, n)
  BY <1>3, AllReads, BothRead, AllHas, BothHave
  DEF Documents!RecordedCreditEntry, Documents!SchemaInvoice, Documents!Typed, Documents!Identity,
      Documents!SchemaRequired, Documents!Invoices
<1>4. ASSUME NEW n \in Documents!Required(stream, "kifizetes")
      PROVE  /\ n \in Documents!SchemaRequired(stream, "kifizetes") /\ Has(types, n)
             /\ \A r : Reads(readers, n, r) => r \notin {"nonblank", "pdf"}
  BY <1>4, AllReads, BothRead, AllHas, BothHave
  DEF Documents!RecordedCreditEntry, Documents!SchemaInvoice, Documents!Typed, Documents!Required,
      Documents!InvoiceRequired, Documents!SchemaRequired, Documents!Invoices
<1> QED BY <1>1, <1>2, <1>3, <1>4, <1>5, PushAgreement

LEMMA ReceiptsAlap ==
  PushAgrees("xmlnyugtaarchiv", "alap", Documents!ReceiptInfo, Documents!SchemaReceipts.alap)
<1> DEFINE readers == Documents!ReceiptInfo
           types == Documents!SchemaReceipts.alap
<1>1. ASSUME NEW n, Has(types, n) PROVE Has(readers, n)
  BY <1>1, AllHas, BothHave DEF Documents!ReceiptInfo, Documents!SchemaReceipts, Documents!Typed
<1>2. ASSUME NEW n, NEW r, NEW t, Reads(readers, n, r), Reads(types, n, t)
      PROVE  PushCompatible(n, r, t)
  BY <1>2, AllReads, BothRead, AllHas, BothHave
  DEF Documents!ReceiptInfo, Documents!SchemaReceipts, Documents!Typed, PushCompatible
<1>5. ASSUME NEW n, NEW r, Reads(readers, n, r) PROVE r \in PushReaders
  BY <1>5, AllReads, BothRead DEF Documents!ReceiptInfo, PushReaders
<1>3. ASSUME NEW n, NEW r, Reads(readers, n, r), r \in {"identity", "name"}
      PROVE  /\ <<"alap", n>> \in Documents!Identity("xmlnyugtaarchiv")
             /\ n \in Documents!SchemaRequired("xmlnyugtaarchiv", "alap") /\ Has(types, n)
  BY <1>3, AllReads, BothRead, AllHas, BothHave
  DEF Documents!ReceiptInfo, Documents!SchemaReceipts, Documents!Typed, Documents!Identity,
      Documents!SchemaRequired, Documents!Invoices
<1>4. ASSUME NEW n \in Documents!Required("xmlnyugtaarchiv", "alap")
      PROVE  /\ n \in Documents!SchemaRequired("xmlnyugtaarchiv", "alap") /\ Has(types, n)
             /\ \A r : Reads(readers, n, r) => r \notin {"nonblank", "pdf"}
  BY <1>4, AllReads, BothRead, AllHas, BothHave
  DEF Documents!ReceiptInfo, Documents!SchemaReceipts, Documents!Typed, Documents!Required,
      Documents!ReceiptRequired, Documents!SchemaRequired, Documents!Invoices
<1> QED BY <1>1, <1>2, <1>3, <1>4, <1>5, PushAgreement

LEMMA ReceiptsTetel ==
  PushAgrees("xmlnyugtaarchiv", "tetel", Documents!ReceiptItem, Documents!SchemaReceipts.tetel)
<1> DEFINE readers == Documents!ReceiptItem
           types == Documents!SchemaReceipts.tetel
<1>1. ASSUME NEW n, Has(types, n) PROVE Has(readers, n)
  BY <1>1, AllHas, BothHave DEF Documents!ReceiptItem, Documents!SchemaReceipts, Documents!Typed
<1>2. ASSUME NEW n, NEW r, NEW t, Reads(readers, n, r), Reads(types, n, t)
      PROVE  PushCompatible(n, r, t)
  BY <1>2, AllReads, BothRead, AllHas, BothHave
  DEF Documents!ReceiptItem, Documents!SchemaReceipts, Documents!Typed, PushCompatible
<1>5. ASSUME NEW n, NEW r, Reads(readers, n, r) PROVE r \in PushReaders
  BY <1>5, AllReads, BothRead DEF Documents!ReceiptItem, PushReaders
<1>3. ASSUME NEW n, NEW r, Reads(readers, n, r), r \in {"identity", "name"}
      PROVE  /\ <<"tetel", n>> \in Documents!Identity("xmlnyugtaarchiv")
             /\ n \in Documents!SchemaRequired("xmlnyugtaarchiv", "tetel") /\ Has(types, n)
  BY <1>3, AllReads, BothRead, AllHas, BothHave
  DEF Documents!ReceiptItem, Documents!SchemaReceipts, Documents!Typed, Documents!Identity,
      Documents!SchemaRequired, Documents!Invoices
<1>4. ASSUME NEW n \in Documents!Required("xmlnyugtaarchiv", "tetel")
      PROVE  /\ n \in Documents!SchemaRequired("xmlnyugtaarchiv", "tetel") /\ Has(types, n)
             /\ \A r : Reads(readers, n, r) => r \notin {"nonblank", "pdf"}
  BY <1>4, AllReads, BothRead, AllHas, BothHave
  DEF Documents!ReceiptItem, Documents!SchemaReceipts, Documents!Typed, Documents!Required,
      Documents!ReceiptRequired, Documents!SchemaRequired, Documents!Invoices
<1> QED BY <1>1, <1>2, <1>3, <1>4, <1>5, PushAgreement

LEMMA ReceiptsTetelFokonyv ==
  PushAgrees("xmlnyugtaarchiv", "tetel_fokonyv", Documents!ReceiptItemLedger,
             Documents!SchemaReceipts.tetel_fokonyv)
<1> DEFINE readers == Documents!ReceiptItemLedger
           types == Documents!SchemaReceipts.tetel_fokonyv
<1>1. ASSUME NEW n, Has(types, n) PROVE Has(readers, n)
  BY <1>1, AllHas, BothHave
  DEF Documents!ReceiptItemLedger, Documents!SchemaReceipts, Documents!Typed
<1>2. ASSUME NEW n, NEW r, NEW t, Reads(readers, n, r), Reads(types, n, t)
      PROVE  PushCompatible(n, r, t)
  BY <1>2, AllReads, BothRead, AllHas, BothHave
  DEF Documents!ReceiptItemLedger, Documents!SchemaReceipts, Documents!Typed, PushCompatible
<1>5. ASSUME NEW n, NEW r, Reads(readers, n, r) PROVE r \in PushReaders
  BY <1>5, AllReads, BothRead DEF Documents!ReceiptItemLedger, PushReaders
<1>3. ASSUME NEW n, NEW r, Reads(readers, n, r), r \in {"identity", "name"}
      PROVE  /\ <<"tetel_fokonyv", n>> \in Documents!Identity("xmlnyugtaarchiv")
             /\ n \in Documents!SchemaRequired("xmlnyugtaarchiv", "tetel_fokonyv") /\ Has(types, n)
  BY <1>3, AllReads, BothRead, AllHas, BothHave
  DEF Documents!ReceiptItemLedger, Documents!SchemaReceipts, Documents!Typed, Documents!Identity,
      Documents!SchemaRequired, Documents!Invoices
<1>4. ASSUME NEW n \in Documents!Required("xmlnyugtaarchiv", "tetel_fokonyv")
      PROVE  /\ n \in Documents!SchemaRequired("xmlnyugtaarchiv", "tetel_fokonyv") /\ Has(types, n)
             /\ \A r : Reads(readers, n, r) => r \notin {"nonblank", "pdf"}
  BY <1>4, AllReads, BothRead, AllHas, BothHave
  DEF Documents!ReceiptItemLedger, Documents!SchemaReceipts, Documents!Typed, Documents!Required,
      Documents!ReceiptRequired, Documents!SchemaRequired, Documents!Invoices
<1> QED BY <1>1, <1>2, <1>3, <1>4, <1>5, PushAgreement

LEMMA ReceiptsKifizetes ==
  PushAgrees("xmlnyugtaarchiv", "kifizetes", Documents!ReceiptPayment,
             Documents!SchemaReceipts.kifizetes)
<1> DEFINE readers == Documents!ReceiptPayment
           types == Documents!SchemaReceipts.kifizetes
<1>1. ASSUME NEW n, Has(types, n) PROVE Has(readers, n)
  BY <1>1, AllHas, BothHave
  DEF Documents!ReceiptPayment, Documents!SchemaReceipts, Documents!Typed
<1>2. ASSUME NEW n, NEW r, NEW t, Reads(readers, n, r), Reads(types, n, t)
      PROVE  PushCompatible(n, r, t)
  BY <1>2, AllReads, BothRead, AllHas, BothHave
  DEF Documents!ReceiptPayment, Documents!SchemaReceipts, Documents!Typed, PushCompatible
<1>5. ASSUME NEW n, NEW r, Reads(readers, n, r) PROVE r \in PushReaders
  BY <1>5, AllReads, BothRead DEF Documents!ReceiptPayment, PushReaders
<1>3. ASSUME NEW n, NEW r, Reads(readers, n, r), r \in {"identity", "name"}
      PROVE  /\ <<"kifizetes", n>> \in Documents!Identity("xmlnyugtaarchiv")
             /\ n \in Documents!SchemaRequired("xmlnyugtaarchiv", "kifizetes") /\ Has(types, n)
  BY <1>3, AllReads, BothRead, AllHas, BothHave
  DEF Documents!ReceiptPayment, Documents!SchemaReceipts, Documents!Typed, Documents!Identity,
      Documents!SchemaRequired, Documents!Invoices
<1>4. ASSUME NEW n \in Documents!Required("xmlnyugtaarchiv", "kifizetes")
      PROVE  /\ n \in Documents!SchemaRequired("xmlnyugtaarchiv", "kifizetes") /\ Has(types, n)
             /\ \A r : Reads(readers, n, r) => r \notin {"nonblank", "pdf"}
  BY <1>4, AllReads, BothRead, AllHas, BothHave
  DEF Documents!ReceiptPayment, Documents!SchemaReceipts, Documents!Typed, Documents!Required,
      Documents!ReceiptRequired, Documents!SchemaRequired, Documents!Invoices
<1> QED BY <1>1, <1>2, <1>3, <1>4, <1>5, PushAgreement

LEMMA ReceiptsAfakulcsossz ==
  PushAgrees("xmlnyugtaarchiv", "afakulcsossz", Documents!VatTotal,
             Documents!SchemaReceipts.afakulcsossz)
<1> DEFINE readers == Documents!VatTotal
           types == Documents!SchemaReceipts.afakulcsossz
<1>1. ASSUME NEW n, Has(types, n) PROVE Has(readers, n)
  BY <1>1, AllHas, BothHave
  DEF Documents!VatTotal, Documents!SchemaReceipts, Documents!Typed, Documents!SchemaRates
<1>2. ASSUME NEW n, NEW r, NEW t, Reads(readers, n, r), Reads(types, n, t)
      PROVE  PushCompatible(n, r, t)
  BY <1>2, AllReads, BothRead, AllHas, BothHave
  DEF Documents!VatTotal, Documents!SchemaReceipts, Documents!Typed, Documents!SchemaRates,
      PushCompatible
<1>5. ASSUME NEW n, NEW r, Reads(readers, n, r) PROVE r \in PushReaders
  BY <1>5, AllReads, BothRead DEF Documents!VatTotal, PushReaders
<1>3. ASSUME NEW n, NEW r, Reads(readers, n, r), r \in {"identity", "name"}
      PROVE  /\ <<"afakulcsossz", n>> \in Documents!Identity("xmlnyugtaarchiv")
             /\ n \in Documents!SchemaRequired("xmlnyugtaarchiv", "afakulcsossz") /\ Has(types, n)
  BY <1>3, AllReads, BothRead, AllHas, BothHave
  DEF Documents!VatTotal, Documents!SchemaReceipts, Documents!Typed, Documents!SchemaRates,
      Documents!Identity, Documents!SchemaRequired, Documents!Invoices
<1>4. ASSUME NEW n \in Documents!Required("xmlnyugtaarchiv", "afakulcsossz")
      PROVE  /\ n \in Documents!SchemaRequired("xmlnyugtaarchiv", "afakulcsossz") /\ Has(types, n)
             /\ \A r : Reads(readers, n, r) => r \notin {"nonblank", "pdf"}
  BY <1>4, AllReads, BothRead, AllHas, BothHave
  DEF Documents!VatTotal, Documents!SchemaReceipts, Documents!Typed, Documents!SchemaRates,
      Documents!Required, Documents!ReceiptRequired, Documents!TotalRequired,
      Documents!SchemaRequired, Documents!Invoices
<1> QED BY <1>1, <1>2, <1>3, <1>4, <1>5, PushAgreement

LEMMA ReceiptsTotalossz ==
  PushAgrees("xmlnyugtaarchiv", "totalossz", Documents!VatTotal,
             Documents!SchemaReceipts.totalossz)
<1> DEFINE readers == Documents!VatTotal
           types == Documents!SchemaReceipts.totalossz
<1>1. ASSUME NEW n, Has(types, n) PROVE Has(readers, n)
  BY <1>1, AllHas, BothHave
  DEF Documents!VatTotal, Documents!SchemaReceipts, Documents!Typed, Documents!SchemaGrand
<1>2. ASSUME NEW n, NEW r, NEW t, Reads(readers, n, r), Reads(types, n, t)
      PROVE  PushCompatible(n, r, t)
  BY <1>2, AllReads, BothRead, AllHas, BothHave
  DEF Documents!VatTotal, Documents!SchemaReceipts, Documents!Typed, Documents!SchemaGrand,
      PushCompatible
<1>5. ASSUME NEW n, NEW r, Reads(readers, n, r) PROVE r \in PushReaders
  BY <1>5, AllReads, BothRead DEF Documents!VatTotal, PushReaders
<1>3. ASSUME NEW n, NEW r, Reads(readers, n, r), r \in {"identity", "name"}
      PROVE  /\ <<"totalossz", n>> \in Documents!Identity("xmlnyugtaarchiv")
             /\ n \in Documents!SchemaRequired("xmlnyugtaarchiv", "totalossz") /\ Has(types, n)
  BY <1>3, AllReads, BothRead, AllHas, BothHave
  DEF Documents!VatTotal, Documents!SchemaReceipts, Documents!Typed, Documents!SchemaGrand,
      Documents!Identity, Documents!SchemaRequired, Documents!Invoices
<1>4. ASSUME NEW n \in Documents!Required("xmlnyugtaarchiv", "totalossz")
      PROVE  /\ n \in Documents!SchemaRequired("xmlnyugtaarchiv", "totalossz") /\ Has(types, n)
             /\ \A r : Reads(readers, n, r) => r \notin {"nonblank", "pdf"}
  BY <1>4, AllReads, BothRead, AllHas, BothHave
  DEF Documents!VatTotal, Documents!SchemaReceipts, Documents!Typed, Documents!SchemaGrand,
      Documents!Required, Documents!ReceiptRequired, Documents!TotalRequired,
      Documents!SchemaRequired, Documents!Invoices
<1> QED BY <1>1, <1>2, <1>3, <1>4, <1>5, PushAgreement

LEMMA TransactionRoot ==
  PushAgrees("banktranz", "root", Documents!BankTransaction, Documents!SchemaTransaction.root)
<1> DEFINE readers == Documents!BankTransaction
           types == Documents!SchemaTransaction.root
<1>1. ASSUME NEW n, Has(types, n) PROVE Has(readers, n)
  BY <1>1, AllHas, BothHave
  DEF Documents!BankTransaction, Documents!SchemaTransaction, Documents!Typed
<1>2. ASSUME NEW n, NEW r, NEW t, Reads(readers, n, r), Reads(types, n, t)
      PROVE  PushCompatible(n, r, t)
  BY <1>2, AllReads, BothRead, AllHas, BothHave
  DEF Documents!BankTransaction, Documents!SchemaTransaction, Documents!Typed, PushCompatible
<1>5. ASSUME NEW n, NEW r, Reads(readers, n, r) PROVE r \in PushReaders
  BY <1>5, AllReads, BothRead DEF Documents!BankTransaction, PushReaders
<1>3. ASSUME NEW n, NEW r, Reads(readers, n, r), r \in {"identity", "name"}
      PROVE  /\ <<"root", n>> \in Documents!Identity("banktranz")
             /\ n \in Documents!SchemaRequired("banktranz", "root") /\ Has(types, n)
  BY <1>3, AllReads, BothRead, AllHas, BothHave
  DEF Documents!BankTransaction, Documents!SchemaTransaction, Documents!Typed, Documents!Identity,
      Documents!SchemaRequired, Documents!Invoices
<1>4. ASSUME NEW n \in Documents!Required("banktranz", "root")
      PROVE  /\ n \in Documents!SchemaRequired("banktranz", "root") /\ Has(types, n)
             /\ \A r : Reads(readers, n, r) => r \notin {"nonblank", "pdf"}
  BY <1>4, AllReads, BothRead, AllHas, BothHave
  DEF Documents!BankTransaction, Documents!SchemaTransaction, Documents!Typed, Documents!Required,
      Documents!TransactionRequired, Documents!SchemaRequired, Documents!Invoices
<1> QED BY <1>1, <1>2, <1>3, <1>4, <1>5, PushAgreement

LEMMA TransactionPartner ==
  PushAgrees("banktranz", "partner", Documents!TransactionPartner,
             Documents!SchemaTransaction.partner)
<1> DEFINE readers == Documents!TransactionPartner
           types == Documents!SchemaTransaction.partner
<1>1. ASSUME NEW n, Has(types, n) PROVE Has(readers, n)
  BY <1>1, AllHas, BothHave
  DEF Documents!TransactionPartner, Documents!SchemaTransaction, Documents!Typed
<1>2. ASSUME NEW n, NEW r, NEW t, Reads(readers, n, r), Reads(types, n, t)
      PROVE  PushCompatible(n, r, t)
  BY <1>2, AllReads, BothRead, AllHas, BothHave
  DEF Documents!TransactionPartner, Documents!SchemaTransaction, Documents!Typed, PushCompatible
<1>5. ASSUME NEW n, NEW r, Reads(readers, n, r) PROVE r \in PushReaders
  BY <1>5, AllReads, BothRead DEF Documents!TransactionPartner, PushReaders
<1>3. ASSUME NEW n, NEW r, Reads(readers, n, r), r \in {"identity", "name"}
      PROVE  /\ <<"partner", n>> \in Documents!Identity("banktranz")
             /\ n \in Documents!SchemaRequired("banktranz", "partner") /\ Has(types, n)
  BY <1>3, AllReads, BothRead, AllHas, BothHave
  DEF Documents!TransactionPartner, Documents!SchemaTransaction, Documents!Typed,
      Documents!Identity, Documents!SchemaRequired, Documents!Invoices
<1>4. ASSUME NEW n \in Documents!Required("banktranz", "partner")
      PROVE  /\ n \in Documents!SchemaRequired("banktranz", "partner") /\ Has(types, n)
             /\ \A r : Reads(readers, n, r) => r \notin {"nonblank", "pdf"}
  BY <1>4, AllReads, BothRead, AllHas, BothHave
  DEF Documents!TransactionPartner, Documents!SchemaTransaction, Documents!Typed,
      Documents!Required, Documents!TransactionRequired, Documents!SchemaRequired,
      Documents!Invoices
<1> QED BY <1>1, <1>2, <1>3, <1>4, <1>5, PushAgreement

\* The tables of a stream.
StreamAgrees(stream) ==
  /\ DOMAIN Documents!Layout[stream] = DOMAIN Documents!Schema[stream]
  /\ \A block \in DOMAIN Documents!Schema[stream] :
       PushAgrees(stream, block, Documents!Layout[stream][block], Documents!Schema[stream][block])

LEMMA InvoiceTables ==
  ASSUME NEW stream \in Documents!Invoices
  PROVE  StreamAgrees(stream)
<1> DEFINE blocks == {"root", "alap", "szallito", "szallito_cim", "szallito_postacim",
                     "szallito_bank", "vevo", "vevo_cim", "vevo_postacim", "vevo_fokonyv",
                     "tetel", "tetel_fokonyv", "qutet", "afakulcsossz", "totalossz", "kifizetes"}
<1>1. DOMAIN Documents!Layout[stream] = blocks /\ DOMAIN Documents!Schema[stream] = blocks
  BY DEF Documents!Layout, Documents!Schema, Documents!AllKinds, Documents!Invoices,
         Documents!SchemaInvoice
<1>2. Documents!Schema[stream] = Documents!SchemaInvoice(stream)
  BY DEF Documents!Schema, Documents!AllKinds, Documents!Invoices
<1>3. Documents!Layout[stream]["root"] = Documents!InvoiceDocument
  BY DEF Documents!Layout, Documents!AllKinds, Documents!Invoices
<1>4. Documents!Layout[stream]["alap"] = Documents!InvoiceInfo
  BY DEF Documents!Layout, Documents!AllKinds, Documents!Invoices
<1>5. Documents!Layout[stream]["szallito"] = Documents!Party
  BY DEF Documents!Layout, Documents!AllKinds, Documents!Invoices
<1>6. Documents!Layout[stream]["szallito_cim"] = Documents!Address
  BY DEF Documents!Layout, Documents!AllKinds, Documents!Invoices
<1>7. Documents!Layout[stream]["szallito_postacim"] = Documents!Address
  BY DEF Documents!Layout, Documents!AllKinds, Documents!Invoices
<1>8. Documents!Layout[stream]["szallito_bank"] = Documents!Bank
  BY DEF Documents!Layout, Documents!AllKinds, Documents!Invoices
<1>9. Documents!Layout[stream]["vevo"] = Documents!Party
  BY DEF Documents!Layout, Documents!AllKinds, Documents!Invoices
<1>10. Documents!Layout[stream]["vevo_cim"] = Documents!Address
  BY DEF Documents!Layout, Documents!AllKinds, Documents!Invoices
<1>11. Documents!Layout[stream]["vevo_postacim"] = Documents!Address
  BY DEF Documents!Layout, Documents!AllKinds, Documents!Invoices
<1>12. Documents!Layout[stream]["vevo_fokonyv"] = Documents!BuyerLedger
  BY DEF Documents!Layout, Documents!AllKinds, Documents!Invoices
<1>13. Documents!Layout[stream]["tetel"] = Documents!InvoiceItem
  BY DEF Documents!Layout, Documents!AllKinds, Documents!Invoices
<1>14. Documents!Layout[stream]["tetel_fokonyv"] = Documents!InvoiceItemLedger
  BY DEF Documents!Layout, Documents!AllKinds, Documents!Invoices
<1>15. Documents!Layout[stream]["qutet"] = Documents!FinancialItem
  BY DEF Documents!Layout, Documents!AllKinds, Documents!Invoices
<1>16. Documents!Layout[stream]["afakulcsossz"] = Documents!VatTotal
  BY DEF Documents!Layout, Documents!AllKinds, Documents!Invoices
<1>17. Documents!Layout[stream]["totalossz"] = Documents!VatTotal
  BY DEF Documents!Layout, Documents!AllKinds, Documents!Invoices
<1>18. Documents!Layout[stream]["kifizetes"] = Documents!RecordedCreditEntry
  BY DEF Documents!Layout, Documents!AllKinds, Documents!Invoices
<1>19. ASSUME NEW block \in blocks
      PROVE  PushAgrees(stream, block, Documents!Layout[stream][block],
                        Documents!Schema[stream][block])
  <2>1. CASE block = "root"
    BY <2>1, <1>2, <1>3, InvoiceRoot
  <2>2. CASE block = "alap"
    BY <2>2, <1>2, <1>4, InvoiceAlap
  <2>3. CASE block = "szallito"
    BY <2>3, <1>2, <1>5, InvoiceSzallito
  <2>4. CASE block = "szallito_cim"
    BY <2>4, <1>2, <1>6, InvoiceSzallitoCim
  <2>5. CASE block = "szallito_postacim"
    BY <2>5, <1>2, <1>7, InvoiceSzallitoPostacim
  <2>6. CASE block = "szallito_bank"
    BY <2>6, <1>2, <1>8, InvoiceSzallitoBank
  <2>7. CASE block = "vevo"
    BY <2>7, <1>2, <1>9, InvoiceVevo
  <2>8. CASE block = "vevo_cim"
    BY <2>8, <1>2, <1>10, InvoiceVevoCim
  <2>9. CASE block = "vevo_postacim"
    BY <2>9, <1>2, <1>11, InvoiceVevoPostacim
  <2>10. CASE block = "vevo_fokonyv"
    BY <2>10, <1>2, <1>12, InvoiceVevoFokonyv
  <2>11. CASE block = "tetel"
    BY <2>11, <1>2, <1>13, InvoiceTetel
  <2>12. CASE block = "tetel_fokonyv"
    BY <2>12, <1>2, <1>14, InvoiceTetelFokonyv
  <2>13. CASE block = "qutet"
    BY <2>13, <1>2, <1>15, InvoiceQutet
  <2>14. CASE block = "afakulcsossz"
    BY <2>14, <1>2, <1>16, InvoiceAfakulcsossz
  <2>15. CASE block = "totalossz"
    BY <2>15, <1>2, <1>17, InvoiceTotalossz
  <2>16. CASE block = "kifizetes"
    BY <2>16, <1>2, <1>18, InvoiceKifizetes
  <2> QED BY <1>19, <2>1, <2>2, <2>3, <2>4, <2>5, <2>6, <2>7, <2>8, <2>9, <2>10, <2>11, <2>12,
             <2>13, <2>14, <2>15, <2>16
<1> QED BY <1>1, <1>19 DEF StreamAgrees

LEMMA ReceiptsTables ==
  StreamAgrees("xmlnyugtaarchiv")
<1> DEFINE blocks == {"alap", "tetel", "tetel_fokonyv", "kifizetes", "afakulcsossz", "totalossz"}
<1>1. DOMAIN Documents!Layout["xmlnyugtaarchiv"] = blocks /\ DOMAIN Documents!Schema["xmlnyugtaarchiv"] = blocks
  BY DEF Documents!Layout, Documents!Schema, Documents!AllKinds, Documents!Invoices,
         Documents!SchemaReceipts
<1>2. Documents!Schema["xmlnyugtaarchiv"] = Documents!SchemaReceipts
  BY DEF Documents!Schema, Documents!AllKinds, Documents!Invoices
<1>3. Documents!Layout["xmlnyugtaarchiv"]["alap"] = Documents!ReceiptInfo
  BY DEF Documents!Layout, Documents!AllKinds, Documents!Invoices
<1>4. Documents!Layout["xmlnyugtaarchiv"]["tetel"] = Documents!ReceiptItem
  BY DEF Documents!Layout, Documents!AllKinds, Documents!Invoices
<1>5. Documents!Layout["xmlnyugtaarchiv"]["tetel_fokonyv"] = Documents!ReceiptItemLedger
  BY DEF Documents!Layout, Documents!AllKinds, Documents!Invoices
<1>6. Documents!Layout["xmlnyugtaarchiv"]["kifizetes"] = Documents!ReceiptPayment
  BY DEF Documents!Layout, Documents!AllKinds, Documents!Invoices
<1>7. Documents!Layout["xmlnyugtaarchiv"]["afakulcsossz"] = Documents!VatTotal
  BY DEF Documents!Layout, Documents!AllKinds, Documents!Invoices
<1>8. Documents!Layout["xmlnyugtaarchiv"]["totalossz"] = Documents!VatTotal
  BY DEF Documents!Layout, Documents!AllKinds, Documents!Invoices
<1>9. ASSUME NEW block \in blocks
      PROVE  PushAgrees("xmlnyugtaarchiv", block,
                        Documents!Layout["xmlnyugtaarchiv"][block], Documents!Schema["xmlnyugtaarchiv"][block])
  <2>1. CASE block = "alap"
    BY <2>1, <1>2, <1>3, ReceiptsAlap
  <2>2. CASE block = "tetel"
    BY <2>2, <1>2, <1>4, ReceiptsTetel
  <2>3. CASE block = "tetel_fokonyv"
    BY <2>3, <1>2, <1>5, ReceiptsTetelFokonyv
  <2>4. CASE block = "kifizetes"
    BY <2>4, <1>2, <1>6, ReceiptsKifizetes
  <2>5. CASE block = "afakulcsossz"
    BY <2>5, <1>2, <1>7, ReceiptsAfakulcsossz
  <2>6. CASE block = "totalossz"
    BY <2>6, <1>2, <1>8, ReceiptsTotalossz
  <2> QED BY <1>9, <2>1, <2>2, <2>3, <2>4, <2>5, <2>6
<1> QED BY <1>1, <1>9 DEF StreamAgrees

LEMMA TransactionTables ==
  StreamAgrees("banktranz")
<1> DEFINE blocks == {"root", "partner"}
<1>1. DOMAIN Documents!Layout["banktranz"] = blocks /\ DOMAIN Documents!Schema["banktranz"] = blocks
  BY DEF Documents!Layout, Documents!Schema, Documents!AllKinds, Documents!Invoices,
         Documents!SchemaTransaction
<1>2. Documents!Schema["banktranz"] = Documents!SchemaTransaction
  BY DEF Documents!Schema, Documents!AllKinds, Documents!Invoices
<1>3. Documents!Layout["banktranz"]["root"] = Documents!BankTransaction
  BY DEF Documents!Layout, Documents!AllKinds, Documents!Invoices
<1>4. Documents!Layout["banktranz"]["partner"] = Documents!TransactionPartner
  BY DEF Documents!Layout, Documents!AllKinds, Documents!Invoices
<1>5. ASSUME NEW block \in blocks
      PROVE  PushAgrees("banktranz", block, Documents!Layout["banktranz"][block],
                        Documents!Schema["banktranz"][block])
  <2>1. CASE block = "root"
    BY <2>1, <1>2, <1>3, TransactionRoot
  <2>2. CASE block = "partner"
    BY <2>2, <1>2, <1>4, TransactionPartner
  <2> QED BY <1>5, <2>1, <2>2
<1> QED BY <1>1, <1>5 DEF StreamAgrees

LEMMA TablesAgree ==
  ASSUME NEW stream \in Documents!AllKinds
  PROVE  StreamAgrees(stream)
  BY InvoiceTables, ReceiptsTables, TransactionTables DEF Documents!AllKinds, Documents!Invoices

-----------------------------------------------------------------------------
\* A body szamlazz.hu may push: any blocks left out, any texts in the leaves.
Pushable(d) ==
  /\ d.kind \in Streams /\ d.dropped \subseteq Documents!Blocks(d.kind)
  /\ \A leaf \in DOMAIN d.edits : d.edits[leaf] \in Documents!Lexemes

LEMMA LexemeIs ==
  ASSUME NEW d, Pushable(d), NEW block, NEW n
  PROVE  /\ Documents!Lexeme(d, block, n) \in Documents!Lexemes
         /\ Documents!Lexeme(d, block, n) # "absent" =>
              Documents!Present(d, block) /\ n \in DOMAIN Documents!Schema[d.kind][block]
  BY DEF Pushable, Documents!Lexeme, Documents!Lexemes

LEMMA LayoutIs ==
  ASSUME DocumentsBounds, NEW d, Pushable(d), NEW block \in DOMAIN Documents!Schema[d.kind]
  PROVE  /\ DOMAIN Documents!Layout[d.kind] = DOMAIN Documents!Schema[d.kind]
         /\ PushAgrees(d.kind, block, Documents!Layout[d.kind][block], Documents!Schema[d.kind][block])
  BY TablesAgree DEF Pushable, DocumentsBounds, Documents!KindsAssumption, StreamAgrees

LEMMA ValueIs ==
  ASSUME DocumentsBounds, NEW d, Pushable(d), NEW block \in DOMAIN Documents!Schema[d.kind],
         NEW n \in DOMAIN Documents!Layout[d.kind][block]
  PROVE  Documents!Value(d, block, n) =
           Documents!Read(Documents!Layout[d.kind][block][n], Documents!Lexeme(d, block, n))
  BY LayoutIs DEF Documents!Value

\* What refuses a body.
LEMMA RefusedForCause ==
  ASSUME DocumentsBounds, NEW d, Pushable(d), Documents!Parse(d) = "refused"
  PROVE  \/ \E leaf \in Documents!Identity(d.kind) :
              Documents!Lexeme(d, leaf[1], leaf[2]) \in {"absent", "empty", "junk"}
         \/ \E block \in DOMAIN Documents!Schema[d.kind] :
              \E name \in DOMAIN Documents!Schema[d.kind][block] :
                /\ Documents!Schema[d.kind][block][name] \in {"number", "rate", "boolean"}
                /\ Documents!Lexeme(d, block, name) \in {"junk", "negative"}
<1>1. PICK block \in DOMAIN Documents!Layout[d.kind] :
        \E n \in DOMAIN Documents!Layout[d.kind][block] : Documents!Value(d, block, n) = "error"
  BY DEF Documents!Parse
<1>2. PICK n \in DOMAIN Documents!Layout[d.kind][block] : Documents!Value(d, block, n) = "error"
  BY <1>1
<1>3. block \in DOMAIN Documents!Schema[d.kind]
  BY TablesAgree DEF Pushable, DocumentsBounds, Documents!KindsAssumption, StreamAgrees
<1> DEFINE readers == Documents!Layout[d.kind][block]
           types == Documents!Schema[d.kind][block]
           text == Documents!Lexeme(d, block, n)
<1>4. PushAgrees(d.kind, block, readers, types)
  BY <1>3, LayoutIs
<1>5. Documents!Read(readers[n], text) = "error"
  BY <1>2, <1>3, ValueIs
<1>6. text \in Documents!Lexemes
  BY LexemeIs
<1>7. readers[n] \in PushReaders
  BY <1>4 DEF PushAgrees
<1> HIDE DEF readers, types, text
<1>8. \/ readers[n] \in {"identity", "name"} /\ text \in {"absent", "empty", "junk"}
      \/ readers[n] = "number" /\ text = "junk"
      \/ readers[n] = "boolean" /\ text \in {"negative", "junk"}
  BY <1>5, <1>6, <1>7 DEF Documents!Read, Documents!Lexemes, PushReaders
<1>9. CASE readers[n] \in {"identity", "name"} /\ text \in {"absent", "empty", "junk"}
  <2>1. <<block, n>> \in Documents!Identity(d.kind)
    BY <1>2, <1>4, <1>9 DEF PushAgrees, readers
  <2>2. Documents!Lexeme(d, <<block, n>>[1], <<block, n>>[2]) \in {"absent", "empty", "junk"}
    BY <1>9 DEF text
  <2> QED BY <2>1, <2>2
<1>10. CASE readers[n] \in {"number", "boolean"} /\ text \in {"negative", "junk"}
  <2>1. n \in DOMAIN types
    BY <1>10, LexemeIs DEF types, text
  <2>2. types[n] \in {"number", "rate", "boolean"}
    BY <1>10, <1>4, <2>1 DEF PushAgrees, PushCompatible
  <2> QED BY <1>3, <1>10, <2>1, <2>2 DEF types, text
<1> QED BY <1>8, <1>9, <1>10

\* A text of the leaf's type becomes a value.
LEMMA SaidIsKept ==
  ASSUME DocumentsBounds, NEW d, Pushable(d),
         NEW block \in DOMAIN Documents!Schema[d.kind],
         NEW n \in DOMAIN Documents!Schema[d.kind][block],
         Documents!Lexeme(d, block, n) # "empty",
         Documents!IsA(Documents!Schema[d.kind][block][n], Documents!Lexeme(d, block, n)),
         ~(n = "pdf" /\ Documents!Lexeme(d, block, n) # "good")
  PROVE  Documents!Value(d, block, n) \in {"good", "negative"}
<1> DEFINE readers == Documents!Layout[d.kind][block]
           types == Documents!Schema[d.kind][block]
           text == Documents!Lexeme(d, block, n)
<1>1. PushAgrees(d.kind, block, readers, types)
  BY LayoutIs
<1>2. n \in DOMAIN readers /\ readers[n] \in PushReaders /\ PushCompatible(n, readers[n], types[n])
  BY <1>1 DEF PushAgrees
<1>3. Documents!Value(d, block, n) = Documents!Read(readers[n], text)
  BY <1>2, ValueIs
<1>4. text \in Documents!Lexemes
  BY LexemeIs
<1>5. text # "empty" /\ Documents!IsA(types[n], text) /\ ~(n = "pdf" /\ text # "good")
  OBVIOUS
<1> HIDE DEF readers, types, text
<1>6. CASE text = "good"
  BY <1>2, <1>3, <1>6 DEF Documents!Read, PushReaders
<1>7. CASE text # "good"
  <2>1. types[n] \in {"string", "number"} /\ n # "pdf" /\ text # "absent"
    BY <1>5, <1>7 DEF Documents!IsA
  <2>2. CASE types[n] = "string"
    BY <1>2, <1>3, <1>4, <1>5, <2>1, <2>2
    DEF Documents!Read, Documents!Lexemes, PushCompatible
  <2>3. CASE types[n] = "number"
    BY <1>2, <1>3, <1>5, <2>1, <2>3 DEF Documents!IsA, Documents!Read, PushCompatible
  <2> QED BY <2>1, <2>2, <2>3
<1> QED BY <1>6, <1>7

\* The leaves of the identity are in a body that has what the schema demands.
LEMMA IdentityIsPresent ==
  ASSUME DocumentsBounds, NEW d, Pushable(d), Documents!MeetsOccurrences(d),
         NEW block, NEW n, <<block, n>> \in Documents!Identity(d.kind)
  PROVE  Documents!Present(d, block)
<1>1. d.kind \in Documents!AllKinds
  BY DEF Pushable, DocumentsBounds, Documents!KindsAssumption
<1>2. CASE d.kind = "banktranz"
  <2>1. block = "root"
    BY <1>2 DEF Documents!Identity, Documents!Invoices
  <2>2. "root" \notin d.dropped
    BY DEF Pushable, Documents!Blocks
  <2> QED BY <1>2, <2>1, <2>2 DEF Documents!Present, Documents!Above
<1>3. CASE d.kind # "banktranz"
  <2>1. block = "alap"
    BY <1>3 DEF Documents!Identity
  <2>2. "alap" \in Documents!SchemaBlocks(d.kind)
    BY <1>1, <1>3 DEF Documents!SchemaBlocks, Documents!AllKinds, Documents!Invoices
  <2> QED BY <2>1, <2>2 DEF Documents!MeetsOccurrences
<1> QED BY <1>2, <1>3

LEMMA ConformingIsParsed ==
  ASSUME DocumentsBounds, NEW d, Pushable(d), Documents!Conforms(d)
  PROVE  Documents!Parse(d) = "read"
<1>1. ASSUME NEW block \in DOMAIN Documents!Layout[d.kind],
             NEW n \in DOMAIN Documents!Layout[d.kind][block],
             Documents!Value(d, block, n) = "error"
      PROVE  FALSE
  <2> DEFINE readers == Documents!Layout[d.kind][block]
             types == Documents!Schema[d.kind][block]
             text == Documents!Lexeme(d, block, n)
  <2>1. block \in DOMAIN Documents!Schema[d.kind]
    BY TablesAgree DEF Pushable, DocumentsBounds, Documents!KindsAssumption, StreamAgrees
  <2>2. PushAgrees(d.kind, block, readers, types)
    BY <2>1, LayoutIs
  <2>3. Documents!Read(readers[n], text) = "error"
    BY <1>1, <2>1, ValueIs
  <2>4. text \in Documents!Lexemes
    BY LexemeIs
  <2>5. text # "absent" => n \in DOMAIN types /\ Documents!IsA(types[n], text)
    BY <2>1, LexemeIs DEF Documents!Conforms
  <2>6. readers[n] \in PushReaders
    BY <2>2 DEF PushAgrees
  <2>7. readers[n] \in {"identity", "name"} => text # "absent"
    <3>1. SUFFICES ASSUME readers[n] \in {"identity", "name"} PROVE text # "absent"
      OBVIOUS
    <3>2. <<block, n>> \in Documents!Identity(d.kind) /\ n \in Documents!SchemaRequired(d.kind, block)
      BY <2>2, <3>1 DEF PushAgrees
    <3>3. Documents!MeetsOccurrences(d)
      BY DEF Documents!Conforms
    <3>4. Documents!Present(d, block)
      BY <3>2, <3>3, IdentityIsPresent
    <3> QED BY <2>1, <3>2, <3>3, <3>4 DEF Documents!MeetsOccurrences
  <2>8. n \in DOMAIN types => PushCompatible(n, readers[n], types[n])
    BY <2>2 DEF PushAgrees
  <2> HIDE DEF readers, types, text
  <2>9. CASE text = "absent"
    BY <2>3, <2>6, <2>7, <2>9 DEF Documents!Read, PushReaders
  <2>10. CASE text # "absent"
    <3>1. Documents!IsA(types[n], text) /\ PushCompatible(n, readers[n], types[n])
      BY <2>5, <2>8, <2>10
    <3> QED BY <2>3, <2>4, <2>6, <2>10, <3>1
            DEF Documents!Read, PushReaders, Documents!IsA, PushCompatible, Documents!Lexemes
  <2> QED BY <2>9, <2>10
<1> QED BY <1>1 DEF Documents!Parse

LEMMA PdfIsOptional ==
  ASSUME NEW stream, NEW block
  PROVE  "pdf" \notin Documents!SchemaRequired(stream, block)
  BY DEF Documents!SchemaRequired

LEMMA ConformingIsValid ==
  ASSUME DocumentsBounds, NEW d, Pushable(d), Documents!Conforms(d)
  PROVE  Documents!Validate(d)
<1>1. d.kind \in Documents!AllKinds /\ Documents!MeetsOccurrences(d)
  BY DEF Pushable, DocumentsBounds, Documents!KindsAssumption, Documents!Conforms
<1>2. DOMAIN Documents!Layout[d.kind] = DOMAIN Documents!Schema[d.kind]
  BY <1>1, TablesAgree DEF StreamAgrees
<1>3. \A block \in Documents!RequiredBlocks(d.kind) : Documents!Present(d, block)
  <2>1. \A block \in Documents!RequiredBlocks(d.kind) : block \in Documents!SchemaBlocks(d.kind)
    BY <1>1
    DEF Documents!AllKinds, Documents!Invoices, Documents!RequiredBlocks, Documents!SchemaBlocks
  <2> QED BY <1>1, <2>1 DEF Documents!MeetsOccurrences
<1>4. ASSUME NEW block \in DOMAIN Documents!Schema[d.kind], Documents!Present(d, block),
             NEW n \in Documents!Required(d.kind, block)
      PROVE  Documents!Value(d, block, n) \notin {"none", "other"}
  <2> DEFINE readers == Documents!Layout[d.kind][block]
             types == Documents!Schema[d.kind][block]
             text == Documents!Lexeme(d, block, n)
  <2>1. PushAgrees(d.kind, block, readers, types)
    BY LayoutIs
  <2>2. /\ n \in Documents!SchemaRequired(d.kind, block) /\ n \in DOMAIN types /\ n \in DOMAIN readers
        /\ readers[n] \in PushReaders /\ readers[n] \notin {"nonblank", "pdf"}
        /\ PushCompatible(n, readers[n], types[n])
    BY <2>1, <1>4 DEF PushAgrees
  <2>3. text # "absent"
    BY <1>1, <1>4, <2>2 DEF Documents!MeetsOccurrences
  <2>4. Documents!IsA(types[n], text)
    BY <2>2, <2>3 DEF Documents!Conforms
  <2>5. Documents!Value(d, block, n) = Documents!Read(readers[n], text)
    BY <2>2, ValueIs
  <2>6. text \in Documents!Lexemes
    BY LexemeIs
  <2> HIDE DEF readers, types, text
  <2>7. CASE text = "good"
    BY <2>2, <2>5, <2>7 DEF Documents!Read, PushReaders
  <2>8. CASE text # "good"
    <3>1. types[n] \in {"string", "number"}
      BY <2>4, <2>8 DEF Documents!IsA
    <3>2. CASE types[n] = "string"
      <4>1. readers[n] \in {"text", "name"} \/ n = "pdf"
        BY <2>2, <3>2 DEF PushCompatible
      <4>2. n # "pdf"
        BY <2>2, PdfIsOptional
      <4> QED BY <2>3, <2>5, <4>1, <4>2 DEF Documents!Read
    <3>3. CASE types[n] = "number"
      <4>1. text = "negative" /\ readers[n] \in {"number", "identity"}
        BY <2>2, <2>4, <2>8, <3>3 DEF PushCompatible, Documents!IsA
      <4> QED BY <2>5, <4>1 DEF Documents!Read
    <3> QED BY <3>1, <3>2, <3>3
  <2> QED BY <2>7, <2>8
<1>5. ASSUME NEW block \in DOMAIN Documents!Schema[d.kind]
      PROVE  Documents!Value(d, block, "afakulcs") # "negative"
  <2> DEFINE readers == Documents!Layout[d.kind][block]
             types == Documents!Schema[d.kind][block]
             text == Documents!Lexeme(d, block, "afakulcs")
  <2>1. PushAgrees(d.kind, block, readers, types)
    BY LayoutIs
  <2>2. CASE "afakulcs" \notin DOMAIN readers
    BY <2>2 DEF Documents!Value
  <2>3. CASE "afakulcs" \in DOMAIN readers
    <3>1. Documents!Value(d, block, "afakulcs") = Documents!Read(readers["afakulcs"], text)
      BY <2>3, ValueIs
    <3>2. text \in {"absent", "good"}
      <4>1. SUFFICES ASSUME text # "absent" PROVE text = "good"
        OBVIOUS
      <4>2. "afakulcs" \in DOMAIN types
        BY <4>1, LexemeIs
      <4>3. types["afakulcs"] = "rate"
        BY <2>1, <4>2 DEF PushAgrees, PushCompatible
      <4>4. Documents!IsA(types["afakulcs"], text)
        BY <4>1, <4>2 DEF Documents!Conforms
      <4> QED BY <4>3, <4>4 DEF Documents!IsA
    <3>3. readers["afakulcs"] \in PushReaders
      BY <2>1, <2>3 DEF PushAgrees
    <3> HIDE DEF readers, types, text
    <3> QED BY <3>1, <3>2, <3>3 DEF Documents!Read, PushReaders
  <2> QED BY <2>2, <2>3
<1> QED BY <1>2, <1>3, <1>4, <1>5 DEF Documents!Validate

-----------------------------------------------------------------------------
\* The verdicts are those on the body as it was sent.
DocumentsInv ==
  /\ Pushable(doc) /\ DOMAIN doc = {"kind", "dropped", "edits"}
  /\ \/ parsed = "unread" /\ strict = "unread"
     \/ parsed = Documents!Parse(doc) /\ strict = Documents!ParseStrict(doc)

LEMMA DocumentsStarts ==
  ASSUME DocumentsBounds, Documents!Init
  PROVE  DocumentsInv
<1>1. PICK stream \in Streams : doc = [kind |-> stream, dropped |-> {}, edits |-> << >>]
  BY DEF Documents!Init
<1>2. Pushable(doc) /\ DOMAIN doc = {"kind", "dropped", "edits"}
  BY <1>1 DEF Pushable
<1> QED BY <1>2 DEF DocumentsInv, Documents!Init

LEMMA DocumentsSteps ==
  ASSUME DocumentsBounds, DocumentsInv, Documents!Next
  PROVE  DocumentsInv'
<1>1. CASE Documents!Vary
  <2>1. parsed = "unread" /\ strict = "unread"
    BY <1>1 DEF Documents!Vary, DocumentsInv, Documents!Parse
  <2>2. ASSUME NEW block \in Documents!Blocks(doc.kind), doc' = [doc EXCEPT !.dropped = @ \cup {block}]
        PROVE  Pushable(doc') /\ DOMAIN doc' = {"kind", "dropped", "edits"}
    <3>1. doc'.kind = doc.kind /\ doc'.dropped = doc.dropped \cup {block} /\ doc'.edits = doc.edits
      BY <2>2 DEF DocumentsInv
    <3> QED BY <2>2, <3>1 DEF DocumentsInv, Pushable
  <2>3. ASSUME NEW leaf, NEW text \in Documents!Lexemes,
               doc' = [doc EXCEPT !.edits = Documents!++(@, Documents!All({leaf}, text))]
        PROVE  Pushable(doc') /\ DOMAIN doc' = {"kind", "dropped", "edits"}
    <3>1. /\ doc'.kind = doc.kind /\ doc'.dropped = doc.dropped
          /\ doc'.edits = Documents!++(doc.edits, Documents!All({leaf}, text))
      BY <2>3 DEF DocumentsInv
    <3>2. \A l \in DOMAIN doc'.edits : doc'.edits[l] \in Documents!Lexemes
      BY <3>1, <2>3 DEF Documents!++, Documents!All, DocumentsInv, Pushable
    <3> QED BY <2>3, <3>1, <3>2 DEF DocumentsInv, Pushable
  <2>4. Pushable(doc') /\ DOMAIN doc' = {"kind", "dropped", "edits"}
    BY <1>1, <2>2, <2>3 DEF Documents!Vary
  <2>5. UNCHANGED <<parsed, strict>>
    BY <1>1 DEF Documents!Vary
  <2> QED BY <2>1, <2>4, <2>5 DEF DocumentsInv, Pushable
<1>2. CASE Documents!Receive
  BY <1>2 DEF Documents!Receive, DocumentsInv, Pushable, Documents!Parse, Documents!ParseStrict
<1> QED BY <1>1, <1>2 DEF Documents!Next

LEMMA DocumentsStutters ==
  ASSUME DocumentsInv, UNCHANGED Documents!vars
  PROVE  DocumentsInv'
  BY DEF DocumentsInv, Documents!vars, Pushable

LEMMA DocumentsSays ==
  ASSUME DocumentsBounds, DocumentsInv
  PROVE  /\ Documents!TypeOK /\ Documents!ContentNeverCostsTheRecord
         /\ Documents!NothingSaidIsLost /\ Documents!ConformingIsAccepted
<1>1. Documents!TypeOK
  BY DEF DocumentsInv, Documents!TypeOK, Pushable, Documents!Parse, Documents!ParseStrict
<1>2. Documents!ContentNeverCostsTheRecord
  <2>1. SUFFICES ASSUME parsed = "refused" PROVE Documents!ContentNeverCostsTheRecord
    BY DEF Documents!ContentNeverCostsTheRecord
  <2>2. Pushable(doc) /\ Documents!Parse(doc) = "refused"
    BY <2>1 DEF DocumentsInv
  <2> QED BY <2>2, RefusedForCause DEF Documents!ContentNeverCostsTheRecord
<1>3. Documents!NothingSaidIsLost
  BY SaidIsKept DEF DocumentsInv, Documents!NothingSaidIsLost
<1>4. Documents!ConformingIsAccepted
  <2>1. SUFFICES ASSUME strict # "unread", Documents!Conforms(doc) PROVE strict = "accepted"
    BY DEF Documents!ConformingIsAccepted
  <2>2. Pushable(doc) /\ strict = Documents!ParseStrict(doc)
    BY <2>1 DEF DocumentsInv
  <2> QED BY <2>1, <2>2, ConformingIsParsed, ConformingIsValid DEF Documents!ParseStrict
<1> QED BY <1>1, <1>2, <1>3, <1>4

-----------------------------------------------------------------------------
(* The answer of a query.                                                  *)
(*                                                                         *)
(* The wire structs of query_xml.rs are compared with the schema in the    *)
(* same way (QueryAgrees).  The facts of a document are the same in every  *)
(* form szamlazz.hu may write them in, an edited fact that was read is no  *)
(* fact (TextsAre, ProjectIs), and the journal gives the projection back   *)
(* (Journaled).                                                            *)

LEMMA AnswerAllHas ==
  ASSUME NEW names, NEW reader, NEW n
  PROVE  Has(Query!All(names, reader), n) <=> n \in names
  BY DEF Query!All, Has

LEMMA AnswerAllReads ==
  ASSUME NEW names, NEW reader, NEW n, NEW r
  PROVE  Reads(Query!All(names, reader), n, r) <=> n \in names /\ r = reader
  BY DEF Query!All, Reads

LEMMA AnswerBothHave ==
  ASSUME NEW f, NEW g, NEW n
  PROVE  Has(Query!++(f, g), n) <=> Has(f, n) \/ Has(g, n)
  BY DEF Query!++, Has

LEMMA AnswerBothRead ==
  ASSUME NEW f, NEW g, NEW n, NEW r
  PROVE  Reads(Query!++(f, g), n, r)
           <=> Reads(f, n, r) \/ (~Has(f, n) /\ Reads(g, n, r))
  BY DEF Query!++, Has, Reads

QueryReaders ==
  {"string", "text", "number", "optional_number", "date", "optional_date", "optional_boolean", "pdf"}

\* A reader of query_xml.rs and the type the schema gives the leaf.
QueryCompatible(block, n, reader, type) ==
  /\ reader \in {"number", "optional_number"} => type = "number"
  /\ reader \in {"date", "optional_date"} => type = "date"
  /\ reader = "optional_boolean" => type = "boolean"
  /\ reader = "pdf" => block = "root" /\ n = "pdf"

\* The readers of a block and the schema's types of its leaves.
QueryAgrees(block, readers, types) ==
  /\ \A n \in DOMAIN readers : readers[n] \in QueryReaders
  /\ \A n \in DOMAIN readers : readers[n] \in {"string", "number", "date"} =>
       n \in Query!SchemaRequired("szamla", block) \cap DOMAIN types
  /\ \A n \in DOMAIN readers \cap DOMAIN types : QueryCompatible(block, n, readers[n], types[n])

LEMMA QueryAgreement ==
  ASSUME NEW block, NEW readers, NEW types,
         \A n, r : Reads(readers, n, r) =>
           /\ r \in QueryReaders
           /\ r \in {"string", "number", "date"} =>
                n \in Query!SchemaRequired("szamla", block) /\ Has(types, n),
         \A n, r, t : Reads(readers, n, r) /\ Reads(types, n, t) => QueryCompatible(block, n, r, t)
  PROVE  QueryAgrees(block, readers, types)
<1>1. \A n \in DOMAIN readers : Reads(readers, n, readers[n])
  BY DEF Reads
<1>2. \A n \in DOMAIN types : Reads(types, n, types[n])
  BY DEF Reads
<1>3. \A n : Has(types, n) <=> n \in DOMAIN types
  BY DEF Has
<1> QED BY <1>1, <1>2, <1>3 DEF QueryAgrees

LEMMA AnswerRoot ==
  QueryAgrees("root", Query!SzamlaXml.root, Query!SchemaInvoice("szamla").root)
<1> DEFINE readers == Query!SzamlaXml.root
           types == Query!SchemaInvoice("szamla").root
<1>1. ASSUME NEW n, NEW r, Reads(readers, n, r)
      PROVE  /\ r \in QueryReaders
             /\ r \in {"string", "number", "date"} =>
                  n \in Query!SchemaRequired("szamla", "root") /\ Has(types, n)
  BY <1>1, AnswerAllReads, AnswerBothRead, AnswerAllHas, AnswerBothHave
  DEF Query!SzamlaXml, Query!SchemaInvoice, Query!Typed, Query!SchemaRequired,
      Query!Invoices, QueryReaders
<1>2. ASSUME NEW n, NEW r, NEW t, Reads(readers, n, r), Reads(types, n, t)
      PROVE  QueryCompatible("root", n, r, t)
  BY <1>2, AnswerAllReads, AnswerBothRead, AnswerAllHas, AnswerBothHave
  DEF Query!SzamlaXml, Query!SchemaInvoice, Query!Typed, QueryCompatible
<1> QED BY <1>1, <1>2, QueryAgreement

LEMMA AnswerAlap ==
  QueryAgrees("alap", Query!AlapXml, Query!SchemaInvoice("szamla").alap)
<1> DEFINE readers == Query!AlapXml
           types == Query!SchemaInvoice("szamla").alap
<1>1. ASSUME NEW n, NEW r, Reads(readers, n, r)
      PROVE  /\ r \in QueryReaders
             /\ r \in {"string", "number", "date"} =>
                  n \in Query!SchemaRequired("szamla", "alap") /\ Has(types, n)
  BY <1>1, AnswerAllReads, AnswerBothRead, AnswerAllHas, AnswerBothHave
  DEF Query!AlapXml, Query!SchemaInvoice, Query!Typed, Query!SchemaRequired, Query!Invoices,
      QueryReaders
<1>2. ASSUME NEW n, NEW r, NEW t, Reads(readers, n, r), Reads(types, n, t)
      PROVE  QueryCompatible("alap", n, r, t)
  BY <1>2, AnswerAllReads, AnswerBothRead, AnswerAllHas, AnswerBothHave
  DEF Query!AlapXml, Query!SchemaInvoice, Query!Typed, QueryCompatible
<1> QED BY <1>1, <1>2, QueryAgreement

LEMMA AnswerSzallito ==
  QueryAgrees("szallito", Query!SzallitoXml, Query!SchemaInvoice("szamla").szallito)
<1> DEFINE readers == Query!SzallitoXml
           types == Query!SchemaInvoice("szamla").szallito
<1>1. ASSUME NEW n, NEW r, Reads(readers, n, r)
      PROVE  /\ r \in QueryReaders
             /\ r \in {"string", "number", "date"} =>
                  n \in Query!SchemaRequired("szamla", "szallito") /\ Has(types, n)
  BY <1>1, AnswerAllReads, AnswerBothRead, AnswerAllHas, AnswerBothHave
  DEF Query!SzallitoXml, Query!SchemaInvoice, Query!Typed, Query!SchemaRequired,
      Query!Invoices, QueryReaders
<1>2. ASSUME NEW n, NEW r, NEW t, Reads(readers, n, r), Reads(types, n, t)
      PROVE  QueryCompatible("szallito", n, r, t)
  BY <1>2, AnswerAllReads, AnswerBothRead, AnswerAllHas, AnswerBothHave
  DEF Query!SzallitoXml, Query!SchemaInvoice, Query!Typed, QueryCompatible
<1> QED BY <1>1, <1>2, QueryAgreement

LEMMA AnswerSzallitoCim ==
  QueryAgrees("szallito_cim", Query!CimXml, Query!SchemaInvoice("szamla").szallito_cim)
<1> DEFINE readers == Query!CimXml
           types == Query!SchemaInvoice("szamla").szallito_cim
<1>1. ASSUME NEW n, NEW r, Reads(readers, n, r)
      PROVE  /\ r \in QueryReaders
             /\ r \in {"string", "number", "date"} =>
                  n \in Query!SchemaRequired("szamla", "szallito_cim") /\ Has(types, n)
  BY <1>1, AnswerAllReads, AnswerBothRead, AnswerAllHas, AnswerBothHave
  DEF Query!CimXml, Query!SchemaInvoice, Query!Typed, Query!SchemaAddress,
      Query!SchemaRequired, Query!Invoices, QueryReaders
<1>2. ASSUME NEW n, NEW r, NEW t, Reads(readers, n, r), Reads(types, n, t)
      PROVE  QueryCompatible("szallito_cim", n, r, t)
  BY <1>2, AnswerAllReads, AnswerBothRead, AnswerAllHas, AnswerBothHave
  DEF Query!CimXml, Query!SchemaInvoice, Query!Typed, Query!SchemaAddress, QueryCompatible
<1> QED BY <1>1, <1>2, QueryAgreement

LEMMA AnswerSzallitoPostacim ==
  QueryAgrees("szallito_postacim", Query!CimXml,
              Query!SchemaInvoice("szamla").szallito_postacim)
<1> DEFINE readers == Query!CimXml
           types == Query!SchemaInvoice("szamla").szallito_postacim
<1>1. ASSUME NEW n, NEW r, Reads(readers, n, r)
      PROVE  /\ r \in QueryReaders
             /\ r \in {"string", "number", "date"} =>
                  n \in Query!SchemaRequired("szamla", "szallito_postacim") /\ Has(types, n)
  BY <1>1, AnswerAllReads, AnswerBothRead, AnswerAllHas, AnswerBothHave
  DEF Query!CimXml, Query!SchemaInvoice, Query!Typed, Query!SchemaAddress,
      Query!SchemaPostal, Query!SchemaRequired, Query!Invoices, QueryReaders
<1>2. ASSUME NEW n, NEW r, NEW t, Reads(readers, n, r), Reads(types, n, t)
      PROVE  QueryCompatible("szallito_postacim", n, r, t)
  BY <1>2, AnswerAllReads, AnswerBothRead, AnswerAllHas, AnswerBothHave
  DEF Query!CimXml, Query!SchemaInvoice, Query!Typed, Query!SchemaAddress,
      Query!SchemaPostal, QueryCompatible
<1> QED BY <1>1, <1>2, QueryAgreement

LEMMA AnswerSzallitoBank ==
  QueryAgrees("szallito_bank", Query!BankXml, Query!SchemaInvoice("szamla").szallito_bank)
<1> DEFINE readers == Query!BankXml
           types == Query!SchemaInvoice("szamla").szallito_bank
<1>1. ASSUME NEW n, NEW r, Reads(readers, n, r)
      PROVE  /\ r \in QueryReaders
             /\ r \in {"string", "number", "date"} =>
                  n \in Query!SchemaRequired("szamla", "szallito_bank") /\ Has(types, n)
  BY <1>1, AnswerAllReads, AnswerBothRead, AnswerAllHas, AnswerBothHave
  DEF Query!BankXml, Query!SchemaInvoice, Query!Typed, Query!SchemaRequired, Query!Invoices,
      QueryReaders
<1>2. ASSUME NEW n, NEW r, NEW t, Reads(readers, n, r), Reads(types, n, t)
      PROVE  QueryCompatible("szallito_bank", n, r, t)
  BY <1>2, AnswerAllReads, AnswerBothRead, AnswerAllHas, AnswerBothHave
  DEF Query!BankXml, Query!SchemaInvoice, Query!Typed, QueryCompatible
<1> QED BY <1>1, <1>2, QueryAgreement

LEMMA AnswerVevo ==
  QueryAgrees("vevo", Query!VevoXml, Query!SchemaInvoice("szamla").vevo)
<1> DEFINE readers == Query!VevoXml
           types == Query!SchemaInvoice("szamla").vevo
<1>1. ASSUME NEW n, NEW r, Reads(readers, n, r)
      PROVE  /\ r \in QueryReaders
             /\ r \in {"string", "number", "date"} =>
                  n \in Query!SchemaRequired("szamla", "vevo") /\ Has(types, n)
  BY <1>1, AnswerAllReads, AnswerBothRead, AnswerAllHas, AnswerBothHave
  DEF Query!VevoXml, Query!SchemaInvoice, Query!Typed, Query!SchemaRequired, Query!Invoices,
      QueryReaders
<1>2. ASSUME NEW n, NEW r, NEW t, Reads(readers, n, r), Reads(types, n, t)
      PROVE  QueryCompatible("vevo", n, r, t)
  BY <1>2, AnswerAllReads, AnswerBothRead, AnswerAllHas, AnswerBothHave
  DEF Query!VevoXml, Query!SchemaInvoice, Query!Typed, QueryCompatible
<1> QED BY <1>1, <1>2, QueryAgreement

LEMMA AnswerVevoCim ==
  QueryAgrees("vevo_cim", Query!CimXml, Query!SchemaInvoice("szamla").vevo_cim)
<1> DEFINE readers == Query!CimXml
           types == Query!SchemaInvoice("szamla").vevo_cim
<1>1. ASSUME NEW n, NEW r, Reads(readers, n, r)
      PROVE  /\ r \in QueryReaders
             /\ r \in {"string", "number", "date"} =>
                  n \in Query!SchemaRequired("szamla", "vevo_cim") /\ Has(types, n)
  BY <1>1, AnswerAllReads, AnswerBothRead, AnswerAllHas, AnswerBothHave
  DEF Query!CimXml, Query!SchemaInvoice, Query!Typed, Query!SchemaAddress,
      Query!SchemaRequired, Query!Invoices, QueryReaders
<1>2. ASSUME NEW n, NEW r, NEW t, Reads(readers, n, r), Reads(types, n, t)
      PROVE  QueryCompatible("vevo_cim", n, r, t)
  BY <1>2, AnswerAllReads, AnswerBothRead, AnswerAllHas, AnswerBothHave
  DEF Query!CimXml, Query!SchemaInvoice, Query!Typed, Query!SchemaAddress, QueryCompatible
<1> QED BY <1>1, <1>2, QueryAgreement

LEMMA AnswerVevoPostacim ==
  QueryAgrees("vevo_postacim", Query!PostacimXml, Query!SchemaInvoice("szamla").vevo_postacim)
<1> DEFINE readers == Query!PostacimXml
           types == Query!SchemaInvoice("szamla").vevo_postacim
<1>1. ASSUME NEW n, NEW r, Reads(readers, n, r)
      PROVE  /\ r \in QueryReaders
             /\ r \in {"string", "number", "date"} =>
                  n \in Query!SchemaRequired("szamla", "vevo_postacim") /\ Has(types, n)
  BY <1>1, AnswerAllReads, AnswerBothRead, AnswerAllHas, AnswerBothHave
  DEF Query!PostacimXml, Query!SchemaInvoice, Query!Typed, Query!SchemaPostal,
      Query!SchemaRequired, Query!Invoices, QueryReaders
<1>2. ASSUME NEW n, NEW r, NEW t, Reads(readers, n, r), Reads(types, n, t)
      PROVE  QueryCompatible("vevo_postacim", n, r, t)
  BY <1>2, AnswerAllReads, AnswerBothRead, AnswerAllHas, AnswerBothHave
  DEF Query!PostacimXml, Query!SchemaInvoice, Query!Typed, Query!SchemaPostal, QueryCompatible
<1> QED BY <1>1, <1>2, QueryAgreement

LEMMA AnswerVevoFokonyv ==
  QueryAgrees("vevo_fokonyv", Query!VevoFokonyvXml, Query!SchemaInvoice("szamla").vevo_fokonyv)
<1> DEFINE readers == Query!VevoFokonyvXml
           types == Query!SchemaInvoice("szamla").vevo_fokonyv
<1>1. ASSUME NEW n, NEW r, Reads(readers, n, r)
      PROVE  /\ r \in QueryReaders
             /\ r \in {"string", "number", "date"} =>
                  n \in Query!SchemaRequired("szamla", "vevo_fokonyv") /\ Has(types, n)
  BY <1>1, AnswerAllReads, AnswerBothRead, AnswerAllHas, AnswerBothHave
  DEF Query!VevoFokonyvXml, Query!SchemaInvoice, Query!Typed, Query!SchemaRequired,
      Query!Invoices, QueryReaders
<1>2. ASSUME NEW n, NEW r, NEW t, Reads(readers, n, r), Reads(types, n, t)
      PROVE  QueryCompatible("vevo_fokonyv", n, r, t)
  BY <1>2, AnswerAllReads, AnswerBothRead, AnswerAllHas, AnswerBothHave
  DEF Query!VevoFokonyvXml, Query!SchemaInvoice, Query!Typed, QueryCompatible
<1> QED BY <1>1, <1>2, QueryAgreement

LEMMA AnswerTetel ==
  QueryAgrees("tetel", Query!TetelXml, Query!SchemaInvoice("szamla").tetel)
<1> DEFINE readers == Query!TetelXml
           types == Query!SchemaInvoice("szamla").tetel
<1>1. ASSUME NEW n, NEW r, Reads(readers, n, r)
      PROVE  /\ r \in QueryReaders
             /\ r \in {"string", "number", "date"} =>
                  n \in Query!SchemaRequired("szamla", "tetel") /\ Has(types, n)
  BY <1>1, AnswerAllReads, AnswerBothRead, AnswerAllHas, AnswerBothHave
  DEF Query!TetelXml, Query!SchemaInvoice, Query!Typed, Query!SchemaRequired, Query!Invoices,
      QueryReaders
<1>2. ASSUME NEW n, NEW r, NEW t, Reads(readers, n, r), Reads(types, n, t)
      PROVE  QueryCompatible("tetel", n, r, t)
  BY <1>2, AnswerAllReads, AnswerBothRead, AnswerAllHas, AnswerBothHave
  DEF Query!TetelXml, Query!SchemaInvoice, Query!Typed, QueryCompatible
<1> QED BY <1>1, <1>2, QueryAgreement

LEMMA AnswerTetelFokonyv ==
  QueryAgrees("tetel_fokonyv", Query!TetelFokonyvXml,
              Query!SchemaInvoice("szamla").tetel_fokonyv)
<1> DEFINE readers == Query!TetelFokonyvXml
           types == Query!SchemaInvoice("szamla").tetel_fokonyv
<1>1. ASSUME NEW n, NEW r, Reads(readers, n, r)
      PROVE  /\ r \in QueryReaders
             /\ r \in {"string", "number", "date"} =>
                  n \in Query!SchemaRequired("szamla", "tetel_fokonyv") /\ Has(types, n)
  BY <1>1, AnswerAllReads, AnswerBothRead, AnswerAllHas, AnswerBothHave
  DEF Query!TetelFokonyvXml, Query!SchemaInvoice, Query!Typed, Query!SchemaRequired,
      Query!Invoices, QueryReaders
<1>2. ASSUME NEW n, NEW r, NEW t, Reads(readers, n, r), Reads(types, n, t)
      PROVE  QueryCompatible("tetel_fokonyv", n, r, t)
  BY <1>2, AnswerAllReads, AnswerBothRead, AnswerAllHas, AnswerBothHave
  DEF Query!TetelFokonyvXml, Query!SchemaInvoice, Query!Typed, QueryCompatible
<1> QED BY <1>1, <1>2, QueryAgreement

LEMMA AnswerQutet ==
  QueryAgrees("qutet", Query!QutetXml, Query!SchemaInvoice("szamla").qutet)
<1> DEFINE readers == Query!QutetXml
           types == Query!SchemaInvoice("szamla").qutet
<1>1. ASSUME NEW n, NEW r, Reads(readers, n, r)
      PROVE  /\ r \in QueryReaders
             /\ r \in {"string", "number", "date"} =>
                  n \in Query!SchemaRequired("szamla", "qutet") /\ Has(types, n)
  BY <1>1, AnswerAllReads, AnswerBothRead, AnswerAllHas, AnswerBothHave
  DEF Query!QutetXml, Query!SchemaInvoice, Query!Typed, Query!SchemaRequired, Query!Invoices,
      QueryReaders
<1>2. ASSUME NEW n, NEW r, NEW t, Reads(readers, n, r), Reads(types, n, t)
      PROVE  QueryCompatible("qutet", n, r, t)
  BY <1>2, AnswerAllReads, AnswerBothRead, AnswerAllHas, AnswerBothHave
  DEF Query!QutetXml, Query!SchemaInvoice, Query!Typed, QueryCompatible
<1> QED BY <1>1, <1>2, QueryAgreement

LEMMA AnswerAfakulcsossz ==
  QueryAgrees("afakulcsossz", Query!AfakulcsosszXml, Query!SchemaInvoice("szamla").afakulcsossz)
<1> DEFINE readers == Query!AfakulcsosszXml
           types == Query!SchemaInvoice("szamla").afakulcsossz
<1>1. ASSUME NEW n, NEW r, Reads(readers, n, r)
      PROVE  /\ r \in QueryReaders
             /\ r \in {"string", "number", "date"} =>
                  n \in Query!SchemaRequired("szamla", "afakulcsossz") /\ Has(types, n)
  BY <1>1, AnswerAllReads, AnswerBothRead, AnswerAllHas, AnswerBothHave
  DEF Query!AfakulcsosszXml, Query!SchemaInvoice, Query!Typed, Query!SchemaRates,
      Query!SchemaRequired, Query!Invoices, QueryReaders
<1>2. ASSUME NEW n, NEW r, NEW t, Reads(readers, n, r), Reads(types, n, t)
      PROVE  QueryCompatible("afakulcsossz", n, r, t)
  BY <1>2, AnswerAllReads, AnswerBothRead, AnswerAllHas, AnswerBothHave
  DEF Query!AfakulcsosszXml, Query!SchemaInvoice, Query!Typed, Query!SchemaRates,
      QueryCompatible
<1> QED BY <1>1, <1>2, QueryAgreement

LEMMA AnswerTotalossz ==
  QueryAgrees("totalossz", Query!TotalosszXml, Query!SchemaInvoice("szamla").totalossz)
<1> DEFINE readers == Query!TotalosszXml
           types == Query!SchemaInvoice("szamla").totalossz
<1>1. ASSUME NEW n, NEW r, Reads(readers, n, r)
      PROVE  /\ r \in QueryReaders
             /\ r \in {"string", "number", "date"} =>
                  n \in Query!SchemaRequired("szamla", "totalossz") /\ Has(types, n)
  BY <1>1, AnswerAllReads, AnswerBothRead, AnswerAllHas, AnswerBothHave
  DEF Query!TotalosszXml, Query!SchemaInvoice, Query!Typed, Query!SchemaGrand,
      Query!SchemaRequired, Query!Invoices, QueryReaders
<1>2. ASSUME NEW n, NEW r, NEW t, Reads(readers, n, r), Reads(types, n, t)
      PROVE  QueryCompatible("totalossz", n, r, t)
  BY <1>2, AnswerAllReads, AnswerBothRead, AnswerAllHas, AnswerBothHave
  DEF Query!TotalosszXml, Query!SchemaInvoice, Query!Typed, Query!SchemaGrand, QueryCompatible
<1> QED BY <1>1, <1>2, QueryAgreement

LEMMA AnswerKifizetes ==
  QueryAgrees("kifizetes", Query!KifizetesXml, Query!SchemaInvoice("szamla").kifizetes)
<1> DEFINE readers == Query!KifizetesXml
           types == Query!SchemaInvoice("szamla").kifizetes
<1>1. ASSUME NEW n, NEW r, Reads(readers, n, r)
      PROVE  /\ r \in QueryReaders
             /\ r \in {"string", "number", "date"} =>
                  n \in Query!SchemaRequired("szamla", "kifizetes") /\ Has(types, n)
  BY <1>1, AnswerAllReads, AnswerBothRead, AnswerAllHas, AnswerBothHave
  DEF Query!KifizetesXml, Query!SchemaInvoice, Query!Typed, Query!SchemaRequired,
      Query!Invoices, QueryReaders
<1>2. ASSUME NEW n, NEW r, NEW t, Reads(readers, n, r), Reads(types, n, t)
      PROVE  QueryCompatible("kifizetes", n, r, t)
  BY <1>2, AnswerAllReads, AnswerBothRead, AnswerAllHas, AnswerBothHave
  DEF Query!KifizetesXml, Query!SchemaInvoice, Query!Typed, QueryCompatible
<1> QED BY <1>1, <1>2, QueryAgreement

LEMMA AnswerTables ==
  /\ DOMAIN Query!SzamlaXml = DOMAIN Query!Schema["szamla"]
  /\ \A block \in DOMAIN Query!SzamlaXml :
       QueryAgrees(block, Query!SzamlaXml[block], Query!Schema["szamla"][block])
<1> DEFINE blocks == {"root", "alap", "szallito", "szallito_cim", "szallito_postacim",
                     "szallito_bank", "vevo", "vevo_cim", "vevo_postacim", "vevo_fokonyv",
                     "tetel", "tetel_fokonyv", "qutet", "afakulcsossz", "totalossz", "kifizetes"}
<1>1. DOMAIN Query!SzamlaXml = blocks /\ DOMAIN Query!Schema["szamla"] = blocks
  BY DEF Query!SzamlaXml, Query!Schema, Query!AllKinds, Query!Invoices, Query!SchemaInvoice
<1>2. Query!Schema["szamla"] = Query!SchemaInvoice("szamla")
  BY DEF Query!Schema, Query!AllKinds, Query!Invoices
<1>3. ASSUME NEW block \in blocks
      PROVE  QueryAgrees(block, Query!SzamlaXml[block], Query!Schema["szamla"][block])
  <2>1. CASE block = "root"
    BY <1>2, <2>1, AnswerRoot
  <2>2. CASE block = "alap"
    <3>1. Query!SzamlaXml["alap"] = Query!AlapXml
      BY DEF Query!SzamlaXml
    <3> QED BY <1>2, <2>2, <3>1, AnswerAlap
  <2>3. CASE block = "szallito"
    <3>1. Query!SzamlaXml["szallito"] = Query!SzallitoXml
      BY DEF Query!SzamlaXml
    <3> QED BY <1>2, <2>3, <3>1, AnswerSzallito
  <2>4. CASE block = "szallito_cim"
    <3>1. Query!SzamlaXml["szallito_cim"] = Query!CimXml
      BY DEF Query!SzamlaXml
    <3> QED BY <1>2, <2>4, <3>1, AnswerSzallitoCim
  <2>5. CASE block = "szallito_postacim"
    <3>1. Query!SzamlaXml["szallito_postacim"] = Query!CimXml
      BY DEF Query!SzamlaXml
    <3> QED BY <1>2, <2>5, <3>1, AnswerSzallitoPostacim
  <2>6. CASE block = "szallito_bank"
    <3>1. Query!SzamlaXml["szallito_bank"] = Query!BankXml
      BY DEF Query!SzamlaXml
    <3> QED BY <1>2, <2>6, <3>1, AnswerSzallitoBank
  <2>7. CASE block = "vevo"
    <3>1. Query!SzamlaXml["vevo"] = Query!VevoXml
      BY DEF Query!SzamlaXml
    <3> QED BY <1>2, <2>7, <3>1, AnswerVevo
  <2>8. CASE block = "vevo_cim"
    <3>1. Query!SzamlaXml["vevo_cim"] = Query!CimXml
      BY DEF Query!SzamlaXml
    <3> QED BY <1>2, <2>8, <3>1, AnswerVevoCim
  <2>9. CASE block = "vevo_postacim"
    <3>1. Query!SzamlaXml["vevo_postacim"] = Query!PostacimXml
      BY DEF Query!SzamlaXml
    <3> QED BY <1>2, <2>9, <3>1, AnswerVevoPostacim
  <2>10. CASE block = "vevo_fokonyv"
    <3>1. Query!SzamlaXml["vevo_fokonyv"] = Query!VevoFokonyvXml
      BY DEF Query!SzamlaXml
    <3> QED BY <1>2, <2>10, <3>1, AnswerVevoFokonyv
  <2>11. CASE block = "tetel"
    <3>1. Query!SzamlaXml["tetel"] = Query!TetelXml
      BY DEF Query!SzamlaXml
    <3> QED BY <1>2, <2>11, <3>1, AnswerTetel
  <2>12. CASE block = "tetel_fokonyv"
    <3>1. Query!SzamlaXml["tetel_fokonyv"] = Query!TetelFokonyvXml
      BY DEF Query!SzamlaXml
    <3> QED BY <1>2, <2>12, <3>1, AnswerTetelFokonyv
  <2>13. CASE block = "qutet"
    <3>1. Query!SzamlaXml["qutet"] = Query!QutetXml
      BY DEF Query!SzamlaXml
    <3> QED BY <1>2, <2>13, <3>1, AnswerQutet
  <2>14. CASE block = "afakulcsossz"
    <3>1. Query!SzamlaXml["afakulcsossz"] = Query!AfakulcsosszXml
      BY DEF Query!SzamlaXml
    <3> QED BY <1>2, <2>14, <3>1, AnswerAfakulcsossz
  <2>15. CASE block = "totalossz"
    <3>1. Query!SzamlaXml["totalossz"] = Query!TotalosszXml
      BY DEF Query!SzamlaXml
    <3> QED BY <1>2, <2>15, <3>1, AnswerTotalossz
  <2>16. CASE block = "kifizetes"
    <3>1. Query!SzamlaXml["kifizetes"] = Query!KifizetesXml
      BY DEF Query!SzamlaXml
    <3> QED BY <1>2, <2>16, <3>1, AnswerKifizetes
  <2> QED BY <1>3, <2>1, <2>2, <2>3, <2>4, <2>5, <2>6, <2>7, <2>8, <2>9, <2>10, <2>11, <2>12,
             <2>13, <2>14, <2>15, <2>16
<1> QED BY <1>1, <1>3

-----------------------------------------------------------------------------
\* A body szamlazz.hu may answer with.
Answerable(d) ==
  d.kind = "szamla" /\ \A leaf \in DOMAIN d.edits : d.edits[leaf] \in Query!Lexemes

LEMMA AnswerLexemeIs ==
  ASSUME NEW d, Answerable(d), NEW block, NEW n
  PROVE  /\ Query!Lexeme(d, block, n) \in Query!Lexemes
         /\ Query!Lexeme(d, block, n) # "absent" => n \in DOMAIN Query!Schema["szamla"][block]
  BY DEF Answerable, Query!Lexeme, Query!Lexemes

\* No reader takes a text for an absent leaf.
LEMMA TextHasAValue ==
  ASSUME Answerable(doc), NEW block \in DOMAIN Query!SzamlaXml,
         NEW n \in DOMAIN Query!SzamlaXml[block], Query!Lexeme(doc, block, n) \notin Query!Unsaid
  PROVE  Query!Value(block, n) # "none"
<1> DEFINE reader == Query!SzamlaXml[block][n]
           text == Query!Lexeme(doc, block, n)
<1>1. reader \in QueryReaders
  BY AnswerTables DEF QueryAgrees
<1>2. text \in Query!Lexemes
  BY AnswerLexemeIs
<1>3. text \notin Query!Unsaid /\ Query!Value(block, n) = Query!Read(reader, text)
  BY DEF Query!Value
<1> HIDE DEF reader, text
<1> QED BY <1>1, <1>2, <1>3
        DEF QueryReaders, Query!Read, Query!Lexemes, Query!Unsaid, Query!Optional,
            Query!Required

\* What conforms to the schema is read.
LEMMA ConformingAnswerIsRead ==
  ASSUME Answerable(doc), Query!Conforms(doc),
         Query!Lexeme(doc, "root", "pdf") \in {"absent", "empty", "good"}
  PROVE  Query!Parse = "read"
<1>1. doc.kind = "szamla" /\ Query!MeetsOccurrences(doc)
  BY DEF Answerable, Query!Conforms
<1>2. ASSUME NEW block \in Query!RequiredBlocks PROVE Query!Present(doc, block)
  <2>1. block \in Query!SchemaBlocks("szamla")
    BY DEF Query!RequiredBlocks, Query!SchemaBlocks, Query!Invoices
  <2> QED BY <1>1, <2>1 DEF Query!MeetsOccurrences
<1>3. ASSUME NEW block \in DOMAIN Query!SzamlaXml, NEW n \in DOMAIN Query!SzamlaXml[block],
             Query!Present(doc, block), Query!Value(block, n) = "error"
      PROVE  FALSE
  <2> DEFINE readers == Query!SzamlaXml[block]
             types == Query!Schema["szamla"][block]
             text == Query!Lexeme(doc, block, n)
  <2>1. block \in DOMAIN Query!Schema["szamla"] /\ QueryAgrees(block, readers, types)
    BY AnswerTables
  <2>2. text \in Query!Lexemes /\ (text # "absent" => n \in DOMAIN types)
    BY AnswerLexemeIs
  <2>3. Query!Read(readers[n], text) = "error"
    BY <1>3 DEF Query!Value
  <2>4. readers[n] \in QueryReaders
    BY <2>1 DEF QueryAgrees
  <2>5. text # "absent" => Query!IsA(types[n], text) /\ QueryCompatible(block, n, readers[n], types[n])
    BY <1>1, <2>1, <2>2 DEF Query!Conforms, QueryAgrees
  <2>6. readers[n] \in {"string", "number", "date"} => text # "absent"
    <3>1. SUFFICES ASSUME readers[n] \in {"string", "number", "date"} PROVE text # "absent"
      OBVIOUS
    <3>2. n \in Query!SchemaRequired("szamla", block)
      BY <2>1, <3>1 DEF QueryAgrees
    <3> QED BY <1>1, <1>3, <2>1, <3>2 DEF Query!MeetsOccurrences
  <2>7. readers[n] = "pdf" => text \in {"absent", "empty", "good"}
    BY <2>5 DEF QueryCompatible
  <2> HIDE DEF readers, types, text
  <2>8. CASE text \in Query!Unsaid \cup {"good"}
    <3>1. readers[n] \in {"number", "date"} => text = "good"
      BY <2>5, <2>6, <2>8 DEF QueryCompatible, Query!IsA, Query!Unsaid
    <3> QED BY <2>3, <2>4, <2>6, <2>8, <3>1
            DEF QueryReaders, Query!Read, Query!Unsaid, Query!Optional, Query!Required
  <2>9. CASE text \in {"negative", "junk"}
    <3>1. Query!IsA(types[n], text) /\ QueryCompatible(block, n, readers[n], types[n])
      BY <2>5, <2>9
    <3>2. /\ readers[n] \notin {"date", "optional_date", "optional_boolean", "pdf"}
          /\ readers[n] \in {"number", "optional_number"} => text = "negative"
      BY <2>7, <2>9, <3>1 DEF QueryCompatible, Query!IsA
    <3> QED BY <2>3, <2>4, <2>9, <3>2
            DEF QueryReaders, Query!Read, Query!Unsaid, Query!Optional, Query!Required
  <2> QED BY <2>2, <2>8, <2>9 DEF Query!Lexemes, Query!Unsaid
<1> QED BY <1>2, <1>3 DEF Query!Parse

-----------------------------------------------------------------------------
\* What the handler has is the projection of a body that was read and names a
\* document, and so is what the journal holds.
QueryInv ==
  /\ truth \in Query!Truths /\ doc.says \in Query!Renderings(truth)
  /\ DOMAIN doc = {"kind", "dropped", "edits", "says"}
  /\ doc.kind = "szamla"
  /\ \A leaf \in DOMAIN doc.edits : doc.edits[leaf] \in Query!Lexemes \ {"good"}
  /\ \/ read = "unread"
     \/ read = "refused" /\ Query!Parse = "refused"
     \/ read \in {"read", "unidentified"} /\ Query!Parse = "read"
  /\ \/ entry = {} /\ found = {}
     \/ /\ read = "read" /\ Query!Text("szamlaszam") # "empty"
        /\ entry = {Query!Encode(Query!Project)} /\ found = {Query!Project}

QueryBounds == Query!TypesAssumption /\ Query!OrdersAssumption /\ Query!FormsAssumption

\* The readers of the leaves with the facts.
LEMMA FactReaders ==
  /\ Query!Facts \subseteq DOMAIN Query!AlapXml
  /\ Query!Facts \subseteq DOMAIN Query!SchemaInvoice("szamla").alap
  /\ Query!AlapXml["tipus"] = "string" /\ Query!AlapXml["szamlaszam"] = "string"
  /\ Query!AlapXml["eszamla"] = "number"
  /\ Query!AlapXml["sztornozott"] = "optional_boolean"
  /\ Query!AlapXml["teszt"] = "optional_boolean"
<1>1. \A n \in Query!Facts : Has(Query!AlapXml, n)
  BY AnswerAllHas, AnswerBothHave DEF Query!AlapXml, Query!Facts
<1>2. \A n \in Query!Facts : Has(Query!SchemaInvoice("szamla").alap, n)
  BY AnswerAllHas, AnswerBothHave DEF Query!SchemaInvoice, Query!Typed, Query!Facts
<1>3. /\ Reads(Query!AlapXml, "tipus", "string") /\ Reads(Query!AlapXml, "szamlaszam", "string")
      /\ Reads(Query!AlapXml, "eszamla", "number")
      /\ Reads(Query!AlapXml, "sztornozott", "optional_boolean")
      /\ Reads(Query!AlapXml, "teszt", "optional_boolean")
  BY AnswerAllReads, AnswerBothRead, AnswerAllHas, AnswerBothHave DEF Query!AlapXml
<1> QED BY <1>1, <1>2, <1>3 DEF Has, Reads

\* In a body that was read, an edited fact is a text its reader takes.
LEMMA EditedIsReadable ==
  ASSUME Answerable(doc), Query!Parse = "read", NEW n \in Query!Facts, Query!Edited(n)
  PROVE  Query!Read(Query!AlapXml[n], Query!Text(n)) # "error"
<1>1. Query!Present(doc, "alap")
  <2>1. "alap" \in Query!RequiredBlocks /\ Query!Above("szamla", "alap") = {}
    BY DEF Query!RequiredBlocks, Query!Above
  <2> QED BY <2>1 DEF Query!Parse
<1>2. "alap" \in DOMAIN Query!SzamlaXml /\ Query!SzamlaXml["alap"] = Query!AlapXml
  BY DEF Query!SzamlaXml
<1>3. Query!Schema["szamla"]["alap"] = Query!SchemaInvoice("szamla").alap
  BY DEF Query!Schema, Query!AllKinds, Query!Invoices
<1>4. Query!Lexeme(doc, "alap", n) = Query!Text(n)
  BY <1>1, <1>3, FactReaders DEF Query!Lexeme, Query!Text, Query!Edited, Answerable
<1>5. Query!Value("alap", n) # "error"
  BY <1>1, <1>2, FactReaders DEF Query!Parse
<1> QED BY <1>2, <1>4, <1>5 DEF Query!Value

Garbled == {"empty", "negative", "junk"}

\* The texts of the facts, as they are said or as they were edited and read.
LEMMA TextsAre ==
  ASSUME QueryBounds, QueryInv, Query!Parse = "read"
  PROVE  /\ IF Query!Edited("tipus") THEN Query!Text("tipus") \in Garbled
            ELSE Query!Text("tipus") = truth.type
         /\ IF Query!Edited("szamlaszam") THEN Query!Text("szamlaszam") \in Garbled
            ELSE Query!Text("szamlaszam") = truth.number
         /\ IF Query!Edited("eszamla") THEN Query!Text("eszamla") = "negative"
            ELSE Query!Text("eszamla") \in Query!Codes(truth.form)
         /\ IF Query!Edited("sztornozott") THEN Query!Text("sztornozott") \in Query!Unsaid
            ELSE Query!Text("sztornozott") \in Query!ReversedTokens(truth.reversed)
         /\ IF Query!Edited("teszt") THEN Query!Text("teszt") \in Query!Unsaid
            ELSE Query!Text("teszt") \in Query!TestTokens(truth.test)
         /\ IF Query!Edited("rendelesszam") THEN Query!Text("rendelesszam") \in Garbled \cup {"absent"}
            ELSE Query!Text("rendelesszam") \in Query!OrderTexts(truth.order)
         /\ IF Query!Edited("hivszamlaszam") THEN Query!Text("hivszamlaszam") \in Garbled \cup {"absent"}
            ELSE Query!Text("hivszamlaszam") \in Query!Reference(truth.refers)
         /\ IF Query!Edited("hivdijbekszam") THEN Query!Text("hivdijbekszam") \in Garbled \cup {"absent"}
            ELSE Query!Text("hivdijbekszam") \in Query!Reference(truth.proforma)
<1>1. Answerable(doc)
  BY DEF QueryInv, Answerable
<1>2. ASSUME NEW n, Query!Edited(n) PROVE Query!Text(n) \in Garbled \cup {"absent"}
  BY <1>2 DEF QueryInv, Query!Text, Query!Edited, Query!Lexemes, Garbled
<1>3. ASSUME NEW n, ~Query!Edited(n) PROVE Query!Text(n) = doc.says[n]
  BY <1>3 DEF Query!Text
<1>4. /\ doc.says["tipus"] = truth.type /\ doc.says["szamlaszam"] = truth.number
      /\ doc.says["eszamla"] \in Query!Codes(truth.form)
      /\ doc.says["sztornozott"] \in Query!ReversedTokens(truth.reversed)
      /\ doc.says["teszt"] \in Query!TestTokens(truth.test)
      /\ doc.says["rendelesszam"] \in Query!OrderTexts(truth.order)
      /\ doc.says["hivszamlaszam"] \in Query!Reference(truth.refers)
      /\ doc.says["hivdijbekszam"] \in Query!Reference(truth.proforma)
  BY DEF QueryInv, Query!Renderings
<1>5. {"tipus", "szamlaszam", "eszamla", "sztornozott", "teszt"} \subseteq Query!Facts
  BY DEF Query!Facts
<1>6. Query!Edited("tipus") => Query!Text("tipus") \in Garbled
  BY <1>1, <1>2, <1>5, EditedIsReadable, FactReaders DEF Query!Read
<1>7. Query!Edited("szamlaszam") => Query!Text("szamlaszam") \in Garbled
  BY <1>1, <1>2, <1>5, EditedIsReadable, FactReaders DEF Query!Read
<1>8. Query!Edited("eszamla") => Query!Text("eszamla") = "negative"
  BY <1>1, <1>2, <1>5, EditedIsReadable, FactReaders DEF Query!Read, Query!Required, Garbled
<1>9. Query!Edited("sztornozott") => Query!Text("sztornozott") \in Query!Unsaid
  BY <1>1, <1>2, <1>5, EditedIsReadable, FactReaders
  DEF Query!Read, Query!Optional, Query!Required, Garbled
<1>10. Query!Edited("teszt") => Query!Text("teszt") \in Query!Unsaid
  BY <1>1, <1>2, <1>5, EditedIsReadable, FactReaders
  DEF Query!Read, Query!Optional, Query!Required, Garbled
<1> QED BY <1>2, <1>3, <1>4, <1>6, <1>7, <1>8, <1>9, <1>10

\* The types of the facts.
LEMMA TruthIs ==
  ASSUME QueryBounds, QueryInv
  PROVE  /\ truth.type \in Query!Tokens /\ truth.reversed \in BOOLEAN /\ truth.test \in BOOLEAN
         /\ truth.order \in {"mine", "another", "none"} /\ truth.order \in OrderNumbers
         /\ truth.form \in {"paper", "electronic", "none", "unknown"}
         /\ truth.number \in {"target", "own"} /\ truth.refers \in {"target", "elsewhere", "none"}
         /\ truth.proforma \in {"converted", "none"}
<1>1. /\ truth.type \in Types /\ truth.order \in OrderNumbers /\ truth.form \in Forms
      /\ truth.reversed \in BOOLEAN /\ truth.test \in BOOLEAN
      /\ truth.number \in {"target", "own"} /\ truth.refers \in {"target", "elsewhere", "none"}
      /\ truth.proforma \in {"converted", "none"}
  BY DEF QueryInv, Query!Truths, Query!Target
<1> QED BY <1>1 DEF QueryBounds, Query!TypesAssumption, Query!OrdersAssumption, Query!FormsAssumption

\* The fields of a projection.
LEMMA ProjectFields ==
  /\ Query!Project.number = Query!Text("szamlaszam")
  /\ Query!Project.document_type = Query!DocumentType(Query!Text("tipus"))
  /\ Query!Project.order_number = Query!OrderNumber(Query!Text("rendelesszam"))
  /\ Query!Project.reversed = Query!OptionalFlexibleBool(Query!Text("sztornozott"))
  /\ Query!Project.test = Query!OptionalFlexibleBool(Query!Text("teszt"))
  /\ Query!Project.referenced_invoice_number = Query!EmptyInvoiceNumber(Query!Text("hivszamlaszam"))
  /\ Query!Project.referenced_proforma_number = Query!EmptyInvoiceNumber(Query!Text("hivdijbekszam"))
  /\ Query!Project.appearance = Query!Code(Query!Text("eszamla"))
  BY DEF Query!Project

\* A mark is the truth or is not there.
LEMMA MarkIs ==
  ASSUME NEW mark \in BOOLEAN, NEW token,
         token \in Query!Unsaid \cup (IF mark THEN {"true", "1"} ELSE {"false", "0"})
  PROVE  Query!OptionalFlexibleBool(token) = IF token \in Query!Unsaid THEN {} ELSE {mark}
<1>1. CASE mark = TRUE
  BY <1>1 DEF Query!OptionalFlexibleBool, Query!BooleanToken, Query!Unsaid, Query!Some, Query!None
<1>2. CASE mark = FALSE
  BY <1>2 DEF Query!OptionalFlexibleBool, Query!BooleanToken, Query!Unsaid, Query!Some, Query!None
<1> QED BY <1>1, <1>2

\* A reference, as it is said.
LEMMA ReferenceIs ==
  ASSUME NEW number, number \in {"target", "elsewhere", "converted", "none"},
         NEW text \in Query!Reference(number)
  PROVE  Query!EmptyInvoiceNumber(text) = IF number = "none" THEN {} ELSE {number}
<1>1. CASE number = "none"
  BY <1>1 DEF Query!Reference, Query!EmptyInvoiceNumber, Query!None
<1>2. CASE number # "none"
  BY <1>2 DEF Query!Reference, Query!EmptyInvoiceNumber, Query!Unsaid, Query!Some
<1> QED BY <1>1, <1>2

\* What is projected of the facts.
LEMMA ProjectIs ==
  ASSUME QueryBounds, QueryInv, Query!Parse = "read", NEW f, f = Query!Project
  PROVE  /\ f.number = Query!Text("szamlaszam")
         /\ IF Query!Edited("szamlaszam") THEN f.number \in Garbled ELSE f.number = truth.number
         /\ f.document_type = Query!DocumentType(Query!Text("tipus"))
         /\ IF Query!Edited("tipus") THEN f.document_type \in Garbled
            ELSE f.document_type = Query!DocumentType(truth.type)
         /\ f.reversed = IF Query!Text("sztornozott") \in Query!Unsaid THEN {} ELSE {truth.reversed}
         /\ ~Query!Edited("sztornozott") /\ truth.reversed => f.reversed = {TRUE}
         /\ f.test = IF Query!Text("teszt") \in Query!Unsaid THEN {} ELSE {truth.test}
         /\ IF Query!Edited("rendelesszam") THEN f.order_number \in {{}, {"negative"}, {"junk"}}
            ELSE f.order_number = IF truth.order = "none" THEN {} ELSE {truth.order}
         /\ f.order_number = {} => Query!Text("rendelesszam") \in {"absent", "empty", "blank"}
         /\ IF Query!Edited("hivszamlaszam")
            THEN f.referenced_invoice_number \in {{}, {"negative"}, {"junk"}}
            ELSE f.referenced_invoice_number = IF truth.refers = "none" THEN {} ELSE {truth.refers}
         /\ f.referenced_invoice_number = {} => Query!Text("hivszamlaszam") \in Query!Unsaid
         /\ IF Query!Edited("hivdijbekszam")
            THEN f.referenced_proforma_number \in {{}, {"negative"}, {"junk"}}
            ELSE f.referenced_proforma_number = IF truth.proforma = "none" THEN {} ELSE {truth.proforma}
         /\ f.referenced_proforma_number = {} => Query!Text("hivdijbekszam") \in Query!Unsaid
         /\ IF Query!Edited("eszamla") THEN f.appearance = -1
            ELSE \E code \in Query!Codes(truth.form) : f.appearance = Query!Code(code)
<1>1. /\ f.number = Query!Text("szamlaszam")
      /\ f.document_type = Query!DocumentType(Query!Text("tipus"))
      /\ f.order_number = Query!OrderNumber(Query!Text("rendelesszam"))
      /\ f.reversed = Query!OptionalFlexibleBool(Query!Text("sztornozott"))
      /\ f.test = Query!OptionalFlexibleBool(Query!Text("teszt"))
      /\ f.referenced_invoice_number = Query!EmptyInvoiceNumber(Query!Text("hivszamlaszam"))
      /\ f.referenced_proforma_number = Query!EmptyInvoiceNumber(Query!Text("hivdijbekszam"))
      /\ f.appearance = Query!Code(Query!Text("eszamla"))
  BY ProjectFields
<1>2. /\ IF Query!Edited("szamlaszam") THEN f.number \in Garbled ELSE f.number = truth.number
      /\ IF Query!Edited("tipus") THEN f.document_type \in Garbled
         ELSE f.document_type = Query!DocumentType(truth.type)
  BY <1>1, TextsAre DEF Garbled, Query!DocumentType
<1>3. f.reversed = IF Query!Text("sztornozott") \in Query!Unsaid THEN {} ELSE {truth.reversed}
  <2>1. truth.reversed \in BOOLEAN
    BY TruthIs
  <2>2. Query!Text("sztornozott") \in Query!Unsaid \cup (IF truth.reversed THEN {"true", "1"} ELSE {"false", "0"})
    BY TextsAre DEF Query!ReversedTokens, Query!Unsaid
  <2> QED BY <1>1, <2>1, <2>2, MarkIs
<1>4. ~Query!Edited("sztornozott") /\ truth.reversed => f.reversed = {TRUE}
  <2>1. SUFFICES ASSUME ~Query!Edited("sztornozott"), truth.reversed PROVE f.reversed = {TRUE}
    OBVIOUS
  <2>2. truth.reversed = TRUE
    BY <2>1, TruthIs
  <2>3. Query!Text("sztornozott") \in {"true", "1"}
    BY <2>1, <2>2, TextsAre DEF Query!ReversedTokens
  <2> QED BY <1>3, <2>2, <2>3 DEF Query!Unsaid
<1>5. f.test = IF Query!Text("teszt") \in Query!Unsaid THEN {} ELSE {truth.test}
  <2>1. truth.test \in BOOLEAN
    BY TruthIs
  <2>2. Query!Text("teszt") \in Query!Unsaid \cup (IF truth.test THEN {"true", "1"} ELSE {"false", "0"})
    BY TextsAre DEF Query!TestTokens
  <2> QED BY <1>1, <2>1, <2>2, MarkIs
<1>7. /\ IF Query!Edited("rendelesszam") THEN f.order_number \in {{}, {"negative"}, {"junk"}}
         ELSE f.order_number = IF truth.order = "none" THEN {} ELSE {truth.order}
      /\ f.order_number = {} => Query!Text("rendelesszam") \in {"absent", "empty", "blank"}
  <2>1. PICK text : text = Query!Text("rendelesszam")
    OBVIOUS
  <2>2. f.order_number = Query!OrderNumber(text)
    BY <1>1, <2>1
  <2>3. CASE Query!Edited("rendelesszam")
    <3>1. text \in {"absent", "empty", "negative", "junk"}
      BY <2>1, <2>3, TextsAre DEF Garbled
    <3> QED BY <2>1, <2>2, <2>3, <3>1 DEF Query!OrderNumber, Query!Trim, Query!None, Query!Some
  <2>4. CASE ~Query!Edited("rendelesszam")
    <3>1. text \in Query!OrderTexts(truth.order) /\ truth.order \in {"mine", "another", "none"}
      BY <2>1, <2>4, TextsAre, TruthIs
    <3>2. CASE truth.order = "mine"
      <4>1. text \in {"mine", " mine "}
        BY <3>1, <3>2 DEF Query!OrderTexts
      <4> QED BY <2>1, <2>2, <2>4, <3>2, <4>1 DEF Query!OrderNumber, Query!Trim, Query!None, Query!Some
    <3>3. CASE truth.order = "another"
      <4>1. text \in {"another", " another "}
        BY <3>1, <3>3 DEF Query!OrderTexts
      <4> QED BY <2>1, <2>2, <2>4, <3>3, <4>1 DEF Query!OrderNumber, Query!Trim, Query!None, Query!Some
    <3>4. CASE truth.order = "none"
      <4>1. text \in {"absent", "empty", "blank"}
        BY <3>1, <3>4 DEF Query!OrderTexts
      <4> QED BY <2>1, <2>2, <2>4, <3>4, <4>1 DEF Query!OrderNumber, Query!None
    <3> QED BY <3>1, <3>2, <3>3, <3>4
  <2> QED BY <2>3, <2>4
<1>8. ASSUME NEW text, NEW number \in {"target", "elsewhere", "converted", "none"}, NEW edited,
             IF edited THEN text \in Garbled \cup {"absent"} ELSE text \in Query!Reference(number)
      PROVE  /\ IF edited THEN Query!EmptyInvoiceNumber(text) \in {{}, {"negative"}, {"junk"}}
                ELSE Query!EmptyInvoiceNumber(text) = IF number = "none" THEN {} ELSE {number}
             /\ Query!EmptyInvoiceNumber(text) = {} => text \in Query!Unsaid
  <2>1. Query!EmptyInvoiceNumber(text) = {} => text \in Query!Unsaid
    BY DEF Query!EmptyInvoiceNumber, Query!Some
  <2>2. CASE edited
    <3>1. text \in {"absent", "empty", "negative", "junk"}
      BY <1>8, <2>2 DEF Garbled
    <3> QED BY <2>1, <2>2, <3>1 DEF Query!EmptyInvoiceNumber, Query!Unsaid, Query!Some, Query!None
  <2>3. CASE ~edited
    BY <1>8, <2>1, <2>3, ReferenceIs
  <2> QED BY <2>2, <2>3
<1>9. /\ IF Query!Edited("hivszamlaszam")
         THEN f.referenced_invoice_number \in {{}, {"negative"}, {"junk"}}
         ELSE f.referenced_invoice_number = IF truth.refers = "none" THEN {} ELSE {truth.refers}
      /\ f.referenced_invoice_number = {} => Query!Text("hivszamlaszam") \in Query!Unsaid
  <2>1. truth.refers \in {"target", "elsewhere", "converted", "none"}
    BY TruthIs
  <2> QED BY <1>1, <1>8, <2>1, TextsAre
<1>10. /\ IF Query!Edited("hivdijbekszam")
          THEN f.referenced_proforma_number \in {{}, {"negative"}, {"junk"}}
          ELSE f.referenced_proforma_number = IF truth.proforma = "none" THEN {} ELSE {truth.proforma}
       /\ f.referenced_proforma_number = {} => Query!Text("hivdijbekszam") \in Query!Unsaid
  <2>1. truth.proforma \in {"target", "elsewhere", "converted", "none"}
    BY TruthIs
  <2> QED BY <1>1, <1>8, <2>1, TextsAre
<1>11. IF Query!Edited("eszamla") THEN f.appearance = -1
       ELSE \E code \in Query!Codes(truth.form) : f.appearance = Query!Code(code)
  <2>1. Query!Code("negative") = -1
    BY DEF Query!Code
  <2> QED BY <1>1, <2>1, TextsAre
<1> QED BY <1>1, <1>2, <1>3, <1>4, <1>5, <1>7, <1>9, <1>10, <1>11

\* The code of every appearance.
LEMMA CodesAre ==
  ASSUME NEW form \in {"paper", "electronic", "none", "unknown"}, NEW code \in Query!Codes(form)
  PROVE  /\ Query!Code(code) \in 0..4
         /\ form = "paper" => Query!Code(code) = 1
         /\ form = "electronic" => Query!Code(code) \in {2, 3}
         /\ form \in {"none", "unknown"} => Query!Code(code) \in {0, 4}
<1>1. CASE form = "paper"
  BY <1>1 DEF Query!Codes, Query!Code
<1>2. CASE form = "electronic"
  BY <1>2 DEF Query!Codes, Query!Code
<1>3. CASE form = "none"
  BY <1>3 DEF Query!Codes, Query!Code
<1>4. CASE form = "unknown"
  BY <1>4 DEF Query!Codes, Query!Code
<1> QED BY <1>1, <1>2, <1>3, <1>4

\* The journal gives a projection back.
LEMMA Journaled ==
  ASSUME QueryBounds, QueryInv, Query!Parse = "read"
  PROVE  Query!Project \in Query!FoundDocument /\ Query!Decode(Query!Encode(Query!Project)) = Query!Project
<1>1. Query!Text("tipus") \in Query!Tokens \cup Query!Lexemes
  BY TextsAre, TruthIs DEF Garbled, Query!Lexemes
<1>2. Query!DocumentType(Query!AsWire(Query!DocumentType(Query!Text("tipus")))) = Query!DocumentType(Query!Text("tipus"))
  BY <1>1 DEF Query!Tokens, Query!Lexemes, Query!DocumentType, Query!AsWire
<1>3. PICK f : f = Query!Project
  OBVIOUS
<1>4. Query!Decode(Query!Encode(Query!Project)) = Query!Project
  BY <1>2, ProjectFields DEF Query!Decode, Query!Encode, Query!Project
<1>5. f.number \in {Query!Target, "own"} \cup Query!Lexemes
  BY <1>3, ProjectIs, TruthIs DEF Garbled, Query!Lexemes, Query!Target
<1>6. f.document_type \in {Query!DocumentType(token) : token \in Query!Tokens \cup Query!Lexemes}
  BY <1>1, <1>3, ProjectIs
<1>a. /\ truth.order \in OrderNumbers /\ truth.reversed \in BOOLEAN /\ truth.test \in BOOLEAN
      /\ truth.form \in {"paper", "electronic", "none", "unknown"}
      /\ truth.refers \in {"target", "elsewhere", "none"} /\ truth.proforma \in {"converted", "none"}
  BY TruthIs
<1>b. /\ f.order_number \in {{}, {"negative"}, {"junk"}, {truth.order}}
      /\ f.reversed \in {{}, {truth.reversed}} /\ f.test \in {{}, {truth.test}}
  BY <1>3, ProjectIs
<1>c. \/ f.referenced_invoice_number \in {{}, {"negative"}, {"junk"}}
      \/ truth.refers # "none" /\ f.referenced_invoice_number = {truth.refers}
  <2>1. CASE Query!Edited("hivszamlaszam")
    <3>1. f.referenced_invoice_number \in {{}, {"negative"}, {"junk"}}
      BY <1>3, <2>1, ProjectIs
    <3> QED BY <3>1
  <2>2. CASE ~Query!Edited("hivszamlaszam")
    <3>1. f.referenced_invoice_number = IF truth.refers = "none" THEN {} ELSE {truth.refers}
      BY <1>3, <2>2, ProjectIs
    <3> QED BY <3>1
  <2> QED BY <2>1, <2>2
<1>e. \/ f.referenced_proforma_number \in {{}, {"negative"}, {"junk"}}
      \/ truth.proforma # "none" /\ f.referenced_proforma_number = {truth.proforma}
  <2>1. CASE Query!Edited("hivdijbekszam")
    <3>1. f.referenced_proforma_number \in {{}, {"negative"}, {"junk"}}
      BY <1>3, <2>1, ProjectIs
    <3> QED BY <3>1
  <2>2. CASE ~Query!Edited("hivdijbekszam")
    <3>1. f.referenced_proforma_number = IF truth.proforma = "none" THEN {} ELSE {truth.proforma}
      BY <1>3, <2>2, ProjectIs
    <3> QED BY <3>1
  <2> QED BY <2>1, <2>2
<1>d. f.appearance = -1 \/ \E code \in Query!Codes(truth.form) : f.appearance = Query!Code(code)
  BY <1>3, ProjectIs
<1>7. f.order_number \in SUBSET (OrderNumbers \cup Query!Lexemes)
  BY <1>a, <1>b DEF Query!Lexemes
<1>8. f.reversed \in SUBSET BOOLEAN /\ f.test \in SUBSET BOOLEAN
  BY <1>a, <1>b
<1>9. f.appearance \in -1..4
  BY <1>a, <1>d, CodesAre
<1>10. f.referenced_invoice_number \in SUBSET ({Query!Target, "elsewhere"} \cup Query!Lexemes)
  BY <1>a, <1>c DEF Query!Lexemes, Query!Target
<1>11. f.referenced_proforma_number \in SUBSET ({"converted"} \cup Query!Lexemes)
  BY <1>a, <1>e DEF Query!Lexemes
<1>12. Query!Project \in Query!FoundDocument
  BY <1>3, <1>5, <1>6, <1>7, <1>8, <1>9, <1>10, <1>11 DEF Query!FoundDocument, Query!Project
<1> QED BY <1>4, <1>12

LEMMA QueryStarts ==
  ASSUME Query!Init
  PROVE  QueryInv
<1>1. PICK s \in Query!Renderings(truth) :
        doc = [kind |-> "szamla", dropped |-> {}, edits |-> << >>, says |-> s]
  BY DEF Query!Init
<1> QED BY <1>1 DEF Query!Init, QueryInv, Query!None

\* What is read of a body, and projected, is the body's.
LEMMA SameBody ==
  ASSUME UNCHANGED doc
  PROVE  /\ Query!Parse' = Query!Parse /\ Query!Project' = Query!Project
         /\ Query!Encode(Query!Project)' = Query!Encode(Query!Project)
         /\ Query!Text("szamlaszam")' = Query!Text("szamlaszam")
<1>1. Query!Parse' = Query!Parse
  BY DEF Query!Parse, Query!Value
<1>2. Query!Project' = Query!Project /\ Query!Text("szamlaszam")' = Query!Text("szamlaszam")
  BY DEF Query!Project, Query!Text, Query!Edited
<1>3. Query!Encode(Query!Project)' = Query!Encode(Query!Project)
  BY <1>2 DEF Query!Encode
<1> QED BY <1>1, <1>2, <1>3

LEMMA QuerySteps ==
  ASSUME QueryBounds, QueryInv, Query!Next
  PROVE  QueryInv'
<1>1. CASE Query!Vary
  <2>1. read = "unread" /\ UNCHANGED <<truth, read, entry, found>>
    BY <1>1 DEF Query!Vary
  <2> DEFINE Kept == /\ doc'.says = doc.says /\ doc'.kind = doc.kind
                     /\ DOMAIN doc' = {"kind", "dropped", "edits", "says"}
                     /\ \A leaf \in DOMAIN doc'.edits : doc'.edits[leaf] \in Query!Lexemes \ {"good"}
  <2>2. ASSUME NEW block, doc' = [doc EXCEPT !.dropped = @ \cup {block}] PROVE Kept
    BY <2>2 DEF QueryInv
  <2>3. ASSUME NEW leaf, NEW text \in Query!Lexemes \ {"good"},
               doc' = [doc EXCEPT !.edits = Query!++(@, Query!All({leaf}, text))]
        PROVE  Kept
    <3>1. /\ doc'.says = doc.says /\ doc'.kind = doc.kind
          /\ DOMAIN doc' = {"kind", "dropped", "edits", "says"}
          /\ doc'.edits = Query!++(doc.edits, Query!All({leaf}, text))
      BY <2>3 DEF QueryInv
    <3>2. \A l \in DOMAIN doc'.edits : doc'.edits[l] \in Query!Lexemes \ {"good"}
      BY <3>1, <2>3 DEF Query!++, Query!All, QueryInv
    <3> QED BY <3>1, <3>2
  <2>4. Kept
    BY <1>1, <2>2, <2>3 DEF Query!Vary
  <2>5. entry = {} /\ found = {}
    BY <2>1 DEF QueryInv
  <2> QED BY <2>1, <2>4, <2>5 DEF QueryInv
<1>2. CASE Query!Receive
  <2>1. entry = {} /\ found = {} /\ UNCHANGED <<truth, doc, entry, found>> /\ read' = Query!Parse
    BY <1>2 DEF Query!Receive, QueryInv
  <2>2. Query!Parse' = Query!Parse /\ Query!Parse \in {"refused", "read"}
    BY <2>1, SameBody DEF Query!Parse
  <2> QED BY <2>1, <2>2 DEF QueryInv
<1>3. ASSUME UNCHANGED <<truth, doc, read>>, read = "read", Query!Text("szamlaszam") # "empty",
             entry' = {Query!Encode(Query!Project)}, found' = {Query!Project}
      PROVE  QueryInv'
  BY <1>3, SameBody DEF QueryInv
<1>4. CASE Query!Record
  <2>1. PICK expected : IF Query!ValidIdentity(Query!Text("szamlaszam"), expected)
                        THEN /\ found' = {Query!Project} /\ entry' = {Query!Encode(Query!Project)}
                             /\ UNCHANGED read
                        ELSE read' = "unidentified" /\ UNCHANGED <<entry, found>>
    BY <1>4 DEF Query!Record, Query!Some
  <2>2. read = "read" /\ entry = {} /\ UNCHANGED <<truth, doc>>
    BY <1>4 DEF Query!Record, Query!None
  <2>3. CASE Query!ValidIdentity(Query!Text("szamlaszam"), expected)
    <3>1. Query!Text("szamlaszam") # "empty"
      BY <2>3 DEF Query!ValidIdentity
    <3> QED BY <1>3, <2>1, <2>2, <2>3, <3>1
  <2>4. CASE ~Query!ValidIdentity(Query!Text("szamlaszam"), expected)
    <3>1. read' = "unidentified" /\ UNCHANGED <<entry, found>>
      BY <2>1, <2>4
    <3>2. found = {} /\ Query!Parse = "read"
      BY <2>2 DEF QueryInv
    <3> QED BY <2>2, <3>1, <3>2, SameBody DEF QueryInv
  <2> QED BY <2>3, <2>4
<1>5. CASE Query!Replay
  <2>1. /\ read = "read" /\ entry = {Query!Encode(Query!Project)} /\ Query!Parse = "read"
        /\ Query!Text("szamlaszam") # "empty"
    BY <1>5 DEF Query!Replay, QueryInv, Query!None
  <2>2. found' = {Query!Decode(Query!Encode(Query!Project))} /\ UNCHANGED <<truth, doc, read, entry>>
    BY <1>5, <2>1 DEF Query!Replay
  <2>3. found' = {Query!Project}
    BY <2>1, <2>2, Journaled
  <2> QED BY <1>3, <2>1, <2>2, <2>3
<1> QED BY <1>1, <1>2, <1>4, <1>5 DEF Query!Next

LEMMA QueryStutters ==
  ASSUME QueryInv, UNCHANGED Query!vars
  PROVE  QueryInv'
<1>1. UNCHANGED <<truth, doc, read, entry, found>>
  BY DEF Query!vars
<1> QED BY <1>1, SameBody DEF QueryInv

LEMMA QueryTypeCorrect ==
  ASSUME QueryBounds, QueryInv
  PROVE  Query!TypeOK
<1>1. found = {} \/ (read = "read" /\ found = {Query!Project} /\ Query!Parse = "read")
  BY DEF QueryInv
<1>2. truth \in Query!Truths /\ read \in {"unread", "refused", "read", "unidentified"}
  BY DEF QueryInv
<1>3. CASE found = {}
  BY <1>2, <1>3 DEF Query!TypeOK, Query!None
<1>4. CASE read = "read" /\ found = {Query!Project} /\ Query!Parse = "read"
  <2>1. Query!Project \in Query!FoundDocument
    BY <1>4, Journaled
  <2> QED BY <1>2, <1>4, <2>1 DEF Query!TypeOK, Query!Some
<1> QED BY <1>1, <1>3, <1>4

\* What szamlazz-agent makes of the body.
LEMMA BodyIsRead ==
  ASSUME QueryBounds, QueryInv
  PROVE  Query!ConformingIsRead /\ Query!GarbledIsNotAbsent
<1>1. Answerable(doc) /\ (read = "refused" => Query!Parse # "read")
  BY DEF QueryInv, Answerable
<1>2. Query!ConformingIsRead
  BY <1>1, ConformingAnswerIsRead DEF Query!ConformingIsRead
<1>3. ASSUME NEW block \in DOMAIN Query!SzamlaXml, NEW n \in DOMAIN Query!SzamlaXml[block],
             Query!Lexeme(doc, block, n) \notin Query!Unsaid
      PROVE  Query!Value(block, n) # "none"
  BY <1>1, <1>3, TextHasAValue
<1>4. ASSUME NEW g \in found
      PROVE  /\ g.reversed = {} => Query!Text("sztornozott") \in Query!Unsaid
             /\ g.test = {} => Query!Text("teszt") \in Query!Unsaid
             /\ g.order_number = {} => Query!Text("rendelesszam") \in {"absent", "empty", "blank"}
             /\ g.referenced_invoice_number = {} => Query!Text("hivszamlaszam") \in Query!Unsaid
             /\ g.referenced_proforma_number = {} => Query!Text("hivdijbekszam") \in Query!Unsaid
  <2>1. g = Query!Project /\ Query!Parse = "read"
    BY <1>4 DEF QueryInv
  <2> QED BY <2>1, ProjectIs
<1> QED BY <1>2, <1>3, <1>4 DEF Query!GarbledIsNotAbsent, Query!None

\* What the handlers conclude from the projection, and what query answers.
LEMMA QuerySays ==
  ASSUME QueryBounds, QueryInv
  PROVE  Query!ReadingIsTruth /\ Query!ResponseReports
<1> SUFFICES ASSUME found # {} PROVE Query!ReadingIsTruth /\ Query!ResponseReports
  BY DEF Query!ReadingIsTruth, Query!ResponseReports
<1>0. found = {Query!Project} /\ Query!Parse = "read" /\ Query!Text("szamlaszam") # "empty"
  BY DEF QueryInv
<1>1. PICK f : f = Query!Project
  OBVIOUS
<1>2. found = {f}
  BY <1>0, <1>1
<1> DEFINE Told(n) == ~Query!Edited(n)
<1>a. /\ f.number = Query!Text("szamlaszam")
      /\ f.document_type = Query!DocumentType(Query!Text("tipus"))
  BY <1>0, <1>1, ProjectIs
<1>b. /\ Told("tipus") => f.document_type = Query!DocumentType(truth.type)
      /\ ~Told("tipus") => f.document_type \in Garbled
  BY <1>0, <1>1, ProjectIs
<1>c. /\ f.reversed = IF Query!Text("sztornozott") \in Query!Unsaid THEN {} ELSE {truth.reversed}
      /\ Told("sztornozott") /\ truth.reversed => f.reversed = {TRUE}
      /\ f.test = IF Query!Text("teszt") \in Query!Unsaid THEN {} ELSE {truth.test}
  BY <1>0, <1>1, ProjectIs
<1>d. /\ Told("rendelesszam") => f.order_number = IF truth.order = "none" THEN {} ELSE {truth.order}
      /\ ~Told("rendelesszam") => f.order_number \in {{}, {"negative"}, {"junk"}}
  BY <1>0, <1>1, ProjectIs
<1>e. /\ Told("hivszamlaszam") =>
           f.referenced_invoice_number = IF truth.refers = "none" THEN {} ELSE {truth.refers}
      /\ ~Told("hivszamlaszam") => f.referenced_invoice_number \in {{}, {"negative"}, {"junk"}}
  BY <1>0, <1>1, ProjectIs
<1>f. Told("hivdijbekszam") =>
           f.referenced_proforma_number = IF truth.proforma = "none" THEN {} ELSE {truth.proforma}
  BY <1>0, <1>1, ProjectIs
<1>g. /\ ~Told("eszamla") => f.appearance = -1
      /\ Told("eszamla") => \E code \in Query!Codes(truth.form) : f.appearance = Query!Code(code)
  BY <1>0, <1>1, ProjectIs
<1>3. /\ f.number = Query!Text("szamlaszam")
      /\ f.document_type = Query!DocumentType(Query!Text("tipus"))
      /\ Told("tipus") => f.document_type = Query!DocumentType(truth.type)
      /\ ~Told("tipus") => f.document_type \in Garbled
      /\ f.reversed = IF Query!Text("sztornozott") \in Query!Unsaid THEN {} ELSE {truth.reversed}
      /\ Told("sztornozott") /\ truth.reversed => f.reversed = {TRUE}
      /\ f.test = IF Query!Text("teszt") \in Query!Unsaid THEN {} ELSE {truth.test}
      /\ Told("rendelesszam") => f.order_number = IF truth.order = "none" THEN {} ELSE {truth.order}
      /\ ~Told("rendelesszam") => f.order_number \in {{}, {"negative"}, {"junk"}}
      /\ Told("hivszamlaszam") =>
           f.referenced_invoice_number = IF truth.refers = "none" THEN {} ELSE {truth.refers}
      /\ ~Told("hivszamlaszam") => f.referenced_invoice_number \in {{}, {"negative"}, {"junk"}}
      /\ Told("hivdijbekszam") =>
           f.referenced_proforma_number = IF truth.proforma = "none" THEN {} ELSE {truth.proforma}
      /\ ~Told("eszamla") => f.appearance = -1
      /\ Told("eszamla") => \E code \in Query!Codes(truth.form) : f.appearance = Query!Code(code)
  BY <1>a, <1>b, <1>c, <1>d, <1>e, <1>f, <1>g
<1>4. /\ truth.type \in Query!Tokens /\ truth.reversed \in BOOLEAN /\ truth.test \in BOOLEAN
      /\ truth.refers \in {"target", "elsewhere", "none"}
      /\ truth.order \in {"mine", "another", "none"}
      /\ truth.form \in {"paper", "electronic", "none", "unknown"}
  BY TruthIs
<1> HIDE DEF Told
<1>5. /\ ~Query!is_live(f) => truth.reversed
      /\ Told("sztornozott") /\ truth.reversed => ~Query!is_live(f)
      /\ truth.reversed /\ Query!is_live(f) => Query!Text("sztornozott") \in Query!Unsaid
  <2>1. CASE truth.reversed = TRUE
    BY <1>3, <2>1 DEF Query!is_live, Query!Some
  <2>2. CASE truth.reversed = FALSE
    BY <1>3, <2>2 DEF Query!is_live, Query!Some
  <2> QED BY <1>4, <2>1, <2>2
<1>6. /\ Query!carries_order(f, "mine") => truth.order = "mine"
      /\ Told("rendelesszam") /\ truth.order = "mine" => Query!carries_order(f, "mine")
  <2>1. CASE Told("rendelesszam")
    BY <1>3, <1>4, <2>1 DEF Query!carries_order, Query!Some
  <2>2. CASE ~Told("rendelesszam")
    BY <1>3, <2>2 DEF Query!carries_order, Query!Some
  <2> QED BY <2>1, <2>2
<1>7. /\ Query!DocumentType(truth.type) = "Storno" <=> truth.type = "SS"
      /\ Query!DocumentType(truth.type) = "Corrective" <=> truth.type = "HS"
      /\ Query!DocumentType(truth.type) \in {"Invoice", "Prepayment", "Final"}
           <=> truth.type \in {"SZ", "ES", "VS"}
      /\ Query!DocumentType(truth.type) = "Prepayment" <=> truth.type = "ES"
  BY <1>4 DEF Query!DocumentType, Query!Tokens
<1>8. f.document_type \in {"Storno", "Corrective", "Invoice", "Prepayment", "Final"} =>
        f.document_type = Query!DocumentType(truth.type)
  BY <1>3 DEF Garbled
<1>9. /\ f.referenced_invoice_number = Query!Some(Query!Target) => truth.refers = Query!Target
      /\ Told("hivszamlaszam") /\ truth.refers = Query!Target =>
           f.referenced_invoice_number = Query!Some(Query!Target)
  <2>1. CASE Told("hivszamlaszam")
    BY <1>3, <1>4, <2>1 DEF Query!Some, Query!Target
  <2>2. CASE ~Told("hivszamlaszam")
    BY <1>3, <2>2 DEF Query!Some, Query!Target
  <2> QED BY <2>1, <2>2
<1>10. /\ Query!is_storno_of(f, Query!Target) =>
            truth.type = "SS" /\ truth.refers = Query!Target /\ Query!Text("szamlaszam") # Query!Target
       /\ Query!is_corrective_of(f, Query!Target) => truth.type = "HS" /\ truth.refers = Query!Target
  BY <1>3, <1>7, <1>8, <1>9 DEF Query!is_storno_of, Query!is_corrective_of
<1>11. Told("tipus") /\ Told("hivszamlaszam") =>
         /\ truth.type = "SS" /\ truth.refers = Query!Target /\ Query!Text("szamlaszam") # Query!Target
              => Query!is_storno_of(f, Query!Target)
         /\ truth.type = "HS" /\ truth.refers = Query!Target => Query!is_corrective_of(f, Query!Target)
  BY <1>0, <1>3, <1>7, <1>9 DEF Query!is_storno_of, Query!is_corrective_of
<1>12. /\ Query!is_invoice_family(f) => truth.type \in {"SZ", "ES", "VS"}
       /\ Query!is_stornoable(f) => truth.type \in {"SZ", "ES", "VS", "HS"}
       /\ Told("tipus") /\ truth.type \in {"SZ", "ES", "VS"} => Query!is_invoice_family(f)
       /\ Told("tipus") /\ truth.type \in {"SZ", "ES", "VS", "HS"} => Query!is_stornoable(f)
  BY <1>3, <1>7, <1>8 DEF Query!is_invoice_family, Query!is_stornoable
<1>13. /\ Query!is_ours(f, "mine", "prepayment") => truth.order = "mine" /\ truth.type = "ES"
       /\ Told("tipus") /\ Told("rendelesszam") /\ truth.order = "mine" /\ truth.type = "ES" =>
            Query!is_ours(f, "mine", "prepayment")
  <2>1. Query!IssuedType("prepayment") = "Prepayment"
    BY DEF Query!IssuedType
  <2> QED BY <1>3, <1>6, <1>7, <1>8, <2>1 DEF Query!is_ours
<1>14. /\ Query!e_invoice(f) = Query!Some(TRUE) => truth.form = "electronic"
       /\ Query!e_invoice(f) = Query!Some(FALSE) => truth.form = "paper"
       /\ Told("eszamla") /\ truth.form = "electronic" => Query!e_invoice(f) = Query!Some(TRUE)
       /\ Told("eszamla") /\ truth.form = "paper" => Query!e_invoice(f) = Query!Some(FALSE)
  <2>1. CASE ~Told("eszamla")
    <3>1. Query!Appearance(f.appearance) = "Unknown"
      BY <1>3, <2>1 DEF Query!Appearance
    <3> QED BY <2>1, <3>1 DEF Query!e_invoice, Query!Some, Query!None
  <2>2. CASE Told("eszamla")
    <3>1. PICK code \in Query!Codes(truth.form) : f.appearance = Query!Code(code)
      BY <1>3, <2>2
    <3>2. /\ truth.form = "electronic" => Query!Appearance(f.appearance) = "Electronic"
          /\ truth.form = "paper" => Query!Appearance(f.appearance) = "Paper"
          /\ truth.form \in {"none", "unknown"} =>
               Query!Appearance(f.appearance) \notin {"Electronic", "Paper"}
      BY <1>4, <3>1, CodesAre DEF Query!Appearance
    <3>3. CASE truth.form = "electronic"
      BY <2>2, <3>2, <3>3 DEF Query!e_invoice, Query!Some
    <3>4. CASE truth.form = "paper"
      BY <2>2, <3>2, <3>4 DEF Query!e_invoice, Query!Some
    <3>5. CASE truth.form \in {"none", "unknown"}
      BY <2>2, <3>2, <3>5 DEF Query!e_invoice, Query!Some, Query!None
    <3> QED BY <1>4, <3>3, <3>4, <3>5
  <2> QED BY <2>1, <2>2
<1>15. Query!ReadingIsTruth
  <2> DEFINE all == {"reversed", "mine", "storno", "corrective", "invoice", "stornoable",
                     "prepayment", "electronic", "paper"}
  <2>1. DOMAIN Query!Actual = all
    BY DEF Query!Actual
  <2>2. /\ Query!Conclusions(f)["reversed"] = ~Query!is_live(f)
        /\ Query!Conclusions(f)["mine"] = Query!carries_order(f, "mine")
        /\ Query!Conclusions(f)["storno"] = Query!is_storno_of(f, Query!Target)
        /\ Query!Conclusions(f)["corrective"] = Query!is_corrective_of(f, Query!Target)
        /\ Query!Conclusions(f)["invoice"] = Query!is_invoice_family(f)
        /\ Query!Conclusions(f)["stornoable"] = Query!is_stornoable(f)
        /\ Query!Conclusions(f)["prepayment"] = Query!is_ours(f, "mine", "prepayment")
        /\ Query!Conclusions(f)["electronic"] = (Query!e_invoice(f) = Query!Some(TRUE))
        /\ Query!Conclusions(f)["paper"] = (Query!e_invoice(f) = Query!Some(FALSE))
    BY DEF Query!Conclusions
  <2>3. /\ Query!Actual["reversed"] = truth.reversed
        /\ Query!Actual["mine"] = (truth.order = "mine")
        /\ Query!Actual["storno"] = (/\ truth.type = "SS" /\ truth.refers = Query!Target
                                     /\ Query!Text("szamlaszam") # Query!Target)
        /\ Query!Actual["corrective"] = (truth.type = "HS" /\ truth.refers = Query!Target)
        /\ Query!Actual["invoice"] = (truth.type \in {"SZ", "ES", "VS"})
        /\ Query!Actual["stornoable"] = (truth.type \in {"SZ", "ES", "VS", "HS"})
        /\ Query!Actual["prepayment"] = (truth.order = "mine" /\ truth.type = "ES")
        /\ Query!Actual["electronic"] = (truth.form = "electronic")
        /\ Query!Actual["paper"] = (truth.form = "paper")
    BY DEF Query!Actual
  <2>4. ASSUME NEW c \in all, Query!Conclusions(f)[c] PROVE Query!Actual[c]
    BY <2>2, <2>3, <2>4, <1>5, <1>6, <1>10, <1>12, <1>13, <1>14
  <2>5. ASSUME \A n \in Query!Facts : ~Query!Edited(n), NEW c \in all, Query!Actual[c]
        PROVE  Query!Conclusions(f)[c]
    <3>1. /\ Told("tipus") /\ Told("sztornozott") /\ Told("rendelesszam")
          /\ Told("hivszamlaszam") /\ Told("eszamla")
      BY <2>5 DEF Query!Facts, Told
    <3> QED BY <2>2, <2>3, <2>5, <3>1, <1>5, <1>6, <1>11, <1>12, <1>13, <1>14
  <2> HIDE DEF all
  <2> QED BY <1>2, <1>5, <2>1, <2>4, <2>5 DEF Query!ReadingIsTruth
<1>16. Query!AsWire(Query!DocumentType(Query!Text("tipus"))) = Query!Text("tipus")
  <2>1. Query!Text("tipus") \in Query!Tokens \cup Garbled
    BY <1>0, <1>4, TextsAre
  <2> QED BY <2>1 DEF Query!DocumentType, Query!AsWire, Query!Tokens, Garbled
<1>17. PICK r : r = Query!Response(f)
  OBVIOUS
<1>18. /\ r.invoice_number = f.number /\ r.document_type = Query!AsWire(f.document_type)
       /\ r.test = f.test /\ r.reversed = f.reversed /\ r.order_number = f.order_number
       /\ r.referenced_invoice_number = f.referenced_invoice_number
       /\ r.referenced_proforma_number = f.referenced_proforma_number
  BY <1>17 DEF Query!Response
<1>19. Query!ResponseReports
  <2>1. /\ Told("rendelesszam") <=> ~Query!Edited("rendelesszam")
        /\ Told("hivszamlaszam") <=> ~Query!Edited("hivszamlaszam")
        /\ Told("hivdijbekszam") <=> ~Query!Edited("hivdijbekszam")
    BY DEF Told
  <2>2. r.invoice_number = Query!Text("szamlaszam") /\ r.document_type = Query!Text("tipus")
    BY <1>3, <1>16, <1>18
  <2> QED BY <1>2, <1>3, <1>17, <1>18, <2>1, <2>2 DEF Query!ResponseReports, Query!None, Query!Some
<1> QED BY <1>15, <1>19

-----------------------------------------------------------------------------
(* The composition.                                                        *)

CratesInv ==
  /\ component = "xml" => ShapeInv
  /\ component = "documents" => DocumentsInv
  /\ component = "receiver" => ReceiverInv
  /\ component = "exchange" => ExchangeInv
  /\ component = "queried" => QueryInv

\* A step is one of the running component, or leaves its variables alone.
LEMMA OneComponentMoves ==
  ASSUME [Next]_vars
  PROVE  /\ component' = component
         /\ component = "xml" => Shape!Next \/ UNCHANGED Shape!vars
         /\ component = "receiver" => Receiver!Next \/ UNCHANGED Receiver!vars
         /\ component = "exchange" => Agent!Next \/ UNCHANGED Agent!vars
         /\ component = "documents" => Documents!Next \/ UNCHANGED Documents!vars
         /\ component = "queried" => Query!Next \/ UNCHANGED Query!vars
<1>1. CASE Next
  BY <1>1 DEF Next, ShapeStep, DocumentsStep, ReceiverStep, ExchangeStep, QueryStep
<1>2. CASE UNCHANGED vars
  <2>1. component' = component
    BY <1>2 DEF vars
  <2>2. UNCHANGED Shape!vars
    BY <1>2 DEF vars, forShape, Shape!vars
  <2>3. UNCHANGED Receiver!vars
    BY <1>2 DEF vars, forReceiver, Receiver!vars
  <2>4. UNCHANGED Agent!vars
    BY <1>2 DEF vars, forExchange, Agent!vars
  <2>5. UNCHANGED Documents!vars
    BY <1>2 DEF vars, forDocuments, Documents!vars
  <2>6. UNCHANGED Query!vars
    BY <1>2 DEF vars, forQueried, Query!vars
  <2> QED BY <2>1, <2>2, <2>3, <2>4, <2>5, <2>6
<1> QED BY <1>1, <1>2

LEMMA CratesBounds ==
  ShapeBounds /\ ReceiverBounds /\ ExchangeBounds /\ DocumentsBounds /\ QueryBounds
  BY Bounds DEF ShapeBounds, ReceiverBounds, ExchangeBounds, DocumentsBounds, QueryBounds

LEMMA CratesInit ==
  ASSUME Init
  PROVE  CratesInv
<1>1. /\ component = "xml" => Shape!Init
      /\ component = "receiver" => Receiver!Init
      /\ component = "exchange" => Agent!Init
      /\ component = "documents" => Documents!Init
      /\ component = "queried" => Query!Init
  BY DEF Init
<1>2. component = "xml" => ShapeInv
  BY <1>1, CratesBounds, ShapeStarts
<1>3. component = "receiver" => ReceiverInv
  BY <1>1, CratesBounds, ReceiverStarts
<1>4. component = "exchange" => ExchangeInv
  BY <1>1, CratesBounds, ExchangeStarts
<1>5. component = "documents" => DocumentsInv
  BY <1>1, CratesBounds, DocumentsStarts
<1>6. component = "queried" => QueryInv
  BY <1>1, QueryStarts
<1> QED BY <1>2, <1>3, <1>4, <1>5, <1>6 DEF CratesInv

LEMMA CratesNext ==
  ASSUME CratesInv, [Next]_vars
  PROVE  CratesInv'
<1>1. component' = component
  BY OneComponentMoves
<1>2. component = "xml" => ShapeInv'
  BY OneComponentMoves, CratesBounds, ShapeSteps, ShapeStutters DEF CratesInv
<1>3. component = "receiver" => ReceiverInv'
  BY OneComponentMoves, CratesBounds, ReceiverSteps, ReceiverStutters DEF CratesInv
<1>4. component = "exchange" => ExchangeInv'
  BY OneComponentMoves, CratesBounds, ExchangeSteps, ExchangeStutters DEF CratesInv
<1>5. component = "documents" => DocumentsInv'
  BY OneComponentMoves, CratesBounds, DocumentsSteps, DocumentsStutters DEF CratesInv
<1>6. component = "queried" => QueryInv'
  BY OneComponentMoves, CratesBounds, QuerySteps, QueryStutters DEF CratesInv
<1> QED BY <1>1, <1>2, <1>3, <1>4, <1>5, <1>6 DEF CratesInv

(***************************************************************************)
(* Whichever part of the crates runs, its inductive invariant holds.       *)
(***************************************************************************)
THEOREM CratesInvariance == Spec => []CratesInv
<1>1. Init => CratesInv
  BY CratesInit
<1>2. CratesInv /\ [Next]_vars => CratesInv'
  BY CratesNext
<1> QED BY <1>1, <1>2, PTL DEF Spec

(***************************************************************************)
(* The state of the running part has its type: a strict verdict is one on  *)
(* a document the lenient parse could read (Document::parse_strict), and   *)
(* what a handler has is the projection of a body that was read, after any *)
(* number of replays (the journal rule of FoundDocument).                  *)
(***************************************************************************)
THEOREM CratesTypeCorrect == Spec => []TypeOK
<1>1. ASSUME CratesInv PROVE TypeOK
  <2>1. component = "xml" => Shape!TypeOK
    BY <1>1 DEF CratesInv, ShapeInv
  <2>2. component = "documents" => Documents!TypeOK
    BY <1>1, CratesBounds, DocumentsSays DEF CratesInv
  <2>3. component = "receiver" => Receiver!TypeOK
    BY <1>1 DEF CratesInv, ReceiverInv
  <2>4. component = "exchange" => Agent!TypeOK
    BY <1>1, CratesBounds, ExchangeSays DEF CratesInv
  <2>5. component = "queried" => Query!TypeOK
    BY <1>1, CratesBounds, QueryTypeCorrect DEF CratesInv
  <2> QED BY <2>1, <2>2, <2>3, <2>4, <2>5 DEF TypeOK
<1> QED BY <1>1, CratesInvariance, PTL

(***************************************************************************)
(* Pushed documents (document.rs): a refused body misses or garbles its    *)
(* identity, or has a text that is no value where the schema has a number  *)
(* or a boolean; every value szamlazz.hu sent is in the record; and the    *)
(* strict parse accepts what the schema allows.  For bodies that depart    *)
(* from a complete document in any number of places at once.               *)
(***************************************************************************)
THEOREM CratesPushedContentIsKept == Spec => []PushedContentIsKept
<1>1. ASSUME CratesInv PROVE PushedContentIsKept
  BY <1>1, CratesBounds, DocumentsSays DEF CratesInv, PushedContentIsKept
<1> QED BY <1>1, CratesInvariance, PTL

(***************************************************************************)
(* Queried documents (query_xml.rs, gateway/document.rs, service/agent.rs):*)
(* in whichever form szamlazz.hu writes the facts and after any number of  *)
(* replays, what the handlers conclude is what the document is, and query  *)
(* reports what was said and no more; a body that meets the schema is      *)
(* read, and no garbled value is taken for an absent one.  For bodies that *)
(* depart from a complete document in any number of places at once, the    *)
(* leaves the handlers decide on among them: garbled, these hide a         *)
(* conclusion and invent none.                                             *)
(***************************************************************************)
THEOREM CratesQueriedDocumentIsTrue == Spec => []QueriedDocumentIsTrue
<1>1. ASSUME CratesInv PROVE QueriedDocumentIsTrue
  BY <1>1, CratesBounds, QuerySays, BodyIsRead DEF CratesInv, QueriedDocumentIsTrue
<1> QED BY <1>1, CratesInvariance, PTL

(***************************************************************************)
(* The XML boundaries of both crates: after any events the namespaces in   *)
(* force are those of the open elements, a body is accepted exactly when   *)
(* it is one document, and only what stands below elements of the          *)
(* protocol, and all of it, reaches the typed parse.  For bodies of any    *)
(* length and elements nested to any depth.                                *)
(***************************************************************************)
THEOREM CratesBoundaryIsExact == Spec => []BoundaryIsExact
<1>1. ASSUME CratesInv PROVE BoundaryIsExact
  BY <1>1, CratesBounds, ShapeSays DEF CratesInv, BoundaryIsExact
<1> QED BY <1>1, CratesInvariance, PTL

(***************************************************************************)
(* The receiver: a version answered as accepted is in every member's       *)
(* hands, and without overlapping requests the unversioned names of what   *)
(* it has hold it, through faults, retries, late requests and any number   *)
(* of versions, each with a PDF or without and of any month.               *)
(***************************************************************************)
THEOREM CratesArchiveIsComplete == Spec => []ArchiveIsComplete
<1>1. ASSUME CratesInv PROVE ArchiveIsComplete
  BY <1>1, CratesBounds, ReceiverSays DEF CratesInv, ArchiveIsComplete
<1> QED BY <1>1, CratesInvariance, PTL

(***************************************************************************)
(* The receiver: only a verdict of the receiver ends the pushes early, the *)
(* merged answer keeps a refusing member's code, one member's failure      *)
(* keeps no other from the record, and with fewer faults than attempts no  *)
(* version is dropped.                                                     *)
(***************************************************************************)
THEOREM CratesAcknowledgementsAreTrue == Spec => []AcknowledgementsAreTrue
<1>1. ASSUME CratesInv PROVE AcknowledgementsAreTrue
  BY <1>1, CratesBounds, ReceiverSays DEF CratesInv, AcknowledgementsAreTrue
<1> QED BY <1>1, CratesInvariance, PTL

(***************************************************************************)
(* The client: whatever szamlazz.hu answers and whatever the channel does  *)
(* to it, a refusal means nothing was done, a success and a numbered       *)
(* notification failure that it was, absence is only what szamlazz.hu      *)
(* said, and only a key it knows passes check_account.  For every set of   *)
(* error code texts.                                                       *)
(***************************************************************************)
THEOREM CratesOutcomesAreTrue == Spec => []OutcomesAreTrue
<1>1. ASSUME CratesInv PROVE OutcomesAreTrue
  BY <1>1, CratesBounds, ExchangeSays DEF CratesInv, OutcomesAreTrue
<1> QED BY <1>1, CratesInvariance, PTL

=============================================================================
