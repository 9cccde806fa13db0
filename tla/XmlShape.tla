------------------------------ MODULE XmlShape ------------------------------
(***************************************************************************)
(* The two XML boundaries of the repository, one event at a time.           *)
(*                                                                         *)
(*   "push"     szamlazz-adatkapcsolat, document/xml.rs: the body of a      *)
(*              pushed document must be one document whose every element    *)
(*              is in the document's namespace; a DTD in the prolog is      *)
(*              checked and hidden;                                         *)
(*   "response" szamlazz-agent, xml.rs: the body of an Agent answer must be  *)
(*              one document with an expected root; foreign subtrees are    *)
(*              legal and are replaced by a placeholder before the typed    *)
(*              parse (protocol_text); a DTD is refused.                    *)
(*                                                                         *)
(* Both use a NamespaceReader that keeps the scopes of namespace bindings   *)
(* itself, with a pop that is delayed to the next event.  The tokenizers     *)
(* (quick-xml, xmlparser) are external: an event is what they deliver.  The  *)
(* two passes over an answer, response_root and protocol_text, are           *)
(* deterministic folds over the same events and advance together here.       *)
(*                                                                         *)
(* Reference variables: open (the elements that are open, with what each     *)
(* declares), roots, started, dtd, due and wellformed restate the events     *)
(* read by the XML grammar, without the reader's counters.                   *)
(***************************************************************************)
EXTENDS Integers, Sequences, SequencesExt

CONSTANTS Surfaces,     \* subset of {"push", "response"}
          MaxDepth      \* how deep elements nest in an instance

SurfacesAssumption == Surfaces \subseteq {"push", "response"}
MaxDepthAssumption == MaxDepth \in Nat \ {0}

VARIABLES surface, scopes, pendingPop, depth, seenRoot, first, dirty, skipped,
          emitted, verdict, open, roots, started, dtd, due, wellformed

vars == <<surface, scopes, pendingPop, depth, seenRoot, first, dirty, skipped,
          emitted, verdict, open, roots, started, dtd, due, wellformed>>

reader == <<scopes, pendingPop, depth, seenRoot, first, dirty, skipped, emitted, verdict>>
reference == <<open, roots, started, dtd, due, wellformed>>

-----------------------------------------------------------------------------
(* Events *)

QPrefixes == {"", "p"}
Namespaces == {"none", "protocol", "foreign"}
Bindings == [QPrefixes -> Namespaces]
Unbound == [p \in QPrefixes |-> "none"]

\* What one start tag declares: nothing, or one prefix.  A named prefix bound
\* to "none" is xmlns:p="", a default one is xmlns="".
Declarations == {<<>>} \cup (QPrefixes \X Namespaces)

\* A start or empty tag: its prefix, its declaration, whether its local name
\* is an expected root's, and whether its attributes resolve to distinct
\* expanded names.
Elements == [tag : {"start", "empty"}, prefix : QPrefixes, declares : Declarations,
             named : BOOLEAN, attributes : {"distinct"}]
            \cup [tag : {"start"}, prefix : {""}, declares : {<<"", "protocol">>},
                  named : {TRUE}, attributes : {"clash"}]

\* Everything else the tokenizers deliver.  "forbidden" is text the structural
\* reader passes and the lexical pass refuses; "text" is not all white space.
Others == {"declaration", "bad_declaration", "text", "space", "forbidden", "cdata",
           "reference", "comment", "instruction", "bad_instruction", "doctype",
           "bad_doctype", "end", "eof"}

Declare(bindings, declares) ==
  IF declares = <<>> THEN bindings ELSE [bindings EXCEPT ![declares[1]] = declares[2]]

\* "xmlns:p=''" unbinds a named prefix, which Namespaces in XML 1.0 forbids.
LegalDeclaration(declares) == ~(declares # <<>> /\ declares[1] # "" /\ declares[2] = "none")

-----------------------------------------------------------------------------
(* The reader *)

\* read_resolved_event: the scope of an ended element is popped only now.
Settled == IF pendingPop THEN Front(scopes) ELSE scopes
Scope == IF Settled = <<>> THEN Unbound ELSE Last(Settled)

NamespaceOf(e) == Declare(Scope, e.declares)[e.prefix]

\* A prefix that is bound to nothing is ResolveResult::Unknown; an element
\* without prefix and binding is merely in no namespace.
Resolves(e) == e.prefix = "" \/ NamespaceOf(e) # "none"

\* NamespaceReader::push
PushAccepts(e) == LegalDeclaration(e.declares) /\ e.attributes = "distinct"

Refuse ==
  /\ verdict' = "refused"
  /\ emitted' = <<>>
  /\ UNCHANGED <<scopes, pendingPop, depth, seenRoot, first, dirty, skipped>>

\* Document::identify and root_kind: the root is a known one and declares the
\* namespace of its own prefix itself.
Identified(e) == e.named /\ e.declares = <<e.prefix, "protocol">>

\* check_namespace, on every element of a push; response_root, on the root.
RightNamespace(e) ==
  \/ surface = "push" /\ NamespaceOf(e) = "protocol"
  \/ surface = "response" /\ (depth > 0 \/ (e.named /\ NamespaceOf(e) = "protocol"))

ElementAccepted(e) ==
  /\ PushAccepts(e)
  /\ Resolves(e)
  /\ RightNamespace(e)
  /\ depth = 0 => ~seenRoot /\ (surface = "push" => Identified(e))

\* protocol_text: a foreign element becomes an empty placeholder, what is below
\* it is skipped, whatever namespace it returns to.
Project(e) ==
  IF skipped > 0 THEN <<>>
  ELSE IF NamespaceOf(e) # "protocol" THEN <<"placeholder">> ELSE <<e.tag>>

\* Variant: the elements below a foreign one are not counted.
SkippedShallow(e) ==
  IF e.tag = "empty" THEN skipped ELSE IF NamespaceOf(e) # "protocol" THEN 1 ELSE skipped

SkippedAfter(e) ==
  IF e.tag = "empty" THEN skipped
  ELSE IF skipped > 0 THEN skipped + 1
  ELSE IF NamespaceOf(e) # "protocol" THEN 1 ELSE 0

\* A start or empty tag, in the order of read_resolved_event, response_root or
\* validate_document, and protocol_text.
ReadElement(e) ==
  IF ElementAccepted(e)
  THEN /\ scopes' = Append(Settled, Declare(Scope, e.declares))
       /\ pendingPop' = (e.tag = "empty")
       /\ depth' = IF e.tag = "empty" THEN depth ELSE depth + 1
       /\ seenRoot' = TRUE
       /\ first' = FALSE
       /\ emitted' = Project(e)
       /\ skipped' = SkippedAfter(e)
       /\ UNCHANGED <<dirty, verdict>>
  ELSE Refuse

\* Variant: the depth is decremented unchecked.
ReadEndUnchecked ==
  /\ scopes' = Settled
  /\ pendingPop' = FALSE
  /\ depth' = depth - 1
  /\ UNCHANGED <<seenRoot, first, dirty, skipped, emitted, verdict>>

ReadEnd ==
  IF depth > 0
  THEN /\ scopes' = Settled
       /\ pendingPop' = TRUE
       /\ depth' = depth - 1
       /\ first' = FALSE
       /\ skipped' = IF skipped > 0 THEN skipped - 1 ELSE 0
       /\ emitted' = IF skipped > 0 THEN <<>> ELSE <<"end">>
       /\ UNCHANGED <<seenRoot, dirty, verdict>>
  ELSE Refuse

\* The document's own content, and what is only legal inside the root.  A DTD
\* of a push is hidden by without_declaration, which stops at the first start
\* tag and hides one declaration; a "bad_doctype" breaks the DTD grammar.
ReadsOn(o) ==
  \/ o = "declaration" /\ first
  \/ o \in {"text", "forbidden", "cdata", "reference"} /\ depth > 0
  \/ o \in {"space", "comment", "instruction"}
  \/ o = "doctype" /\ surface = "push" /\ ~seenRoot /\ ~dtd

ReadOther(o) ==
  IF ReadsOn(o)
  THEN /\ scopes' = Settled
       /\ pendingPop' = FALSE
       /\ first' = FALSE
       /\ dirty' = (dirty \/ o = "forbidden")
       /\ emitted' = IF skipped > 0 \/ depth = 0 THEN <<>> ELSE <<o>>
       /\ UNCHANGED <<depth, seenRoot, skipped, verdict>>
  ELSE Refuse

\* Eof: the document is complete, and the lexical pass agrees.
ReadEof ==
  IF depth = 0 /\ seenRoot /\ ~dirty
  THEN verdict' = "accepted" /\ emitted' = <<>>
       /\ UNCHANGED <<scopes, pendingPop, depth, seenRoot, first, dirty, skipped>>
  ELSE Refuse

-----------------------------------------------------------------------------
(* The reference: the same events by the grammar *)

\* What a prefix means where the elements `stack` are open: the binding of the
\* innermost element that declares it.
Meaning(stack, prefix) ==
  LET declaring == {i \in 1..Len(stack) :
                      stack[i].declares # <<>> /\ stack[i].declares[1] = prefix}
  IN IF declaring = {} THEN "none"
     ELSE stack[CHOOSE i \in declaring : \A j \in declaring : j <= i].declares[2]

MeaningOf(e) == Meaning(Append(open, e), e.prefix)

LegalElement(e) ==
  /\ LegalDeclaration(e.declares)
  /\ e.attributes = "distinct"
  /\ e.prefix = "" \/ MeaningOf(e) # "none"
  /\ surface = "push" => MeaningOf(e) = "protocol"
  /\ open = <<>> => roots = 0 /\ e.named /\ MeaningOf(e) = "protocol"

LegalOther(o) ==
  \/ o = "declaration" /\ ~started
  \/ o \in {"text", "cdata", "reference"} /\ open # <<>>
  \/ o \in {"space", "comment", "instruction"}
  \/ o = "doctype" /\ surface = "push" /\ roots = 0 /\ ~dtd
  \/ o = "end" /\ open # <<>>
  \/ o = "eof" /\ open = <<>> /\ roots = 1

\* Every open element speaks the protocol: what is said here is the answer's.
Speaks(stack) == \A i \in 1..Len(stack) : stack[i].meaning = "protocol"

ReferElement(e) ==
  LET known == [declares |-> e.declares, meaning |-> MeaningOf(e)] IN
  /\ wellformed' = (wellformed /\ LegalElement(e))
  /\ open' = IF e.tag = "start" THEN Append(open, known) ELSE open
  /\ roots' = IF open = <<>> THEN roots + 1 ELSE roots
  /\ started' = TRUE
  /\ due' = IF ~Speaks(open) THEN <<>>
            ELSE IF MeaningOf(e) = "protocol" THEN <<e.tag>> ELSE <<"placeholder">>
  /\ UNCHANGED dtd

ReferOther(o) ==
  /\ wellformed' = (wellformed /\ LegalOther(o))
  /\ open' = IF o = "end" /\ open # <<>> THEN Front(open) ELSE open
  /\ started' = TRUE
  /\ dtd' = (dtd \/ o = "doctype")
  /\ due' = IF o = "eof" \/ open = <<>> \/ ~Speaks(open) THEN <<>> ELSE <<o>>
  /\ UNCHANGED roots

-----------------------------------------------------------------------------
Init ==
  /\ surface \in Surfaces
  /\ scopes = <<>> /\ pendingPop = FALSE /\ depth = 0 /\ seenRoot = FALSE
  /\ first = TRUE /\ dirty = FALSE /\ skipped = 0 /\ emitted = <<>>
  /\ verdict = "reading"
  /\ open = <<>> /\ roots = 0 /\ started = FALSE /\ dtd = FALSE /\ due = <<>>
  /\ wellformed = TRUE

Element ==
  /\ verdict = "reading"
  /\ Len(open) < MaxDepth
  /\ \E e \in Elements : ReadElement(e) /\ ReferElement(e)
  /\ UNCHANGED surface

EndTag ==
  /\ verdict = "reading"
  /\ ReadEnd /\ ReferOther("end")
  /\ UNCHANGED surface

Other ==
  /\ verdict = "reading"
  /\ \E o \in Others \ {"end", "eof"} : ReadOther(o) /\ ReferOther(o)
  /\ UNCHANGED surface

Eof ==
  /\ verdict = "reading"
  /\ ReadEof /\ ReferOther("eof")
  /\ UNCHANGED surface

Next == Element \/ EndTag \/ Other \/ Eof

Spec == Init /\ [][Next]_vars

-----------------------------------------------------------------------------
(* Properties *)

\* Types of the reader's state: the scopes kept are bindings, the counters are
\* the usizes of response_root, validate_document and protocol_text.
TypeOK ==
  /\ surface \in Surfaces
  /\ scopes \in Seq(Bindings) /\ pendingPop \in BOOLEAN
  /\ depth \in Nat /\ skipped \in Nat
  /\ {seenRoot, first, dirty, started, dtd, wellformed} \subseteq BOOLEAN
  /\ verdict \in {"reading", "accepted", "refused"}

\* The delayed pop never leaks a scope: after any events the bindings in force
\* are exactly those of the elements that are open, so neither an empty
\* element's xmlns nor an ended one's reaches its siblings.
ScopesAreTheOpenElements ==
  verdict = "reading" => \A p \in QPrefixes : Scope[p] = Meaning(open, p)

\* The boundary reads exactly the documents: a body is refused if and only if
\* some event of it is illegal where it stands (a second root, content outside
\* the root, a late declaration, an undeclared prefix, a truncated body), and
\* accepted only when it is complete.
ReadsExactlyDocuments ==
  /\ verdict = "reading" => wellformed \/ dirty
  /\ verdict = "refused" => ~wellformed
  /\ verdict = "accepted" => wellformed /\ open = <<>> /\ roots = 1 /\ ~dirty

\* Only the protocol's own elements reach the typed parse of an answer: what is
\* projected is what stands below protocol elements only, and all of it, so a
\* foreign subtree can neither supply a verdict nor hide one.
OnlyTheProtocolSpeaks ==
  surface = "response" /\ verdict = "reading" => emitted = due
=============================================================================
