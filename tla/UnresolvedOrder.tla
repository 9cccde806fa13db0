--------------------------- MODULE UnresolvedOrder ---------------------------
(***************************************************************************)
(* What the Order object promises about its external writes, with nothing  *)
(* said of journals, permits, requests or queries: at any moment at most   *)
(* one write of an order is unresolved, a write takes effect at most once  *)
(* and only while it is the unresolved one, and once it has been resolved  *)
(* it never takes effect again.                                            *)
(***************************************************************************)
CONSTANTS Inv, NoInv

VARIABLES
  unresolved, \* the unresolved write, or NoInv
  effects     \* the writes that have taken effect

avars == <<unresolved, effects>>

AInit == unresolved = NoInv /\ effects = {}

\* A write is admitted: it becomes the one unresolved write.
Admit(i) ==
  /\ unresolved = NoInv /\ i \notin effects
  /\ unresolved' = i
  /\ UNCHANGED effects

\* It takes effect, whether or not anyone learns of it.
TakeEffect(i) ==
  /\ unresolved = i /\ i \notin effects
  /\ effects' = effects \cup {i}
  /\ UNCHANGED unresolved

\* Its outcome is established.
Resolve ==
  /\ unresolved # NoInv
  /\ unresolved' = NoInv
  /\ UNCHANGED effects

ANext == Resolve \/ \E i \in Inv : Admit(i) \/ TakeEffect(i)

ASpec == AInit /\ [][ANext]_avars
=============================================================================
