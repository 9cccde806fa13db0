------------------------------ MODULE MCCrates ------------------------------
EXTENDS Crates

(* Both orders of two members, and an empty fan-out. *)

MCFanouts == {<<"archiver", "app">>, <<"app", "archiver">>, << >>}

(* An invoice that loses its PDF, and one that gains it and changes its month. *)

MCContents ==
  {<<[pdf |-> TRUE, folder |-> "one"], [pdf |-> FALSE, folder |-> "one"]>>,
   <<[pdf |-> FALSE, folder |-> "undated"], [pdf |-> TRUE, folder |-> "one"]>>}
=============================================================================
