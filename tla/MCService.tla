------------------------------ MODULE MCService ------------------------------
EXTENDS Service, TLC

MCSymmetry == Permutations(Calls)

(* Szamlazz.Agent.storno: an unmanaged invoice beside a proforma, and       *)
(* beside an invoice of an order.                                           *)

Doc(kind, order) ==
  [kind |-> kind, of |-> 0, ext |-> FALSE, order |-> order, reversed |-> FALSE, gone |-> FALSE,
   by |-> "outside"]

MCHoldings == {<<Doc("invoice", FALSE), Doc("proforma", FALSE)>>,
               <<Doc("invoice", FALSE), Doc("invoice", TRUE)>>}

(* Account tables: two usable scopes and an unusable one, entries that      *)
(* agree or differ in id, key and every way of writing an endpoint.         *)

Plain == [scheme |-> "https", host |-> "a", userinfo |-> FALSE,
          spelling |-> "canonical", slash |-> FALSE, fragment |-> FALSE]

Written == {Plain, [Plain EXCEPT !.spelling = "variant"], [Plain EXCEPT !.slash = TRUE],
            [Plain EXCEPT !.fragment = TRUE], [Plain EXCEPT !.scheme = "http"],
            [Plain EXCEPT !.host = "b"]}

Refused == {[Plain EXCEPT !.scheme = "ftp"], [Plain EXCEPT !.host = "none"],
            [Plain EXCEPT !.userinfo = TRUE]}

Entry(id, key, endpoint) ==
  [id |-> id, key |-> key, endpoint |-> endpoint, language |-> "known", notText |-> {}]

MCSingles ==
  {Entry(id, key, e) : id \in {"id1", "id2"}, key \in {"k1", "k2"}, e \in Written}
  \cup {Entry("id1", "k1", e) : e \in Refused}
  \cup {Entry("blank", "k1", Plain), Entry("id1", "blank", Plain),
        [Entry("id1", "k1", Plain) EXCEPT !.language = "unknown"],
        [Entry("id1", "k1", Plain) EXCEPT !.notText = {"aggregator"}]}

MCTables ==
  {<< >>} \cup UNION {[S -> MCSingles] : S \in {{"acme"}, {"acme", "beta"}}}
  \cup [{"acme", "Beta!"} -> {Entry("id1", "k1", Plain)}]

(* The prologue, under an exclusive handler that reads and hints, recover   *)
(* with its bounded verification, and the handlers of Szamlazz.Agent.       *)

MCHandlers == {[retains |-> TRUE, body |-> <<"prerequisite", "hint">>],
               [retains |-> TRUE, body |-> <<"verification", "prerequisite">>],
               [retains |-> FALSE, body |-> <<"prerequisite", "write">>],
               [retains |-> FALSE, body |-> <<"prerequisite", "hint">>]}

(* Configurations around every limit: the issue table over the product of   *)
(* its values, the other tables over sound and unsound policies.            *)

Policy(max, initial, factor, delay_cap, duration) ==
  [max_attempts |-> max, initial_delay |-> initial, factor |-> factor,
   max_delay |-> delay_cap, max_duration |-> duration]

Toml(issue, read, query, resolve) ==
  [issue |-> issue, read |-> read, query |-> query, resolve |-> resolve]

IssuePolicies ==
  {Policy(a, i, f, m, d) : a \in {Unset, 0, 1, 3}, i \in {0, 89999, 90000, 120500},
     f \in {1, 2, 3, 4, Infinite}, m \in {60000, 90000, 600000}, d \in {0, 400000}}

ReadDefault == Policy(5, 5000, 4, 60000, 300000)
ResolveDefault == Policy(Unset, 1000, 4, 10000, 60000)

OtherPolicies ==
  {ReadDefault, Policy(1, 500, 2, 500, 1500), Policy(0, 1, 2, 1, 1), Policy(2, 10, 2, 1, 1),
   Policy(2, 1, 1, 1, 1), Policy(Unset, 0, 2, 0, 4000)}

MCConfigs ==
  {Toml(issue, ReadDefault, Unset, ResolveDefault) : issue \in IssuePolicies}
  \cup {Toml(issue, read, query, resolve) :
          issue \in {Policy(5, 120000, 4, 600000, 3600000), Policy(5, 1000, 4, 600000, 3600000)},
          read \in OtherPolicies, query \in OtherPolicies \cup {Unset},
          resolve \in OtherPolicies \cup {ResolveDefault}}
=============================================================================
