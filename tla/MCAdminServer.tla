--------------------------- MODULE MCAdminServer ----------------------------
(* A small instance of AdminServer for TLC: two keys, of which one has a   *)
(* prefix of its own, and two requests for one of them.                    *)
EXTENDS AdminServer, TLC

CONSTANTS a, b, r1, r2, r3

KeyOfTwoKeys == r1 :> a @@ r2 :> b @@ r3 :> a

\* "" or "*", "a*", "a", and "b".
Patterns ==
    {[wild |-> TRUE, keys |-> {a, b}], [wild |-> TRUE, keys |-> {a}],
     [wild |-> FALSE, keys |-> {a}], [wild |-> FALSE, keys |-> {b}]}

\* The endpoint with a pipe of a is of the other api, and so is not read.
Endpoints(api, addresses) ==
    [api |-> api, type |-> "endpoints", decodes |-> TRUE, addresses |-> addresses]
Garbage == [api |-> "v3", type |-> "endpoints", decodes |-> FALSE, addresses |-> {}]
Payloads ==
    a :> [api |-> "v2", resources |-> {Endpoints("v2", {"socket", "named"}), Endpoints("v3", {"other"})}]
    @@ b :> [api |-> "v3", resources |-> {Garbage, Endpoints("v3", {"socket", "other"})}]

\* Requests of one key are interchangeable.
SameKey == Permutations({r1, r3})
=============================================================================
