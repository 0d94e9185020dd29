----------------------------- MODULE KeyerConfig -----------------------------
(***************************************************************************)
(* The validation of a keyer configuration                                 *)
(* (pkg/api/aggregation/v1/aggregation.pb.validate.go, called by           *)
(* FromYAMLToKeyerConfiguration of util/yamlproto): what the server and    *)
(* the configuration-validator tool accept of a file.                      *)
(*                                                                         *)
(* A configuration is a sequence of fragments, a fragment a sequence of    *)
(* rules, a rule a match predicate and a result predicate.  A predicate is *)
(* a record whose kind is the field of its oneof that the file sets; the   *)
(* oneofs of RequestNodeMatch and RequestNodeFragment are merged into it.  *)
(* "unset" is a message whose oneof is empty, "node" one with an empty     *)
(* oneof of the merged ones, "nil" a message the file leaves out.          *)
(*                                                                         *)
(* Predicates hold predicates, to any depth.  What the code computes by    *)
(* recursion on them is a recursive function on the predicates of the      *)
(* files, which are trees: Height falls from a predicate to its members.   *)
(***************************************************************************)
EXTENDS Integers, Sequences

CONSTANTS
    MatchPredicate,   \* the match predicates of the files, the inner ones too
    ResultPredicate,  \* the result predicates
    Height            \* Height[p]: how deep predicates are nested in p

Predicate == MatchPredicate \union ResultPredicate

\* The predicates right inside p.
Members(p) ==
    CASE p.kind \in {"and", "or"} -> {p.rules[i] : i \in DOMAIN p.rules}
      [] p.kind = "not" -> {p.rule}
      [] p.kind = "andResult" -> {p.results[i] : i \in DOMAIN p.results}
      [] OTHER -> {}

MatchKinds == {"and", "or", "not", "any", "type", "id", "cluster", "locality", "metadata",
               "node", "unset", "nil"}
ResultKinds == {"andResult", "string", "id", "cluster", "locality", "metadata", "name",
                "node", "unset", "nil"}

IsAction(action) ==
    action.kind \in {"exact", "regex", "unset", "nil"} /\ action.exact \in BOOLEAN

\* Predicates are trees of the messages of aggregation.proto.  A oneof or a list
\* that is set has messages in it: only what is left out of a rule is "nil".
ASSUME KeyerAssumption ==
    /\ Height \in [Predicate -> Nat]
    /\ \A p \in Predicate : \A q \in Members(p) : Height[q] < Height[p] /\ q.kind # "nil"
    /\ \A p \in MatchPredicate :
        /\ p.kind \in MatchKinds
        /\ p.kind \in {"and", "or"} => p.rules \in Seq(MatchPredicate)
        /\ p.kind = "not" => p.rule \in MatchPredicate
        /\ p.kind = "any" => p.value \in BOOLEAN
        /\ p.kind = "metadata" => p.on \in {"string", "bool", "unset", "nil"}
    /\ \A p \in ResultPredicate :
        /\ p.kind \in ResultKinds
        /\ p.kind = "andResult" => p.results \in Seq(ResultPredicate)
        /\ p.kind \in {"id", "cluster", "metadata", "name"} => IsAction(p.action)
        /\ p.kind = "locality" => \A part \in DOMAIN p.actions : IsAction(p.actions[part])

\* p, and the predicates in it at any depth, the inner ones being those of inside.
InsideOf(inside, p) == {p} \union UNION {inside[q] : q \in Members(p)}
Inside(p) == LET inside[q \in Predicate] == InsideOf(inside, q) IN inside[p]

-----------------------------------------------------------------------------

\* StringMatch: one of exact_match and regex_match
ValidStringMatch(m) == m.kind # "unset"

\* the parts that are not in the file have nothing to validate
ValidLocalityMatch(m) == \A part \in DOMAIN m : ValidStringMatch(m[part])

ValidPathSegment(segment) == segment # ""
ValidPath(path) == path # <<>> /\ \A i \in DOMAIN path : ValidPathSegment(path[i])

\* on is the field of StructValueMatch's oneof
ValidStructValueMatch(p) ==
    CASE p.on = "string" -> ValidStringMatch(p.match)
      [] p.on = "bool" -> TRUE
      [] p.on = "unset" -> FALSE

ValidNodeMetadataMatch(p) ==
    /\ ValidPath(p.path)
    /\ p.on # "nil"
    /\ ValidStructValueMatch(p)

ValidRequestNodeMatch(p) ==
    CASE p.kind \in {"id", "cluster"} -> ValidStringMatch(p.match)
      [] p.kind = "locality" -> ValidLocalityMatch(p.match)
      [] p.kind = "metadata" -> ValidNodeMetadataMatch(p)
      [] p.kind = "node" -> FALSE

ValidRequestTypeMatch(p) == p.types # {}

\* mutant: the members of a set are not validated
ValidMatchSetCounts(rules, valid) == Len(rules) >= 2
ValidMatchSet(rules, valid) == Len(rules) >= 2 /\ \A i \in DOMAIN rules : valid[rules[i]]

ValidMatchOf(valid, p) ==
    CASE p.kind \in {"and", "or"} -> ValidMatchSet(p.rules, valid)
      [] p.kind = "not" -> valid[p.rule]
      [] p.kind = "any" -> p.value
      [] p.kind = "type" -> ValidRequestTypeMatch(p)
      [] p.kind = "unset" -> FALSE
      [] p.kind = "nil" -> TRUE
      [] OTHER -> ValidRequestNodeMatch(p)
ValidMatchPredicate(p) ==
    LET valid[q \in MatchPredicate] == ValidMatchOf(valid, q) IN valid[p]

-----------------------------------------------------------------------------
ValidRegexAction(action) == action.pattern # ""

\* ResultAction: one of exact, which must be true, and regex_action
ValidResultAction(action) ==
    CASE action.kind = "exact" -> action.exact
      [] action.kind = "regex" -> ValidRegexAction(action)
      [] action.kind = "unset" -> FALSE
      [] action.kind = "nil" -> TRUE

\* an action the message requires
ValidRequiredAction(action) == action.kind # "nil" /\ ValidResultAction(action)

ValidLocalityResultAction(actions) ==
    \A part \in DOMAIN actions : ValidResultAction(actions[part])

ValidNodeMetadataAction(p) == ValidPath(p.path) /\ ValidRequiredAction(p.action)

ValidResourceNamesFragment(p) == p.element >= 0 /\ ValidRequiredAction(p.action)

ValidRequestNodeFragment(p) ==
    CASE p.kind \in {"id", "cluster"} -> ValidResultAction(p.action)
      [] p.kind = "locality" -> ValidLocalityResultAction(p.actions)
      [] p.kind = "metadata" -> ValidNodeMetadataAction(p)
      [] p.kind = "node" -> FALSE

ValidAndResult(results, valid) ==
    Len(results) >= 2 /\ \A i \in DOMAIN results : valid[results[i]]

ValidResultOf(valid, p) ==
    CASE p.kind = "andResult" -> ValidAndResult(p.results, valid)
      [] p.kind = "name" -> ValidResourceNamesFragment(p)
      [] p.kind = "string" -> TRUE
      [] p.kind = "unset" -> FALSE
      [] p.kind = "nil" -> TRUE
      [] OTHER -> ValidRequestNodeFragment(p)
ValidResultPredicate(p) ==
    LET valid[q \in ResultPredicate] == ValidResultOf(valid, q) IN valid[p]

-----------------------------------------------------------------------------
ValidRule(rule) ==
    /\ rule.match.kind # "nil" /\ ValidMatchPredicate(rule.match)
    /\ rule.result.kind # "nil" /\ ValidResultPredicate(rule.result)

ValidFragment(rules) == rules # <<>> /\ \A i \in DOMAIN rules : ValidRule(rules[i])

ValidKeyerConfiguration(config) ==
    config # <<>> /\ \A i \in DOMAIN config : ValidFragment(config[i])
=============================================================================
