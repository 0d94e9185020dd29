------------------------------ MODULE MCMapper ------------------------------
(* Small configurations, nodes and requests for Mapper. *)
EXTENDS Mapper, TLC

CONSTANTS c1, c2

Exactly(s) == [kind |-> "exact", exact |-> s, regex |-> NoRegex]
Regex(re) == [kind |-> "regex", exact |-> <<>>, regex |-> re]
AnyString == [kind |-> "unset", exact |-> <<>>, regex |-> NoRegex]
Action(kind, exact) == [kind |-> kind, exact |-> exact, pattern |-> NoRegex, replace |-> <<>>]
Exact == Action("exact", TRUE)
ReplaceAction(re, new) == [kind |-> "regex", exact |-> FALSE, pattern |-> re, replace |-> new]

Always == [kind |-> "any", value |-> TRUE]
TypeIs(t) == [kind |-> "type", types |-> {t}]
Id(m) == [kind |-> "id", match |-> m]
Cluster(m) == [kind |-> "cluster", match |-> m]
Locality(m) == [kind |-> "locality", match |-> m]
MetaOn(path, on, m, b) ==
    [kind |-> "metadata", path |-> path, on |-> on, match |-> m, bool |-> b]
Meta(path, m) == MetaOn(path, "string", m, FALSE)
MetaBool(path, b) == MetaOn(path, "bool", AnyString, b)
And(p, q) == [kind |-> "and", rules |-> <<p, q>>]
Or(p, q) == [kind |-> "or", rules |-> <<p, q>>]
Not(p) == [kind |-> "not", rule |-> p]

Str(s) == [kind |-> "string", str |-> s]
IdIs(action) == [kind |-> "id", action |-> action]
ClusterIs(action) == [kind |-> "cluster", action |-> action]
LocalityIs(actions) == [kind |-> "locality", actions |-> actions]
MetaIs(path, action) == [kind |-> "metadata", path |-> path, action |-> action]
NameIs(element) == [kind |-> "name", element |-> element, action |-> Exact]
AndResult(p, q) == [kind |-> "andResult", results |-> <<p, q>>]
Rule(m, r) == [match |-> m, result |-> r]

Missing(kind) == [kind |-> kind]

\* matches and results no file may hold, at the top and inside others
BadMatches == {
    Missing("nil"), Missing("unset"), Missing("node"), [Always EXCEPT !.value = FALSE],
    [kind |-> "type", types |-> {}], Id(AnyString), Cluster(AnyString),
    Locality([zone |-> AnyString]), Meta(<<>>, Exactly(<<"a">>)), Meta(<<"">>, Exactly(<<"a">>)),
    Meta(<<"m">>, AnyString), MetaOn(<<"m">>, "nil", AnyString, FALSE),
    MetaOn(<<"m">>, "unset", AnyString, FALSE),
    [kind |-> "or", rules |-> <<Always>>], And(Not(Missing("node")), Always),
    Or(Id(Exactly(<<"b">>)), Missing("node")), Not(Missing("unset"))
}
BadResults == {
    Missing("nil"), Missing("unset"), Missing("node"), IdIs(Action("exact", FALSE)),
    ClusterIs(Action("unset", FALSE)), IdIs(Action("regex", FALSE)),
    LocalityIs([zone |-> Action("unset", FALSE)]), MetaIs(<<>>, Exact),
    MetaIs(<<"m">>, Action("nil", FALSE)), NameIs(-1),
    [NameIs(0) EXCEPT !.action = Action("nil", FALSE)],
    [kind |-> "andResult", results |-> <<Str(<<"x">>)>>], AndResult(Str(<<>>), Missing("node"))
}
BadConfig ==
    {<<>>, <<<<>>>>, <<<<Rule(Always, Str(<<"x">>))>>, <<>>>>}
        \union {<<<<Rule(Always, IdIs(Exact)), Rule(m, Str(<<"x">>))>>>> : m \in BadMatches}
        \union {<<<<Rule(Always, Str(<<"x">>))>>, <<Rule(Always, r)>>>> : r \in BadResults}

GoodConfig == {
    \* cluster and id, each a fragment
    <<<<Rule(Always, ClusterIs(Exact))>>, <<Rule(Always, IdIs(Exact))>>>>,
    \* two rules of one fragment, which may both match
    <<<<Rule(Cluster(Exactly(<<"a">>)), Str(<<"x">>)), Rule(Always, IdIs(Exact))>>>>,
    \* by type, with a rule on metadata that a request without them fails
    <<<<Rule(And(TypeIs(<<"lds">>), Meta(<<"m">>, Exactly(<<"a">>))), Str(<<"x">>)),
        Rule(TypeIs(<<"eds">>), NameIs(0))>>>>,
    \* a negated match on nested metadata, and a fragment of two metadata values
    <<<<Rule(Not(Meta(<<"s", "m">>, Regex("a"))), Str(<<"x">>)),
        Rule(Always, AndResult(MetaIs(<<"m">>, Exact), Str(<<"z">>)))>>>>,
    \* locality
    <<<<Rule(Locality([zone |-> Exactly(<<"a">>)]), Str(<<"x">>)),
        Rule(Not(Locality([zone |-> Exactly(<<"a">>)])),
             LocalityIs([region |-> Exact, zone |-> Exact]))>>>>,
    \* an alternative that needs metadata, after one that does not
    <<<<Rule(Or(Id(Regex("b")), MetaBool(<<"t">>, TRUE)), Str(<<"x">>)),
        Rule(And(Id(Exactly(<<"a">>)), Not(Cluster(Regex(BadRegex)))), Str(<<"y">>))>>>>,
    \* a regular expression that does not compile, behind others
    <<<<Rule(Or(Cluster(Exactly(<<"a">>)), Id(Regex(BadRegex))), Str(<<"x">>)),
        Rule(Not(And(Cluster(Exactly(<<"a">>)), Meta(<<"m">>, Exactly(<<"a">>)))), Str(<<"y">>))>>>>,
    \* find and replace, and two values without a separator
    <<<<Rule(Always, IdIs(ReplaceAction("b", <<>>)))>>,
      <<Rule(Always, AndResult(ClusterIs(Exact), NameIs(0)))>>>>,
    \* the field the relay itself writes
    <<<<Rule(Or(Meta(<<OwnField>>, Exactly(<<"own">>)), Id(Exactly(<<"b">>))), Str(<<"x">>)),
        Rule(Always, Str(<<"y">>))>>>>
}
MCConfig == GoodConfig \union BadConfig

\* The predicates of these configurations, once and for all: TLC evaluates a
\* definition without parameters once, but one that replaces a constant each time.
RECURSIVE AllOf(_), HeightOf(_)
AllOf(p) == {p} \union UNION {AllOf(q) : q \in Members(p)}
HeightOf(p) == IF Members(p) = {} THEN 0
               ELSE 1 + Max({HeightOf(q) : q \in Members(p)})
Rules == UNION {ToSet(FlattenSeq(c)) : c \in MCConfig}
Matching == UNION {AllOf(rule.match) : rule \in Rules}
Resulting == UNION {AllOf(rule.result) : rule \in Rules}
Heights == [p \in Matching \union Resulting |-> HeightOf(p)]
MCMatchPredicate == Matching
MCResultPredicate == Resulting
MCHeight == Heights

Base == [id |-> <<"a">>, cluster |-> <<"a">>,
         locality |-> [region |-> <<"a">>, zone |-> <<"a">>, subzone |-> <<>>],
         metadata |-> NoStruct]
MCNode == {
    Base,
    [Base EXCEPT !.id = <<"a", "b">>],
    [Base EXCEPT !.id = <<"b">>],
    [Base EXCEPT !.id = <<"b", "a">>],
    [Base EXCEPT !.cluster = <<"a", "b">>],
    [Base EXCEPT !.id = <<"_", "a">>],
    [Base EXCEPT !.locality.zone = <<"b">>],
    [Base EXCEPT !.locality.subzone = <<"a">>],
    [Base EXCEPT !.metadata = StructOf(<<>>)],
    [Base EXCEPT !.metadata = StructOf([m |-> StringValue(<<"a">>)])],
    [Base EXCEPT !.metadata = StructOf([m |-> StructValue(<<>>), t |-> BoolValue(TRUE)])],
    [Base EXCEPT !.metadata = StructOf([m |-> StringValue(<<"b">>),
                                        s |-> StructValue([m |-> StringValue(<<"a">>)])])]
}
MCAtom == {"a", "b", "x", "y", "z", "own", "_", "|"}
MCValue == {StringValue(s) : s \in {<<>>, <<"a">>, <<"b">>, <<"own">>}}
    \union {BoolValue(TRUE), StructValue(<<>>), StructValue([m |-> StringValue(<<"a">>)])}
MCType == {<<"lds">>, EndpointType}
MCNames == {<<>>, <<<<"a">>>>, <<<<"b">>, <<"a">>>>}
MCPrefix == {<<>>, <<"a">>}
SameClients == Permutations(Client)
=============================================================================
