------------------------------- MODULE Mapper -------------------------------
(***************************************************************************)
(* The request mapper (internal/app/mapper/mapper.go): GetKey turns a      *)
(* request into an aggregated key by the rules of a configuration.         *)
(*                                                                         *)
(* The key of a request is computed more than once: by CreateWatch, and    *)
(* again by the admin's wildcard requests, for every open watch            *)
(* (getAggregatedKeys).  In between, SendMsg of the key's stream writes    *)
(* into the request that opened it, and the node it writes into belongs to *)
(* all requests of one downstream stream.  The state machine at the end    *)
(* asks whether the two computations agree.  Its configurations are those  *)
(* of KeyerConfig, of which the relay starts with the valid ones only; the *)
(* predicates are defined on the others as well, as the code's are.        *)
(*                                                                         *)
(* A string is a sequence of atoms, "" is <<>>.  A regular expression is   *)
(* an atom, which matches wherever the atom occurs (they are not           *)
(* anchored); NoRegex is none at all, BadRegex does not compile.           *)
(***************************************************************************)
EXTENDS KeyerConfig, SequencesExt

CONSTANTS
    Config,        \* what files may hold: valid and invalid configurations
    Client,        \* downstream streams, each of one resource type
    Node,          \* the nodes clients describe themselves with
    Type, Names,   \* type URLs; lists of resource names
    Prefix,        \* prefixes of keys the admin clears
    NoClient,
    Atom,          \* what strings are made of
    Value          \* what fields of node metadata hold, the inner ones too

String == Seq(Atom)
Part == {"region", "zone", "subzone"}
Separator == <<"_">>
EndpointType == <<"eds">>
OwnField == "xdsrelay_node_metadata"
NoRegex == ""
BadRegex == "("

Occurs(re, str) == \E i \in DOMAIN str : str[i] = re
\* the empty expression matches before and after every atom
Replace(re, new, str) ==
    IF re = NoRegex THEN FlattenSeq([i \in DOMAIN str |-> new \o <<str[i]>>]) \o new
    ELSE FlattenSeq([i \in DOMAIN str |-> IF str[i] = re THEN new ELSE <<str[i]>>])
JoinWithout(parts, sep) == FlattenSeq(parts)  \* mutant: the separator is lost
Join(parts, sep) ==
    FlattenSeq([i \in DOMAIN parts |-> IF i = 1 THEN parts[1] ELSE sep \o parts[i]])

(***************************************************************************)
(* Node metadata: a value is what the protobuf getters return of it, and   *)
(* the getters of a nil struct return no fields.                           *)
(***************************************************************************)
NoStruct == [isNil |-> TRUE, fields |-> <<>>]
StructOf(f) == [isNil |-> FALSE, fields |-> f]
StringValue(s) == [str |-> s, bool |-> FALSE, struct |-> NoStruct]
BoolValue(b) == [str |-> <<>>, bool |-> b, struct |-> NoStruct]
StructValue(f) == [str |-> <<>>, bool |-> FALSE, struct |-> StructOf(f)]

\* {the value of a field}, {} when there is none
Field(struct, key) == {struct.fields[f] : f \in {key} \cap DOMAIN struct.fields}

\* {the value path leads to}, {} when a field is missing or not a struct; no
\* path leads to a nil value, whose getters return nothing.  found[i] is the
\* value after i segments of it.
StepOf(found, i, first, path) ==
    IF i = 1 THEN first ELSE UNION {Field(value.struct, path[i]) : value \in found[i - 1]}
WalkFrom(first, path) ==
    LET found[i \in 1..Len(path)] == StepOf(found, i, first, path) IN found[Len(path)]
Walk(struct, path) ==
    IF path = <<>> THEN {StringValue(<<>>)} ELSE WalkFrom(Field(struct, path[1]), path)

(***************************************************************************)
(* A request, as the getters of RequestV2 and RequestV3 show it.           *)
(***************************************************************************)
Request(node, type, names) ==
    [typeURL |-> type, names |-> names, id |-> node.id, cluster |-> node.cluster,
     locality |-> node.locality, metadata |-> node.metadata]

(***************************************************************************)
(* Match predicates.  The outcome is "true", "false" or "error", or          *)
(* "invalid", the error for a predicate that lacks its oneof.               *)
(***************************************************************************)
Outcome(b) == IF b THEN "true" ELSE "false"

compareString(m, str) ==
    CASE m.exact # <<>> -> Outcome(str = m.exact)
      [] m.exact = <<>> /\ m.regex = BadRegex -> "error"
      [] m.exact = <<>> /\ m.regex = NoRegex -> "false"
      [] OTHER -> Outcome(Occurs(m.regex, str))

\* mutant: the zone is compared with the subzone
compareLocalityMixed(m, locality) ==
    LET outs == {compareString(m[part], locality[IF part = "zone" THEN "subzone" ELSE part]) :
                    part \in DOMAIN m}
    IN IF "error" \in outs THEN "error" ELSE Outcome("false" \notin outs)

\* all the parts are compared, whatever the first ones say
compareLocality(m, locality) ==
    LET outs == {compareString(m[part], locality[part]) : part \in DOMAIN m}
    IN IF "error" \in outs THEN "error" ELSE Outcome("false" \notin outs)

compareNodeMetadata(p, metadata) ==
    IF metadata.isNil THEN "error"
    ELSE LET found == Walk(metadata, p.path)
         IN IF found = {} THEN "false"
            ELSE LET value == CHOOSE v \in found : TRUE
                 IN CASE p.on = "string" -> compareString(p.match, value.str)
                      [] p.on = "bool" -> Outcome(p.bool = value.bool)
                      [] OTHER -> "invalid"

isLeafMatch(p, req) ==
    CASE p.kind = "any" -> Outcome(p.value)
      [] p.kind = "type" -> Outcome(req.typeURL \in p.types)
      [] p.kind = "id" -> compareString(p.match, req.id)
      [] p.kind = "cluster" -> compareString(p.match, req.cluster)
      [] p.kind = "locality" -> compareLocality(p.match, req.locality)
      [] p.kind = "metadata" -> compareNodeMetadata(p, req.metadata)
      [] p.kind = "node" -> "invalid"
      [] p.kind \in {"unset", "nil"} -> "false"

\* the first outcome that is not the given one decides
FirstOther(outs, expected) ==
    LET others == {i \in DOMAIN outs : outs[i] # expected}
    IN IF others = {} THEN expected ELSE outs[Min(others)]

isAndMatch(outs) == FirstOther(outs, "true")
isOrMatch(outs) == FirstOther(outs, "false")
isNotMatchOfError(out) == Outcome(out # "true")  \* mutant: the error is dropped
isNotMatch(out) == IF out \in {"error", "invalid"} THEN out ELSE Outcome(out = "false")

MatchOf(out, p, req) ==
    CASE p.kind = "and" -> isAndMatch([i \in DOMAIN p.rules |-> out[p.rules[i]]])
      [] p.kind = "or" -> isOrMatch([i \in DOMAIN p.rules |-> out[p.rules[i]]])
      [] p.kind = "not" -> isNotMatch(out[p.rule])
      [] OTHER -> isLeafMatch(p, req)
isMatch(p, req) == LET out[q \in MatchPredicate] == MatchOf(out, q, req) IN out[p]

(***************************************************************************)
(* Result predicates.  The outcome is a fragment, or Fail.                 *)
(***************************************************************************)
Ok(s) == [ok |-> TRUE, str |-> s]
Fail == [ok |-> FALSE, str |-> <<>>]
NonEmpty(s) == IF s = <<>> THEN Fail ELSE Ok(s)

\* any error fails the whole; otherwise the fragments are joined
JoinAll(outs, sep) ==
    IF \E i \in DOMAIN outs : ~outs[i].ok THEN Fail
    ELSE Ok(Join([i \in DOMAIN outs |-> outs[i].str], sep))

\* an action without a field is taken for a replacement of nothing by nothing
getResultFragmentFromAction(str, action) ==
    CASE action.exact -> NonEmpty(str)
      [] ~action.exact /\ action.pattern = BadRegex -> Fail
      [] OTHER -> NonEmpty(Replace(action.pattern, action.replace, str))

getFragmentFromLocalityAction(locality, actions) ==
    LET matches(part) == IF part \notin DOMAIN actions THEN <<>>
                         ELSE <<getResultFragmentFromAction(locality[part], actions[part])>>
        outs == matches("region") \o matches("zone") \o matches("subzone")
    IN IF outs = <<>> THEN Fail ELSE JoinAll(outs, <<"|">>)

getFragmentFromNodeMetadataAction(metadata, path, action) ==
    LET found == Walk(metadata, path)
    IN IF found = {} THEN Fail
       ELSE getResultFragmentFromAction((CHOOSE v \in found : TRUE).str, action)

\* {the element of names, counted from 0}, {} when there is none
Nth(names, element) == {names[i] : i \in {element + 1} \cap DOMAIN names}

getResultFromResourceNamesPredicate(names, element, action) ==
    IF Nth(names, element) = {} THEN Fail
    ELSE getResultFragmentFromAction(CHOOSE name \in Nth(names, element) : TRUE, action)

ResultOf(out, p, req) ==
    CASE p.kind = "string" -> Ok(p.str)
      [] p.kind = "id" -> getResultFragmentFromAction(req.id, p.action)
      [] p.kind = "cluster" -> getResultFragmentFromAction(req.cluster, p.action)
      [] p.kind = "locality" -> getFragmentFromLocalityAction(req.locality, p.actions)
      [] p.kind = "metadata" ->
            getFragmentFromNodeMetadataAction(req.metadata, p.path, p.action)
      [] p.kind = "name" ->
            getResultFromResourceNamesPredicate(req.names, p.element, p.action)
      [] p.kind = "andResult" -> JoinAll([i \in DOMAIN p.results |-> out[p.results[i]]], <<>>)
      [] p.kind \in {"node", "unset", "nil"} -> Ok(<<>>)
getResult(p, req) == LET out[q \in ResultPredicate] == ResultOf(out, q, req) IN out[p]

(***************************************************************************)
(* The key: the results of ALL the rules that match, of all the fragments, *)
(* or an error when a predicate or a result fails, or when no rule matches.*)
(***************************************************************************)
RulesOf(config) == FlattenSeq(config)

Fragments(config, req) ==
    LET rules == RulesOf(config)
    IN FlattenSeq([i \in DOMAIN rules |-> IF isMatch(rules[i].match, req) = "true"
                                          THEN <<getResult(rules[i].result, req)>> ELSE <<>>])

isEDS(req) == req.typeURL = EndpointType

GetKey(config, req) ==
    LET rules == RulesOf(config)
        frags == Fragments(config, req)
    IN IF \/ req.typeURL = <<>>
          \/ isEDS(req) /\ req.names = <<>>
          \/ \E i \in DOMAIN rules : isMatch(rules[i].match, req) \in {"error", "invalid"}
          \/ frags = <<>>
       THEN Fail ELSE JoinAll(frags, Separator)

-----------------------------------------------------------------------------
\* FromYAMLToKeyerConfiguration: the relay does not start with another one
Accepted == {c \in Config : ValidKeyerConfiguration(c)}

IsStruct(struct) == \A f \in DOMAIN struct.fields : struct.fields[f] \in Value

\* Configurations, nodes and requests are made of strings and of one another.
ASSUME MapperAssumption ==
    /\ Config \subseteq Seq(Seq([match : MatchPredicate, result : ResultPredicate]))
    /\ \A p \in ResultPredicate :
        /\ p.kind = "string" => p.str \in String
        /\ p.kind = "name" => p.element \in Int
        /\ p.kind = "metadata" => p.path \in Seq(STRING)
        /\ p.kind \in {"id", "cluster", "metadata", "name"} => p.action.replace \in String
        /\ p.kind = "locality" =>
            \A part \in DOMAIN p.actions : part \in Part /\ p.actions[part].replace \in String
    /\ \A p \in MatchPredicate : p.kind = "metadata" => p.path \in Seq(STRING)
    /\ \A n \in Node :
        /\ "metadata" \in DOMAIN n
        /\ n.id \in String /\ n.cluster \in String
        /\ \A part \in Part : n.locality[part] \in String
        /\ IsStruct(n.metadata)
    /\ \A v \in Value : v.str \in String /\ IsStruct(v.struct)
    /\ \A s \in {<<>>, <<"own">>} : StringValue(s) \in Value
    /\ Names \subseteq Seq(String)
    /\ Separator \in String /\ <<"|">> \in String
    /\ NoClient \notin Client

-----------------------------------------------------------------------------
(***************************************************************************)
(* The requests of downstream streams in the relay.                        *)
(***************************************************************************)
VARIABLES
    config,  \* the keyer configuration
    field,   \* OriginServer.RequestNodeMetadata, <<>> when there is none
    sentBy,  \* the node each client has sent
    typeURL, \* the resource type of each client's stream
    node,    \* the node object of its stream, which SendMsg writes into
    watch,   \* the client's open watch and the key it was created for
    stream,  \* the upstream streams: key, and the client whose node they share
    panic    \* the process has crashed

vars == <<config, field, sentBy, typeURL, node, watch, stream, panic>>
confVars == <<config, field, sentBy, typeURL>>

NoWatch == [open |-> FALSE, names |-> <<>>, key |-> <<>>]
Open(c) == watch[c].open
RequestOf(c) == Request(node[c], typeURL[c], watch[c].names)
SentBy(c) == Request(sentBy[c], typeURL[c], watch[c].names)

Init ==
    /\ config \in Accepted
    /\ field \in {<<>>, <<"own">>}
    /\ sentBy \in [Client -> Node]
    /\ typeURL \in [Client -> Type]
    /\ node = sentBy
    /\ watch = [c \in Client |-> NoWatch]
    /\ stream = {}
    /\ panic = FALSE

\* The client's request brings a node of its own, or the server fills in the
\* one it has kept of the stream's earlier request.
CreateWatch(c) == \E names \in Names, fresh \in BOOLEAN :
    LET n == IF fresh THEN sentBy[c] ELSE node[c]
        key == GetKey(config, Request(n, typeURL[c], names))
        old == {IF fresh /\ s.client = c THEN [s EXCEPT !.client = NoClient] ELSE s :
                   s \in stream}
    IN /\ ~Open(c)
       /\ key.ok
       /\ node' = [node EXCEPT ![c] = n]
       /\ watch' = [watch EXCEPT ![c] = [open |-> TRUE, names |-> names, key |-> key.str]]
       /\ stream' = IF \E s \in stream : s.key = key.str THEN old
                    ELSE old \union {[key |-> key.str, client |-> c]}
       /\ UNCHANGED <<confVars, panic>>

Cancel(c) ==
    /\ Open(c)
    /\ watch' = [watch EXCEPT ![c] = NoWatch]
    /\ UNCHANGED <<confVars, node, stream, panic>>

\* mutant: the other fields are lost
WithFieldOnly(metadata) == StructOf([f \in {OwnField} |-> StringValue(field)])
WithField(metadata) == StructOf(
    [f \in DOMAIN metadata.fields \union {OwnField} |->
        IF f = OwnField THEN StringValue(field) ELSE metadata.fields[f]])

\* A metadata struct without fields has a nil map, which cannot be written.
SendMsg(s) ==
    LET metadata == node[s.client].metadata
    IN /\ s.client # NoClient /\ field # <<>>
       /\ IF ~metadata.isNil /\ DOMAIN metadata.fields = {}
          THEN panic' = TRUE /\ UNCHANGED node
          ELSE /\ node' = [node EXCEPT ![s.client].metadata = WithField(metadata)]
               /\ UNCHANGED panic
       /\ UNCHANGED <<confVars, watch, stream>>

\* onCacheEvicted, for each of the keys
Evicted(keys) ==
    /\ watch' = [c \in Client |-> IF Open(c) /\ watch[c].key \in keys THEN NoWatch ELSE watch[c]]
    /\ stream' = {s \in stream : s.key \notin keys}
    /\ UNCHANGED <<confVars, node, panic>>

Evict == \E s \in stream : Evicted({s.key})

getAggregatedKeys ==
    LET keys == {GetKey(config, RequestOf(c)) : c \in {d \in Client : Open(d)}}
    IN IF Fail \in keys THEN [ok |-> FALSE, keys |-> {}]
       ELSE [ok |-> TRUE, keys |-> {k.str : k \in keys}]

ClearAll ==
    LET all == getAggregatedKeys
    IN all.ok /\ \E prefix \in Prefix : Evicted({k \in all.keys : IsPrefix(prefix, k)})

Next ==
    /\ ~panic
    /\ \/ \E c \in Client : CreateWatch(c) \/ Cancel(c)
       \/ \E s \in stream : SendMsg(s)
       \/ Evict \/ ClearAll

Spec == Init /\ [][Next]_vars
-----------------------------------------------------------------------------
(***************************************************************************)
(* Properties.                                                             *)
(***************************************************************************)
\* The variables keep their types, and a node in memory is the one the client
\* sent, but for the field SendMsg writes (streamv2.go:41-45).
TypeOK ==
    /\ config \in Accepted /\ panic \in BOOLEAN
    /\ field \in {<<>>, <<"own">>}
    /\ sentBy \in [Client -> Node]
    /\ typeURL \in [Client -> Type]
    /\ \A c \in Client :
        node[c] \in {sentBy[c], [sentBy[c] EXCEPT !.metadata = WithField(@)]}
    /\ watch \in [Client -> [open : BOOLEAN, names : Names \union {<<>>}, key : String]]
    /\ stream \subseteq [key : String, client : Client \union {NoClient}]

\* All that config asks of a request.
Matches == UNION {Inside(rule.match) : rule \in ToSet(RulesOf(config))}
Results == UNION {Inside(rule.result) : rule \in ToSet(RulesOf(config))}

ReadsOwnField ==
    \E p \in Matches \union Results : p.kind = "metadata" /\ p.path[1] = OwnField

\* Two requests are the same in what p asks of them, or in these parts.
SameFor(p, a, b) ==
    CASE p.kind = "id" -> a.id = b.id
      [] p.kind = "cluster" -> a.cluster = b.cluster
      [] p.kind = "metadata" -> /\ a.metadata.isNil = b.metadata.isNil
                                /\ Walk(a.metadata, p.path) = Walk(b.metadata, p.path)
      [] p.kind = "name" -> Nth(a.names, p.element) = Nth(b.names, p.element)
      [] OTHER -> TRUE
SameIn(parts, a, b) == \A part \in parts : a.locality[part] = b.locality[part]
Same(a, b) ==
    /\ a.typeURL = b.typeURL
    /\ \A p \in Matches \union Results : SameFor(p, a, b)
    /\ \A p \in Matches : p.kind = "locality" => SameIn(DOMAIN p.match, a, b)
    /\ \A p \in Results : p.kind = "locality" => SameIn(DOMAIN p.actions, a, b)

\* The admin's wildcard requests find the open watches under the keys they
\* were created for, although SendMsg has written into their requests, unless
\* the configuration reads the very field it writes: getAggregatedKeys
\* (downstream.go:84-97) computes each key again and fails when one fails.
KeysAgree ==
    ~ReadsOwnField =>
        getAggregatedKeys = [ok |-> TRUE, keys |-> {watch[c].key : c \in {d \in Client : Open(d)}}]

\* Requests are aggregated by what the rules read and nothing else: two watches
\* whose clients sent the same type and agree on what the configuration reads
\* have one key, whoever's request SendMsg has written into (GetKey).
AggregatesAlike ==
    \A c, d \in Client :
        Open(c) /\ Open(d) /\ ~ReadsOwnField /\ Same(SentBy(c), SentBy(d))
            => watch[c].key = watch[d].key

\* Watches share a key, and so a stream and its responses, only if each rule
\* gave the same fragment for both, unless a fragment has the separator in it
\* (GetKey's join).
SharesOnlyEqualFragments ==
    \A c, d \in Client :
        LET fc == Fragments(config, SentBy(c))
            fd == Fragments(config, SentBy(d))
        IN (/\ Open(c) /\ Open(d) /\ watch[c].key = watch[d].key /\ ~ReadsOwnField
            /\ \A i \in DOMAIN fc : ~Occurs(Separator[1], fc[i].str)
            /\ \A i \in DOMAIN fd : ~Occurs(Separator[1], fd[i].str))
               => fc = fd

IsLeaf(p) == p.kind \notin {"and", "or", "not"}

\* The truth value of a predicate, a leaf that fails being taken as given.
HoldsOf(holds, p, req, failed) ==
    CASE p.kind = "and" -> \A q \in Members(p) : holds[q]
      [] p.kind = "or" -> \E q \in Members(p) : holds[q]
      [] p.kind = "not" -> ~holds[p.rule]
      [] OTHER -> LET out == isLeafMatch(p, req)
                  IN out = "true" \/ (out \in {"error", "invalid"} /\ failed)
Holds(p, req, failed) ==
    LET holds[q \in MatchPredicate] == HoldsOf(holds, q, req, failed) IN holds[p]

\* isMatch, with its early returns, is the logic of and, or and not: an answer
\* does not depend on what a leaf that fails would have said, and an error comes
\* from a leaf (mapper.go:100-232), also when SendMsg has changed the node.
MatchesAsWritten ==
    \A c \in Client, rule \in ToSet(RulesOf(config)) :
        LET req == Request(node[c], typeURL[c], <<>>)
            out == isMatch(rule.match, req)
            failing == {p \in Inside(rule.match) :
                           IsLeaf(p) /\ isLeafMatch(p, req) \in {"error", "invalid"}}
        IN IF out \in {"error", "invalid"} THEN failing # {}
           ELSE \A failed \in BOOLEAN : Holds(rule.match, req, failed) <=> out = "true"

\* Made of string literals only.
Literal(p) == \A q \in Inside(p) : q.kind \in {"string", "andResult"}

\* What Validate accepts, the mapper can evaluate, at any depth, although it
\* checks little of it again ("by construction only one of these is set",
\* mapper.go:142): no predicate lacks its oneof, and a fragment is empty only
\* if the file says so, so that no two requests share a key because the part
\* that told them apart was not there.
AcceptedIsUsable ==
    \A c \in Client, rule \in ToSet(RulesOf(config)) :
        LET req == RequestOf(c)
        IN /\ isMatch(rule.match, req) # "invalid"
           /\ getResult(rule.result, req) = Ok(<<>>) => Literal(rule.result)

\* "The first rule that matches will be applied in sequential order"
\* (aggregation.proto:25): a fragment contributes the result of one rule.
\* (In no configuration file: README.md, section 4.)
OneRulePerFragment ==
    \A c \in Client : Open(c) => Len(Fragments(config, SentBy(c))) <= Len(config)
=============================================================================
