---------------------------- MODULE MapperProofs ----------------------------
(***************************************************************************)
(* What the keys of Mapper are made of, for every configuration, node,     *)
(* client and depth of nesting, checked by TLAPS.                          *)
(*                                                                         *)
(* The code recurses on the predicates of a configuration, and so do       *)
(* isMatch, getResult and Inside.  What a recursive function computes is   *)
(* proved by induction on a height that falls with each call: Lowest is    *)
(* that induction (a claim that fails somewhere fails at a lowest place),  *)
(* and Recursion says that a recursive definition has the value its body   *)
(* gives it.                                                               *)
(***************************************************************************)
EXTENDS Mapper, WellFoundedInduction, TLAPS

-----------------------------------------------------------------------------
(***************************************************************************)
(* Induction and recursion.                                                *)
(***************************************************************************)
\* A set of natural numbers has a least one.
LEMMA Least ==
  ASSUME NEW N \in SUBSET Nat, N # {}
  PROVE  \E n \in N : \A k \in N : n <= k
<1>1. PICK n \in N : \A k \in N : ~(<<k, n>> \in OpToRel(<, Nat))
  BY WFMin, NatLessThanWellFounded
<1>2. \A k \in N : ~(k < n)
  BY <1>1 DEF OpToRel
<1> QED BY <1>2

\* A set of things with a height has a lowest one.
LEMMA Lowest ==
  ASSUME NEW S, NEW H \in [S -> Nat], NEW T \in SUBSET S, T # {}
  PROVE  \E p \in T : \A q \in T : H[p] <= H[q]
<1> DEFINE N == {H[p] : p \in T}
<1>1. N \in SUBSET Nat /\ N # {}
  OBVIOUS
<1>2. \E n \in N : \A k \in N : n <= k
  BY <1>1, Least
<1> QED BY <1>2

\* F[p][g] is what a definition makes of p when g holds the values it recurses
\* to, which are those of lower places.
Descends(S, H, Out, F) ==
    /\ H \in [S -> Nat] /\ F \in [S -> [[S -> Out] -> Out]]
    /\ \A p \in S : \A g, h \in [S -> Out] :
        (\A q \in S : H[q] < H[p] => g[q] = h[q]) => F[p][g] = F[p][h]
Solves(m, S, Out, F) == m \in [S -> Out] /\ \A p \in S : m[p] = F[p][m]

\* Such a definition has a solution.
LEMMA Recursion ==
  ASSUME NEW S, NEW H, NEW Out, NEW F, Out # {}, Descends(S, H, Out, F)
  PROVE  \E m : Solves(m, S, Out, F)
<1> USE DEF Descends, Solves
<1> DEFINE Good(n, m) == m \in [S -> Out] /\ \A p \in S : H[p] < n => m[p] = F[p][m]
           N == {n \in Nat : ~\E m \in [S -> Out] : Good(n, m)}
<1>1. \A n \in Nat : \E m \in [S -> Out] : Good(n, m)
  <2> SUFFICES ASSUME N # {} PROVE FALSE
    OBVIOUS
  <2>1. PICK n \in N : \A k \in N : n <= k
    BY Least
  <2>2. n # 0
    <3>1. PICK o : o \in Out
      OBVIOUS
    <3>2. Good(0, [p \in S |-> o])
      BY <3>1
    <3> QED BY <3>1, <3>2
  <2>3. n - 1 \in Nat /\ n - 1 \notin N
    BY <2>1, <2>2
  <2>4. PICK m \in [S -> Out] : Good(n - 1, m)
    BY <2>3
  <2> DEFINE g == [p \in S |-> F[p][m]]
  <2>5. g \in [S -> Out]
    OBVIOUS
  <2>6. \A p \in S : H[p] < n => g[p] = F[p][g]
    <3> SUFFICES ASSUME NEW p \in S, H[p] < n PROVE F[p][m] = F[p][g]
      OBVIOUS
    <3>1. \A q \in S : H[q] < H[p] => m[q] = g[q]
      BY <2>1, <2>3, <2>4
    <3> QED BY <2>5, <3>1
  <2> QED BY <2>1, <2>5, <2>6
<1>2. ASSUME NEW n \in Nat, NEW k \in Nat, NEW g, NEW h, Good(n, g), Good(k, h),
             NEW p \in S, H[p] < n, H[p] < k
      PROVE  g[p] = h[p]
  <2> DEFINE T == {q \in S : H[q] < n /\ H[q] < k /\ g[q] # h[q]}
  <2> SUFFICES ASSUME T # {} PROVE FALSE
    BY <1>2
  <2>1. PICK q \in T : \A r \in T : H[q] <= H[r]
    BY Lowest
  <2>2. \A r \in S : H[r] < H[q] => g[r] = h[r]
    BY <2>1
  <2> QED BY <1>2, <2>1, <2>2
<1> DEFINE Level == [n \in Nat |-> CHOOSE m \in [S -> Out] : Good(n, m)]
<1>3. \A n \in Nat : Good(n, Level[n])
  BY <1>1
<1> HIDE DEF Level
<1> DEFINE m == [p \in S |-> Level[H[p] + 1][p]]
<1>4. m \in [S -> Out]
  <2>1. \A p \in S : H[p] + 1 \in Nat
    OBVIOUS
  <2> QED BY <1>3, <2>1
<1>5. ASSUME NEW p \in S PROVE m[p] = F[p][m]
  <2> DEFINE n == H[p] + 1
  <2>1. n \in Nat /\ H[p] < n
    OBVIOUS
  <2>2. Level[n] \in [S -> Out] /\ Level[n][p] = F[p][Level[n]]
    BY <1>3, <2>1
  <2>3. ASSUME NEW q \in S, H[q] < H[p] PROVE m[q] = Level[n][q]
    <3>1. H[q] + 1 \in Nat /\ H[q] < H[q] + 1 /\ H[q] < n
      BY <2>3
    <3>2. Good(H[q] + 1, Level[H[q] + 1]) /\ Good(n, Level[n])
      BY <1>3, <2>1, <3>1
    <3> HIDE DEF Good
    <3> QED BY <1>2, <2>1, <3>1, <3>2
  <2>4. F[p][Level[n]] = F[p][m]
    BY <1>4, <2>2, <2>3
  <2> QED BY <2>2, <2>4
<1> QED BY <1>4, <1>5

-----------------------------------------------------------------------------
(***************************************************************************)
(* Sequences put together: FlattenSeq of SequencesExt.                     *)
(***************************************************************************)
FlattenOf(f, seqs, i) == IF i = 1 THEN seqs[i] ELSE f[i - 1] \o seqs[i]

\* The values flatten takes, with none before the first.
Flattening(f, E, seqs) ==
    /\ f \in [0..Len(seqs) -> Seq(E)]
    /\ f[0] = <<>>
    /\ \A i \in 1..Len(seqs) : f[i] = f[i - 1] \o seqs[i]

\* FlattenSeq is what its recursive definition says.
LEMMA FlattenUnfolds ==
  ASSUME NEW E, NEW seqs \in Seq(Seq(E))
  PROVE  \E f : Flattening(f, E, seqs) /\ FlattenSeq(seqs) = f[Len(seqs)]
<1> DEFINE S == 1..Len(seqs)
           H == [i \in S |-> i]
           F == [i \in S |-> [f \in [S -> Seq(E)] |-> FlattenOf(f, seqs, i)]]
           M == CHOOSE f : f = [i \in S |-> FlattenOf(f, seqs, i)]
<1>0. CASE Len(seqs) = 0
  <2> DEFINE f == [i \in {0} |-> <<>>]
  <2>1. seqs = <<>> /\ FlattenSeq(seqs) = <<>> /\ 0..Len(seqs) = {0} /\ 1..Len(seqs) = {}
    BY <1>0 DEF FlattenSeq
  <2>2. Flattening(f, E, seqs)
    BY <2>1 DEF Flattening
  <2>3. f[Len(seqs)] = <<>>
    BY <1>0
  <2> HIDE DEF f
  <2> QED BY <2>1, <2>2, <2>3
<1>1. CASE Len(seqs) # 0
  <2>1. Len(seqs) \in Nat \ {0} /\ \A i \in S : seqs[i] \in Seq(E)
    BY <1>1
  <2>2. ASSUME NEW g \in [S -> Seq(E)], NEW i \in S PROVE FlattenOf(g, seqs, i) \in Seq(E)
    <3>1. i # 1 => i - 1 \in S
      BY <2>1
    <3>2. i # 1 => g[i - 1] \in Seq(E)
      BY <3>1
    <3> QED BY <2>1, <3>2 DEF FlattenOf
  <2>3. F \in [S -> [[S -> Seq(E)] -> Seq(E)]] /\ H \in [S -> Nat]
    <3>1. H \in [S -> Nat]
      OBVIOUS
    <3> HIDE DEF S
    <3> QED BY <2>2, <3>1
  <2>4. ASSUME NEW i \in S, NEW g \in [S -> Seq(E)], NEW h \in [S -> Seq(E)],
               \A j \in S : H[j] < H[i] => g[j] = h[j]
        PROVE  F[i][g] = F[i][h]
    <3>1. i # 1 => g[i - 1] = h[i - 1]
      BY <2>1, <2>4
    <3> QED BY <3>1 DEF FlattenOf
  <2>5. PICK m : Solves(m, S, Seq(E), F)
    <3>1. Descends(S, H, Seq(E), F)
      BY <2>3, <2>4 DEF Descends
    <3>2. Seq(E) # {}
      OBVIOUS
    <3> HIDE DEF S, F, H
    <3> QED BY <3>1, <3>2, Recursion
  <2>6. m \in [S -> Seq(E)] /\ \A i \in S : m[i] = FlattenOf(m, seqs, i)
    BY <2>5 DEF Solves
  <2>7. M = [i \in S |-> FlattenOf(M, seqs, i)]
    <3>1. m = [i \in S |-> FlattenOf(m, seqs, i)]
      BY <2>6
    <3> QED BY <3>1
  <2>8. FlattenSeq(seqs) = M[Len(seqs)]
    BY <1>1 DEF FlattenSeq, FlattenOf
  <2> HIDE DEF M
  <2>9. \A i \in S : M[i] = m[i]
    <3> DEFINE T == {i \in S : M[i] # m[i]}
    <3> SUFFICES ASSUME T # {} PROVE FALSE
      OBVIOUS
    <3>1. T \in SUBSET Nat
      OBVIOUS
    <3>2. PICK i \in T : \A j \in T : i <= j
      BY <3>1, Least
    <3>3. i # 1 => M[i - 1] = m[i - 1]
      BY <2>1, <3>2
    <3>4. M[i] = FlattenOf(M, seqs, i)
      BY <2>7
    <3> QED BY <2>6, <3>3, <3>4 DEF FlattenOf
  <2> DEFINE f == [i \in 0..Len(seqs) |-> IF i = 0 THEN <<>> ELSE m[i]]
  <2>10. f \in [0..Len(seqs) -> Seq(E)] /\ f[0] = <<>>
    BY <2>1, <2>6
  <2>11. ASSUME NEW i \in S PROVE f[i] = f[i - 1] \o seqs[i]
    <3>1. m[i] = FlattenOf(m, seqs, i) /\ f[i] = m[i]
      BY <2>1, <2>6
    <3>2. CASE i = 1
      <4>1. f[i - 1] = <<>> /\ seqs[i] \in Seq(E) /\ m[i] = seqs[i]
        BY <2>1, <3>1, <3>2 DEF FlattenOf
      <4> HIDE DEF f
      <4> QED BY <3>1, <4>1
    <3>3. CASE i # 1
      <4>1. f[i - 1] = m[i - 1]
        BY <2>1, <3>3
      <4> HIDE DEF f
      <4> QED BY <3>1, <3>3, <4>1 DEF FlattenOf
    <3> QED BY <3>2, <3>3
  <2>12. FlattenSeq(seqs) = f[Len(seqs)]
    BY <2>1, <2>8, <2>9
  <2> HIDE DEF f
  <2> QED BY <2>10, <2>11, <2>12 DEF Flattening
<1> QED BY <1>0, <1>1

LEMMA FlattenType ==
  ASSUME NEW E, NEW seqs \in Seq(Seq(E))
  PROVE  FlattenSeq(seqs) \in Seq(E)
<1>1. PICK f : Flattening(f, E, seqs) /\ FlattenSeq(seqs) = f[Len(seqs)]
  BY FlattenUnfolds
<1>2. Len(seqs) \in 0..Len(seqs)
  OBVIOUS
<1> QED BY <1>1, <1>2 DEF Flattening

-----------------------------------------------------------------------------
(***************************************************************************)
(* Predicates.                                                             *)
(***************************************************************************)
Outcomes == {"true", "false", "error", "invalid"}
Errors == {"error", "invalid"}

\* What is inside a predicate is of its sort, lower, and not left out.
LEMMA MatchMembers ==
  ASSUME NEW p \in MatchPredicate
  PROVE  /\ Members(p) \subseteq MatchPredicate
         /\ p.kind \in {"and", "or"} =>
              /\ p.rules \in Seq(MatchPredicate)
              /\ Members(p) = {p.rules[i] : i \in DOMAIN p.rules}
         /\ p.kind = "not" => Members(p) = {p.rule} /\ p.rule \in MatchPredicate
         /\ p.kind \notin {"and", "or", "not"} => Members(p) = {}
<1>1. p.kind \in MatchKinds
  BY KeyerAssumption
<1>2. CASE p.kind \in {"and", "or"}
  <2>1. p.rules \in Seq(MatchPredicate) /\ Members(p) = {p.rules[i] : i \in DOMAIN p.rules}
    BY <1>2, KeyerAssumption DEF Members
  <2>2. \A i \in DOMAIN p.rules : p.rules[i] \in MatchPredicate
    BY <2>1
  <2> QED BY <1>2, <2>1, <2>2
<1>3. CASE p.kind \notin {"and", "or"}
  BY <1>1, <1>3, KeyerAssumption DEF Members, MatchKinds
<1> QED BY <1>2, <1>3

LEMMA ResultMembers ==
  ASSUME NEW p \in ResultPredicate
  PROVE  /\ Members(p) \subseteq ResultPredicate
         /\ p.kind = "andResult" =>
              /\ p.results \in Seq(ResultPredicate)
              /\ Members(p) = {p.results[i] : i \in DOMAIN p.results}
         /\ p.kind # "andResult" => Members(p) = {}
<1>1. p.kind \in ResultKinds
  BY KeyerAssumption
<1>2. CASE p.kind = "andResult"
  <2>1. p.results \in Seq(ResultPredicate) /\ Members(p) = {p.results[i] : i \in DOMAIN p.results}
    BY <1>2, KeyerAssumption DEF Members
  <2>2. \A i \in DOMAIN p.results : p.results[i] \in ResultPredicate
    BY <2>1
  <2> QED BY <1>2, <2>1, <2>2
<1>3. CASE p.kind # "andResult"
  BY <1>1, <1>3 DEF Members, ResultKinds
<1> QED BY <1>2, <1>3

LEMMA Lower ==
  ASSUME NEW p \in Predicate, NEW q \in Members(p)
  PROVE  q \in Predicate /\ Height[q] < Height[p] /\ q.kind # "nil"
BY KeyerAssumption, MatchMembers, ResultMembers DEF Predicate

\* A claim that holds of a predicate when it holds of its members holds of all:
\* where it fails, it fails at a lowest one.
LEMMA LowestPredicate ==
  ASSUME NEW T \in SUBSET Predicate, T # {}
  PROVE  \E p \in T : \A q \in Members(p) : q \notin T
<1>1. Height \in [Predicate -> Nat]
  BY KeyerAssumption
<1>2. PICK p \in T : \A q \in T : Height[p] <= Height[q]
  BY <1>1, Lowest
<1>3. ASSUME NEW q \in Members(p), q \in T PROVE FALSE
  <2>1. Height[q] < Height[p] /\ Height[p] <= Height[q]
    BY <1>2, <1>3, Lower
  <2>2. Height[p] \in Nat /\ Height[q] \in Nat
    BY <1>1, <1>3
  <2> QED BY <2>1, <2>2
<1> QED BY <1>3

-----------------------------------------------------------------------------
(***************************************************************************)
(* isMatch.                                                                *)
(***************************************************************************)
LEMMA CompareString ==
  ASSUME NEW m, NEW str
  PROVE  compareString(m, str) \in {"true", "false", "error"}
BY DEF compareString, Outcome

LEMMA LeafOutcome ==
  ASSUME NEW p \in MatchPredicate, p.kind \notin {"and", "or", "not"}, NEW req
  PROVE  isLeafMatch(p, req) \in Outcomes
<1>1. p.kind \in MatchKinds
  BY KeyerAssumption
<1>2. \A m, locality : compareLocality(m, locality) \in Outcomes
  BY DEF compareLocality, Outcome, Outcomes
<1>3. ASSUME NEW metadata PROVE compareNodeMetadata(p, metadata) \in Outcomes
  BY CompareString DEF compareNodeMetadata, Outcome, Outcomes
<1> QED BY <1>1, <1>2, <1>3, CompareString DEF isLeafMatch, MatchKinds, Outcome, Outcomes

\* The first outcome that is not the expected one.
LEMMA First ==
  ASSUME NEW n \in Nat, NEW outs, DOMAIN outs = 1..n, NEW expected
  PROVE  \/ FirstOther(outs, expected) = expected /\ \A i \in 1..n : outs[i] = expected
         \/ \E i \in 1..n : /\ FirstOther(outs, expected) = outs[i]
                            /\ outs[i] # expected
                            /\ \A j \in 1..(i - 1) : outs[j] = expected
<1> DEFINE others == {i \in DOMAIN outs : outs[i] # expected}
<1>1. CASE others = {}
  BY <1>1 DEF FirstOther
<1>2. CASE others # {}
  <2>1. others \in SUBSET Nat
    OBVIOUS
  <2>2. Min(others) \in others /\ \A k \in others : Min(others) <= k
    BY <1>2, <2>1, Least DEF Min
  <2>3. FirstOther(outs, expected) = outs[Min(others)]
    BY <1>2 DEF FirstOther
  <2>4. \A j \in 1..(Min(others) - 1) : outs[j] = expected
    BY <2>1, <2>2
  <2> QED BY <2>2, <2>3, <2>4
<1> QED BY <1>1, <1>2

LEMMA MatchOfType ==
  ASSUME NEW p \in MatchPredicate, NEW req, NEW out \in [MatchPredicate -> Outcomes]
  PROVE  MatchOf(out, p, req) \in Outcomes
<1>1. CASE p.kind \in {"and", "or"}
  <2> DEFINE outs == [i \in DOMAIN p.rules |-> out[p.rules[i]]]
  <2>1. p.rules \in Seq(MatchPredicate)
    BY <1>1, MatchMembers
  <2>2. DOMAIN outs = 1..Len(p.rules) /\ Len(p.rules) \in Nat
    BY <2>1
  <2>3. \A i \in 1..Len(p.rules) : outs[i] \in Outcomes
    BY <2>1
  <2>4. FirstOther(outs, "true") \in Outcomes /\ FirstOther(outs, "false") \in Outcomes
    <3> HIDE DEF outs
    <3>1. FirstOther(outs, "true") \in Outcomes
      BY <2>2, <2>3, First DEF Outcomes
    <3>2. FirstOther(outs, "false") \in Outcomes
      BY <2>2, <2>3, First DEF Outcomes
    <3> QED BY <3>1, <3>2
  <2> QED BY <1>1, <2>4 DEF MatchOf, isAndMatch, isOrMatch
<1>2. CASE p.kind = "not"
  <2>1. out[p.rule] \in Outcomes
    BY <1>2, MatchMembers
  <2> QED BY <1>2, <2>1 DEF MatchOf, isNotMatch, Outcome, Outcomes
<1>3. CASE p.kind \notin {"and", "or", "not"}
  BY <1>3, LeafOutcome DEF MatchOf
<1> QED BY <1>1, <1>2, <1>3

\* What p comes to depends on the outcomes of its members only.
LEMMA MatchOfMembers ==
  ASSUME NEW p \in MatchPredicate, NEW req, NEW g, NEW h, \A q \in Members(p) : g[q] = h[q]
  PROVE  MatchOf(g, p, req) = MatchOf(h, p, req)
<1>1. CASE p.kind \in {"and", "or"}
  <2>1. \A i \in DOMAIN p.rules : g[p.rules[i]] = h[p.rules[i]]
    BY <1>1, MatchMembers
  <2>2. [i \in DOMAIN p.rules |-> g[p.rules[i]]] = [i \in DOMAIN p.rules |-> h[p.rules[i]]]
    BY <2>1
  <2> QED BY <1>1, <2>2 DEF MatchOf
<1>2. CASE p.kind = "not"
  BY <1>2, MatchMembers DEF MatchOf
<1>3. CASE p.kind \notin {"and", "or", "not"}
  BY <1>3 DEF MatchOf
<1> QED BY <1>1, <1>2, <1>3

\* isMatch is what its recursive definition says.
LEMMA MatchUnfolds ==
  ASSUME NEW req, NEW p \in MatchPredicate
  PROVE  /\ isMatch(p, req) \in Outcomes
         /\ isMatch(p, req) = MatchOf([q \in MatchPredicate |-> isMatch(q, req)], p, req)
<1> DEFINE F == [q \in MatchPredicate |->
                    [out \in [MatchPredicate -> Outcomes] |-> MatchOf(out, q, req)]]
           H == [q \in MatchPredicate |-> Height[q]]
           M == CHOOSE m : m = [q \in MatchPredicate |-> MatchOf(m, q, req)]
<1>1. F \in [MatchPredicate -> [[MatchPredicate -> Outcomes] -> Outcomes]]
  BY MatchOfType
<1>2. H \in [MatchPredicate -> Nat]
  BY KeyerAssumption DEF Predicate
<1>3. ASSUME NEW q \in MatchPredicate, NEW g \in [MatchPredicate -> Outcomes],
             NEW h \in [MatchPredicate -> Outcomes],
             \A r \in MatchPredicate : H[r] < H[q] => g[r] = h[r]
      PROVE  F[q][g] = F[q][h]
  <2>1. \A r \in Members(q) : r \in MatchPredicate /\ H[r] < H[q]
    BY MatchMembers, Lower DEF Predicate
  <2>2. \A r \in Members(q) : g[r] = h[r]
    BY <1>3, <2>1
  <2>3. MatchOf(g, q, req) = MatchOf(h, q, req)
    BY <2>2, MatchOfMembers
  <2> QED BY <2>3
<1>4. PICK m : Solves(m, MatchPredicate, Outcomes, F)
  <2>1. Descends(MatchPredicate, H, Outcomes, F)
    BY <1>1, <1>2, <1>3 DEF Descends
  <2>2. Outcomes # {}
    BY DEF Outcomes
  <2> HIDE DEF F, H
  <2> QED BY <2>1, <2>2, Recursion
<1>5. /\ m \in [MatchPredicate -> Outcomes]
      /\ \A q \in MatchPredicate : m[q] = MatchOf(m, q, req)
  BY <1>4 DEF Solves
<1>6. M = [q \in MatchPredicate |-> MatchOf(M, q, req)]
  <2>1. m = [q \in MatchPredicate |-> MatchOf(m, q, req)]
    BY <1>5
  <2> QED BY <2>1
<1>7. \A q : isMatch(q, req) = M[q]
  BY DEF isMatch
<1> HIDE DEF F, H, M
<1>8. \A q \in MatchPredicate : M[q] = m[q]
  <2> DEFINE T == {q \in MatchPredicate : M[q] # m[q]}
  <2> SUFFICES ASSUME T # {} PROVE FALSE
    OBVIOUS
  <2>1. PICK q \in T : \A r \in Members(q) : r \notin T
    BY LowestPredicate DEF Predicate
  <2>2. \A r \in Members(q) : M[r] = m[r]
    BY <2>1, MatchMembers
  <2>3. MatchOf(M, q, req) = MatchOf(m, q, req)
    BY <2>2, MatchOfMembers
  <2> QED BY <1>5, <1>6, <2>3
<1>9. \A q \in Members(p) : M[q] = [r \in MatchPredicate |-> isMatch(r, req)][q]
  BY <1>7, MatchMembers
<1>10. MatchOf(M, p, req) = MatchOf([q \in MatchPredicate |-> isMatch(q, req)], p, req)
  BY <1>9, MatchOfMembers
<1> QED BY <1>5, <1>6, <1>7, <1>8, <1>10

-----------------------------------------------------------------------------
(***************************************************************************)
(* Inside, and the truth values of Holds.                                  *)
(***************************************************************************)
LEMMA InsideOfMembers ==
  ASSUME NEW p, NEW g, NEW h, \A q \in Members(p) : g[q] = h[q]
  PROVE  InsideOf(g, p) = InsideOf(h, p)
BY DEF InsideOf

\* What is inside p is p and what is inside its members.
LEMMA InsideUnfolds ==
  ASSUME NEW p \in Predicate
  PROVE  /\ Inside(p) \subseteq Predicate
         /\ Inside(p) = {p} \union UNION {Inside(q) : q \in Members(p)}
<1> DEFINE F == [q \in Predicate |->
                    [inside \in [Predicate -> SUBSET Predicate] |-> InsideOf(inside, q)]]
           M == CHOOSE m : m = [q \in Predicate |-> InsideOf(m, q)]
<1>1. F \in [Predicate -> [[Predicate -> SUBSET Predicate] -> SUBSET Predicate]]
  BY Lower DEF InsideOf
<1>2. Height \in [Predicate -> Nat]
  BY KeyerAssumption
<1>3. ASSUME NEW q \in Predicate, NEW g \in [Predicate -> SUBSET Predicate],
             NEW h \in [Predicate -> SUBSET Predicate],
             \A r \in Predicate : Height[r] < Height[q] => g[r] = h[r]
      PROVE  F[q][g] = F[q][h]
  <2>1. \A r \in Members(q) : g[r] = h[r]
    BY <1>3, Lower
  <2> QED BY <2>1, InsideOfMembers
<1>4. PICK m : Solves(m, Predicate, SUBSET Predicate, F)
  <2>1. Descends(Predicate, Height, SUBSET Predicate, F)
    BY <1>1, <1>2, <1>3 DEF Descends
  <2> HIDE DEF F
  <2> QED BY <2>1, Recursion
<1>5. /\ m \in [Predicate -> SUBSET Predicate]
      /\ \A q \in Predicate : m[q] = InsideOf(m, q)
  BY <1>4 DEF Solves
<1>6. M = [q \in Predicate |-> InsideOf(M, q)]
  <2>1. m = [q \in Predicate |-> InsideOf(m, q)]
    BY <1>5
  <2> QED BY <2>1
<1>7. \A q : Inside(q) = M[q]
  BY DEF Inside
<1> HIDE DEF F, M
<1>8. \A q \in Predicate : M[q] = m[q]
  <2> DEFINE T == {q \in Predicate : M[q] # m[q]}
  <2> SUFFICES ASSUME T # {} PROVE FALSE
    OBVIOUS
  <2>1. PICK q \in T : \A r \in Members(q) : r \notin T
    BY LowestPredicate
  <2>2. \A r \in Members(q) : M[r] = m[r]
    BY <2>1, Lower
  <2>3. InsideOf(M, q) = InsideOf(m, q)
    BY <2>2, InsideOfMembers
  <2> QED BY <1>5, <1>6, <2>3
<1>9. \A q \in Predicate : Inside(q) = InsideOf(M, q)
  BY <1>6, <1>7
<1> QED BY <1>5, <1>7, <1>8, <1>9 DEF InsideOf

\* Insides are nested.
LEMMA InsideMembers ==
  ASSUME NEW p \in Predicate
  PROVE  /\ p \in Inside(p)
         /\ \A q \in Members(p) : q \in Inside(p) /\ Inside(q) \subseteq Inside(p)
<1>1. p \in Inside(p) /\ \A q \in Members(p) : Inside(q) \subseteq Inside(p)
  BY InsideUnfolds
<1>2. \A q \in Members(p) : q \in Inside(q)
  BY InsideUnfolds, Lower
<1> QED BY <1>1, <1>2

\* Match predicates are made of match predicates, results of results.
LEMMA InsideSorts ==
  ASSUME NEW Sort \in {MatchPredicate, ResultPredicate}, NEW p \in Sort
  PROVE  Inside(p) \subseteq Sort
<1> DEFINE T == {q \in Sort : ~(Inside(q) \subseteq Sort)}
<1> SUFFICES ASSUME T # {} PROVE FALSE
  OBVIOUS
<1>1. PICK q \in T : \A r \in Members(q) : r \notin T
  BY LowestPredicate DEF Predicate
<1>2. Members(q) \subseteq Sort
  BY MatchMembers, ResultMembers
<1>3. Inside(q) = {q} \union UNION {Inside(r) : r \in Members(q)}
  BY InsideUnfolds DEF Predicate
<1> QED BY <1>1, <1>2, <1>3

LEMMA HoldsOfMembers ==
  ASSUME NEW p \in MatchPredicate, NEW req, NEW failed, NEW g, NEW h,
         \A q \in Members(p) : g[q] = h[q]
  PROVE  HoldsOf(g, p, req, failed) = HoldsOf(h, p, req, failed)
<1>1. CASE p.kind \in {"and", "or"}
  BY <1>1 DEF HoldsOf
<1>2. CASE p.kind = "not"
  BY <1>2, MatchMembers DEF HoldsOf
<1>3. CASE p.kind \notin {"and", "or", "not"}
  BY <1>3 DEF HoldsOf
<1> QED BY <1>1, <1>2, <1>3

LEMMA HoldsOfType ==
  ASSUME NEW p \in MatchPredicate, NEW req, NEW failed \in BOOLEAN,
         NEW g \in [MatchPredicate -> BOOLEAN]
  PROVE  HoldsOf(g, p, req, failed) \in BOOLEAN
BY MatchMembers DEF HoldsOf

\* Holds is what its recursive definition says.
LEMMA HoldsUnfolds ==
  ASSUME NEW req, NEW failed \in BOOLEAN, NEW p \in MatchPredicate
  PROVE  /\ Holds(p, req, failed) \in BOOLEAN
         /\ p.kind = "and" =>
              (Holds(p, req, failed) <=> \A q \in Members(p) : Holds(q, req, failed))
         /\ p.kind = "or" =>
              (Holds(p, req, failed) <=> \E q \in Members(p) : Holds(q, req, failed))
         /\ p.kind = "not" => (Holds(p, req, failed) <=> ~Holds(p.rule, req, failed))
         /\ p.kind \notin {"and", "or", "not"} =>
              (Holds(p, req, failed) <=>
                  \/ isLeafMatch(p, req) = "true"
                  \/ isLeafMatch(p, req) \in Errors /\ failed)
<1> DEFINE F == [q \in MatchPredicate |->
                    [holds \in [MatchPredicate -> BOOLEAN] |-> HoldsOf(holds, q, req, failed)]]
           H == [q \in MatchPredicate |-> Height[q]]
           M == CHOOSE m : m = [q \in MatchPredicate |-> HoldsOf(m, q, req, failed)]
<1>1. F \in [MatchPredicate -> [[MatchPredicate -> BOOLEAN] -> BOOLEAN]]
  BY HoldsOfType
<1>2. H \in [MatchPredicate -> Nat]
  BY KeyerAssumption DEF Predicate
<1>3. ASSUME NEW q \in MatchPredicate, NEW g \in [MatchPredicate -> BOOLEAN],
             NEW h \in [MatchPredicate -> BOOLEAN],
             \A r \in MatchPredicate : H[r] < H[q] => g[r] = h[r]
      PROVE  F[q][g] = F[q][h]
  <2>1. \A r \in Members(q) : r \in MatchPredicate /\ H[r] < H[q]
    BY MatchMembers, Lower DEF Predicate
  <2>2. \A r \in Members(q) : g[r] = h[r]
    BY <1>3, <2>1
  <2>3. HoldsOf(g, q, req, failed) = HoldsOf(h, q, req, failed)
    BY <2>2, HoldsOfMembers
  <2> QED BY <2>3
<1>4. PICK m : Solves(m, MatchPredicate, BOOLEAN, F)
  <2>1. Descends(MatchPredicate, H, BOOLEAN, F)
    BY <1>1, <1>2, <1>3 DEF Descends
  <2> HIDE DEF F, H
  <2> QED BY <2>1, Recursion
<1>5. /\ m \in [MatchPredicate -> BOOLEAN]
      /\ \A q \in MatchPredicate : m[q] = HoldsOf(m, q, req, failed)
  BY <1>4 DEF Solves
<1>6. M = [q \in MatchPredicate |-> HoldsOf(M, q, req, failed)]
  <2>1. m = [q \in MatchPredicate |-> HoldsOf(m, q, req, failed)]
    BY <1>5
  <2> QED BY <2>1
<1>7. \A q : Holds(q, req, failed) = M[q]
  BY DEF Holds
<1> HIDE DEF F, H, M
<1>8. \A q \in MatchPredicate : M[q] = m[q]
  <2> DEFINE T == {q \in MatchPredicate : M[q] # m[q]}
  <2> SUFFICES ASSUME T # {} PROVE FALSE
    OBVIOUS
  <2>1. PICK q \in T : \A r \in Members(q) : r \notin T
    BY LowestPredicate DEF Predicate
  <2>2. \A r \in Members(q) : M[r] = m[r]
    BY <2>1, MatchMembers
  <2>3. HoldsOf(M, q, req, failed) = HoldsOf(m, q, req, failed)
    BY <2>2, HoldsOfMembers
  <2> QED BY <1>5, <1>6, <2>3
<1>9. Holds(p, req, failed) = HoldsOf(M, p, req, failed)
  BY <1>6, <1>7
<1>10. Holds(p, req, failed) \in BOOLEAN
  BY <1>5, <1>7, <1>8
<1> QED BY <1>7, <1>9, <1>10 DEF HoldsOf, Errors

\* The cases of isMatch.
LEMMA MatchCases ==
  ASSUME NEW req, NEW p \in MatchPredicate
  PROVE  /\ p.kind = "and" =>
              \/ isMatch(p, req) = "true" /\ \A q \in Members(p) : isMatch(q, req) = "true"
              \/ \E i \in DOMAIN p.rules :
                    /\ isMatch(p, req) = isMatch(p.rules[i], req)
                    /\ isMatch(p.rules[i], req) # "true"
                    /\ \A j \in 1..(i - 1) : isMatch(p.rules[j], req) = "true"
         /\ p.kind = "or" =>
              \/ isMatch(p, req) = "false" /\ \A q \in Members(p) : isMatch(q, req) = "false"
              \/ \E i \in DOMAIN p.rules :
                    /\ isMatch(p, req) = isMatch(p.rules[i], req)
                    /\ isMatch(p.rules[i], req) # "false"
                    /\ \A j \in 1..(i - 1) : isMatch(p.rules[j], req) = "false"
         /\ p.kind = "not" => isMatch(p, req) = isNotMatch(isMatch(p.rule, req))
         /\ p.kind \notin {"and", "or", "not"} => isMatch(p, req) = isLeafMatch(p, req)
<1> DEFINE out == [q \in MatchPredicate |-> isMatch(q, req)]
           outs == [i \in DOMAIN p.rules |-> out[p.rules[i]]]
<1>1. isMatch(p, req) = MatchOf(out, p, req)
  BY MatchUnfolds
<1>2. p.kind \in {"and", "or"} =>
        /\ Len(p.rules) \in Nat /\ DOMAIN p.rules = 1..Len(p.rules) /\ DOMAIN outs = 1..Len(p.rules)
        /\ \A i \in 1..Len(p.rules) : outs[i] = isMatch(p.rules[i], req)
        /\ Members(p) = {p.rules[i] : i \in 1..Len(p.rules)}
  <2> SUFFICES ASSUME p.kind \in {"and", "or"}
               PROVE  /\ Len(p.rules) \in Nat /\ DOMAIN p.rules = 1..Len(p.rules)
                      /\ DOMAIN outs = 1..Len(p.rules)
                      /\ \A i \in 1..Len(p.rules) : outs[i] = isMatch(p.rules[i], req)
                      /\ Members(p) = {p.rules[i] : i \in 1..Len(p.rules)}
    OBVIOUS
  <2>1. p.rules \in Seq(MatchPredicate) /\ Members(p) = {p.rules[i] : i \in DOMAIN p.rules}
    BY MatchMembers
  <2>2. Len(p.rules) \in Nat /\ DOMAIN p.rules = 1..Len(p.rules)
    BY <2>1
  <2>3. \A i \in 1..Len(p.rules) : p.rules[i] \in MatchPredicate
    BY <2>1
  <2> QED BY <2>1, <2>2, <2>3
<1>7. \A n \in Nat : \A i \in 1..n : \A j \in 1..(i - 1) : j \in 1..n
  OBVIOUS
<1> HIDE DEF outs
<1>3. CASE p.kind = "and"
  <2>1. isMatch(p, req) = FirstOther(outs, "true")
    BY <1>1, <1>3 DEF MatchOf, isAndMatch, outs
  <2> QED BY <1>2, <1>3, <1>7, <2>1, First
<1>4. CASE p.kind = "or"
  <2>1. isMatch(p, req) = FirstOther(outs, "false")
    BY <1>1, <1>4 DEF MatchOf, isOrMatch, outs
  <2> QED BY <1>2, <1>4, <1>7, <2>1, First
<1>5. CASE p.kind = "not"
  BY <1>1, <1>5, MatchMembers DEF MatchOf
<1>6. CASE p.kind \notin {"and", "or", "not"}
  BY <1>1, <1>6 DEF MatchOf
<1> QED BY <1>3, <1>4, <1>5, <1>6

-----------------------------------------------------------------------------
(***************************************************************************)
(* MatchesAsWritten.                                                       *)
(***************************************************************************)
Rules == [match : MatchPredicate, result : ResultPredicate]

LEMMA RulesType ==
  ASSUME NEW c \in Accepted
  PROVE  RulesOf(c) \in Seq(Rules) /\ ToSet(RulesOf(c)) \subseteq Rules
<1>1. c \in Seq(Seq(Rules))
  BY MapperAssumption DEF Accepted, Rules
<1>2. RulesOf(c) \in Seq(Rules)
  BY <1>1, FlattenType DEF RulesOf
<1> QED BY <1>2 DEF ToSet

Failing(p, req) == IsLeaf(p) /\ isLeafMatch(p, req) \in Errors
Logical(p, req) ==
    IF isMatch(p, req) \in Errors THEN \E q \in Inside(p) : Failing(q, req)
    ELSE \A failed \in BOOLEAN : Holds(p, req, failed) <=> isMatch(p, req) = "true"

\* The outcome of p follows from those of its members by the logic of p.
LEMMA LogicalStep ==
  ASSUME NEW req, NEW p \in MatchPredicate, \A q \in Members(p) : Logical(q, req)
  PROVE  Logical(p, req)
<1>0. p \in Predicate /\ isMatch(p, req) \in Outcomes
  BY MatchUnfolds DEF Predicate
<1>1. CASE p.kind = "and"
  <2>1. CASE isMatch(p, req) = "true" /\ \A q \in Members(p) : isMatch(q, req) = "true"
    <3>1. \A failed \in BOOLEAN : \A q \in Members(p) : Holds(q, req, failed)
      BY <2>1 DEF Logical, Errors
    <3> QED BY <1>1, <2>1, <3>1, HoldsUnfolds DEF Logical, Errors
  <2>2. ASSUME NEW i \in DOMAIN p.rules,
               isMatch(p, req) = isMatch(p.rules[i], req), isMatch(p.rules[i], req) # "true"
        PROVE  Logical(p, req)
    <3>1. p.rules[i] \in Members(p)
      BY <1>1, MatchMembers
    <3>2. CASE isMatch(p, req) \in Errors
      BY <1>0, <2>2, <3>1, <3>2, InsideMembers DEF Logical
    <3>3. CASE isMatch(p, req) \notin Errors
      <4>1. \A failed \in BOOLEAN : ~Holds(p.rules[i], req, failed)
        BY <2>2, <3>1, <3>3, HoldsUnfolds, MatchMembers DEF Logical
      <4> QED BY <1>1, <2>2, <3>1, <3>3, <4>1, HoldsUnfolds DEF Logical
    <3> QED BY <3>2, <3>3
  <2> QED BY <1>1, <2>1, <2>2, MatchCases
<1>2. CASE p.kind = "or"
  <2>1. CASE isMatch(p, req) = "false" /\ \A q \in Members(p) : isMatch(q, req) = "false"
    <3>1. \A failed \in BOOLEAN : \A q \in Members(p) : ~Holds(q, req, failed)
      BY <2>1, HoldsUnfolds, MatchMembers DEF Logical, Errors
    <3> QED BY <1>2, <2>1, <3>1, HoldsUnfolds DEF Logical, Errors
  <2>2. ASSUME NEW i \in DOMAIN p.rules,
               isMatch(p, req) = isMatch(p.rules[i], req), isMatch(p.rules[i], req) # "false"
        PROVE  Logical(p, req)
    <3>1. p.rules[i] \in Members(p)
      BY <1>2, MatchMembers
    <3>2. CASE isMatch(p, req) \in Errors
      BY <1>0, <2>2, <3>1, <3>2, InsideMembers DEF Logical
    <3>3. CASE isMatch(p, req) \notin Errors
      <4>1. isMatch(p, req) = "true"
        BY <1>0, <2>2, <3>3 DEF Outcomes, Errors
      <4>2. \A failed \in BOOLEAN : Holds(p.rules[i], req, failed)
        BY <2>2, <3>1, <3>3, <4>1 DEF Logical
      <4> QED BY <1>2, <3>1, <3>3, <4>1, <4>2, HoldsUnfolds DEF Logical
    <3> QED BY <3>2, <3>3
  <2> QED BY <1>2, <2>1, <2>2, MatchCases
<1>3. CASE p.kind = "not"
  <2>1. p.rule \in Members(p) /\ p.rule \in MatchPredicate /\ isMatch(p.rule, req) \in Outcomes
    BY <1>3, MatchMembers, MatchUnfolds
  <2>2. isMatch(p, req) = isNotMatch(isMatch(p.rule, req))
    BY <1>3, MatchCases
  <2>3. CASE isMatch(p.rule, req) \in Errors
    BY <1>0, <2>1, <2>2, <2>3, InsideMembers DEF Logical, isNotMatch, Errors
  <2>4. CASE isMatch(p.rule, req) \notin Errors
    <3>1. /\ isMatch(p, req) \notin Errors
          /\ isMatch(p, req) = "true" <=> isMatch(p.rule, req) # "true"
      BY <2>1, <2>2, <2>4 DEF isNotMatch, Outcome, Errors, Outcomes
    <3>2. \A failed \in BOOLEAN : Holds(p.rule, req, failed) <=> isMatch(p.rule, req) = "true"
      BY <2>1, <2>4 DEF Logical
    <3> QED BY <1>3, <3>1, <3>2, HoldsUnfolds DEF Logical
  <2> QED BY <2>3, <2>4
<1>4. CASE p.kind \notin {"and", "or", "not"}
  <2>1. isMatch(p, req) = isLeafMatch(p, req) /\ IsLeaf(p) /\ p \in Inside(p)
    BY <1>0, <1>4, MatchCases, InsideMembers DEF IsLeaf
  <2>2. \A failed \in BOOLEAN :
          Holds(p, req, failed)
            <=> isMatch(p, req) = "true" \/ (isMatch(p, req) \in Errors /\ failed)
    BY <1>4, <2>1, HoldsUnfolds DEF Errors
  <2>3. CASE isMatch(p, req) \in Errors
    BY <2>1, <2>3 DEF Logical, Failing
  <2>4. CASE isMatch(p, req) \notin Errors
    BY <2>2, <2>4 DEF Logical
  <2> QED BY <2>3, <2>4
<1>5. p.kind \in {"and", "or", "not"} \/ p.kind \notin {"and", "or", "not"}
  OBVIOUS
<1> QED BY <1>1, <1>2, <1>3, <1>4

LEMMA AllLogical ==
  ASSUME NEW req, NEW p \in MatchPredicate
  PROVE  Logical(p, req)
<1> DEFINE T == {q \in MatchPredicate : ~Logical(q, req)}
<1> SUFFICES ASSUME T # {} PROVE FALSE
  OBVIOUS
<1>1. PICK q \in T : \A r \in Members(q) : r \notin T
  BY LowestPredicate DEF Predicate
<1>2. \A r \in Members(q) : Logical(r, req)
  BY <1>1, MatchMembers
<1> QED BY <1>2, LogicalStep

-----------------------------------------------------------------------------
(***************************************************************************)
(* getResult.                                                              *)
(***************************************************************************)
LEMMA StepOfType ==
  ASSUME NEW path, NEW first \in SUBSET Value, NEW i, NEW found,
         i # 1 => found[i - 1] \in SUBSET Value
  PROVE  StepOf(found, i, first, path) \in SUBSET Value
<1>1. CASE i = 1
  BY <1>1 DEF StepOf
<1>2. CASE i # 1
  <2>1. \A value \in found[i - 1] : Field(value.struct, path[i]) \subseteq Value
    BY <1>2, MapperAssumption DEF Field, IsStruct
  <2> QED BY <1>2, <2>1 DEF StepOf
<1> QED BY <1>1, <1>2

\* A path into node metadata leads to values.
LEMMA WalkType ==
  ASSUME NEW struct, IsStruct(struct), NEW path \in Seq(STRING)
  PROVE  Walk(struct, path) \subseteq Value
<1>1. CASE path = <<>>
  BY <1>1, MapperAssumption DEF Walk
<1>2. CASE path # <<>>
  <2> DEFINE S == 1..Len(path)
             H == [i \in S |-> i]
             first == Field(struct, path[1])
             F == [i \in S |-> [found \in [S -> SUBSET Value] |-> StepOf(found, i, first, path)]]
             M == CHOOSE m : m = [i \in S |-> StepOf(m, i, first, path)]
  <2>1. Len(path) \in Nat \ {0} /\ \A i \in S : i # 1 => i - 1 \in S
    BY <1>2
  <2>2. first \in SUBSET Value
    BY DEF Field, IsStruct
  <2> HIDE DEF first
  <2>3. H \in [S -> Nat]
    OBVIOUS
  <2>4. F \in [S -> [[S -> SUBSET Value] -> SUBSET Value]]
    <3>1. ASSUME NEW i \in S, NEW found \in [S -> SUBSET Value]
          PROVE  StepOf(found, i, first, path) \in SUBSET Value
      <4>1. i # 1 => found[i - 1] \in SUBSET Value
        BY <2>1
      <4> QED BY <2>2, <4>1, StepOfType
    <3> HIDE DEF S
    <3> QED BY <3>1
  <2>5. ASSUME NEW i \in S, NEW g \in [S -> SUBSET Value], NEW h \in [S -> SUBSET Value],
               \A j \in S : H[j] < H[i] => g[j] = h[j]
        PROVE  F[i][g] = F[i][h]
    <3>1. i # 1 => g[i - 1] = h[i - 1]
      BY <2>1, <2>5
    <3> QED BY <3>1 DEF StepOf
  <2>6. PICK m : Solves(m, S, SUBSET Value, F)
    <3>1. Descends(S, H, SUBSET Value, F)
      BY <2>3, <2>4, <2>5 DEF Descends
    <3> HIDE DEF S, F, H
    <3> QED BY <3>1, Recursion
  <2>7. m \in [S -> SUBSET Value] /\ \A i \in S : m[i] = StepOf(m, i, first, path)
    BY <2>6 DEF Solves
  <2>8. M = [i \in S |-> StepOf(M, i, first, path)]
    <3>1. m = [i \in S |-> StepOf(m, i, first, path)]
      BY <2>7
    <3> QED BY <3>1
  <2>9. Walk(struct, path) = M[Len(path)]
    BY <1>2 DEF Walk, WalkFrom, first
  <2> HIDE DEF M
  <2>10. \A i \in S : M[i] \in SUBSET Value
    <3> DEFINE T == {i \in S : M[i] \notin SUBSET Value}
    <3> SUFFICES ASSUME T # {} PROVE FALSE
      OBVIOUS
    <3>1. T \in SUBSET Nat
      OBVIOUS
    <3>2. PICK i \in T : \A j \in T : i <= j
      BY <3>1, Least
    <3>3. i # 1 => M[i - 1] \in SUBSET Value
      BY <2>1, <3>2
    <3>4. M[i] = StepOf(M, i, first, path)
      BY <2>8
    <3> QED BY <2>2, <3>3, <3>4, StepOfType
  <2>11. Len(path) \in S
    BY <2>1
  <2> QED BY <2>9, <2>10, <2>11
<1> QED BY <1>1, <1>2

Fragment == [ok : BOOLEAN, str : String]

\* What the getters of a request return.
IsRequest(req) ==
    /\ req.id \in String /\ req.cluster \in String
    /\ \A part \in Part : req.locality[part] \in String
    /\ req.names \in Seq(String)
    /\ IsStruct(req.metadata)

LEMMA NonEmptyType ==
  ASSUME NEW s \in String
  PROVE  NonEmpty(s) \in Fragment
BY DEF NonEmpty, Ok, Fail, Fragment, String

LEMMA ActionType ==
  ASSUME NEW str \in String, NEW action, IsAction(action), action.replace \in String
  PROVE  getResultFragmentFromAction(str, action) \in Fragment
<1> DEFINE after == [i \in DOMAIN str |-> action.replace \o <<str[i]>>]
           for == [i \in DOMAIN str |-> IF str[i] = action.pattern THEN action.replace
                                        ELSE <<str[i]>>]
<1>1. after \in Seq(Seq(Atom)) /\ for \in Seq(Seq(Atom))
  <2>1. DOMAIN str = 1..Len(str) /\ Len(str) \in Nat /\ \A i \in DOMAIN str : str[i] \in Atom
    BY DEF String
  <2>2. \A i \in DOMAIN str : <<str[i]>> \in Seq(Atom) /\ action.replace \o <<str[i]>> \in Seq(Atom)
    BY <2>1 DEF String
  <2> QED BY <2>1, <2>2 DEF String
<1> HIDE DEF after, for
<1>2. FlattenSeq(after) \o action.replace \in Seq(Atom) /\ FlattenSeq(for) \in Seq(Atom)
  <2>1. FlattenSeq(after) \in Seq(Atom) /\ FlattenSeq(for) \in Seq(Atom)
    BY <1>1, FlattenType
  <2> QED BY <2>1 DEF String
<1>3. Replace(action.pattern, action.replace, str) \in String
  BY <1>2 DEF Replace, String, after, for
<1>4. Fail \in Fragment
  BY DEF Fail, Fragment, String
<1> QED BY <1>3, <1>4, NonEmptyType DEF getResultFragmentFromAction, IsAction

LEMMA JoinType ==
  ASSUME NEW parts \in Seq(String), NEW sep \in String
  PROVE  Join(parts, sep) \in String
<1> DEFINE pieces == [i \in DOMAIN parts |-> IF i = 1 THEN parts[1] ELSE sep \o parts[i]]
<1>1. DOMAIN parts = 1..Len(parts) /\ Len(parts) \in Nat /\ \A i \in DOMAIN parts : parts[i] \in Seq(Atom)
  BY DEF String
<1>2. \A i \in DOMAIN parts : sep \o parts[i] \in Seq(Atom)
  BY <1>1 DEF String
<1>3. pieces \in Seq(Seq(Atom))
  BY <1>1, <1>2
<1> HIDE DEF pieces
<1>4. FlattenSeq(pieces) \in Seq(Atom)
  BY <1>3, FlattenType
<1> QED BY <1>4 DEF Join, String, pieces

LEMMA JoinAllType ==
  ASSUME NEW outs \in Seq(Fragment), NEW sep \in String
  PROVE  JoinAll(outs, sep) \in Fragment
<1> DEFINE strs == [i \in DOMAIN outs |-> outs[i].str]
<1>1. strs \in Seq(String)
  <2>1. DOMAIN outs = 1..Len(outs) /\ Len(outs) \in Nat /\ \A i \in DOMAIN outs : outs[i] \in Fragment
    OBVIOUS
  <2> QED BY <2>1 DEF Fragment
<1> HIDE DEF strs
<1>2. Join(strs, sep) \in String
  BY <1>1, JoinType
<1> QED BY <1>2 DEF JoinAll, Ok, Fail, Fragment, String, strs

LEMMA LocalityActionType ==
  ASSUME NEW locality, \A part \in Part : locality[part] \in String,
         NEW p \in ResultPredicate, p.kind = "locality"
  PROVE  getFragmentFromLocalityAction(locality, p.actions) \in Fragment
<1> DEFINE of(part) == IF part \notin DOMAIN p.actions THEN <<>>
                       ELSE <<getResultFragmentFromAction(locality[part], p.actions[part])>>
           outs == of("region") \o of("zone") \o of("subzone")
<1>1. ASSUME NEW part \in Part PROVE of(part) \in Seq(Fragment)
  <2>1. CASE part \in DOMAIN p.actions
    <3>1. IsAction(p.actions[part]) /\ p.actions[part].replace \in String
      BY <2>1, KeyerAssumption, MapperAssumption
    <3>2. getResultFragmentFromAction(locality[part], p.actions[part]) \in Fragment
      BY <3>1, ActionType
    <3> QED BY <2>1, <3>2
  <2>2. CASE part \notin DOMAIN p.actions
    BY <2>2
  <2> QED BY <2>1, <2>2
<1>2. of("region") \in Seq(Fragment) /\ of("zone") \in Seq(Fragment) /\ of("subzone") \in Seq(Fragment)
  BY <1>1 DEF Part
<1>3. outs \in Seq(Fragment)
  <2> HIDE DEF of
  <2> QED BY <1>2
<1>4. getFragmentFromLocalityAction(locality, p.actions)
        = IF outs = <<>> THEN Fail ELSE JoinAll(outs, <<"|">>)
  BY DEF getFragmentFromLocalityAction
<1> HIDE DEF outs
<1>5. Fail \in Fragment
  BY DEF Fail, Fragment, String
<1> QED BY <1>3, <1>4, <1>5, JoinAllType, MapperAssumption

LEMMA ResultOfType ==
  ASSUME NEW p \in ResultPredicate, NEW req, IsRequest(req),
         NEW out, \A q \in Members(p) : out[q] \in Fragment
  PROVE  ResultOf(out, p, req) \in Fragment
<1>0. p.kind \in ResultKinds /\ Fail \in Fragment /\ Ok(<<>>) \in Fragment
  BY KeyerAssumption DEF Fail, Ok, Fragment, String
<1>1. CASE p.kind = "string"
  BY <1>1, MapperAssumption DEF ResultOf, Ok, Fragment
<1>2. CASE p.kind \in {"id", "cluster", "metadata", "name"}
  <2>1. IsAction(p.action) /\ p.action.replace \in String
    BY <1>2, KeyerAssumption, MapperAssumption
  <2>2. \A str \in String : getResultFragmentFromAction(str, p.action) \in Fragment
    BY <2>1, ActionType
  <2>3. CASE p.kind \in {"id", "cluster"}
    BY <2>2, <2>3 DEF ResultOf, IsRequest
  <2>4. CASE p.kind = "metadata"
    <3>1. Walk(req.metadata, p.path) \subseteq Value
      BY <2>4, WalkType, MapperAssumption DEF IsRequest
    <3>2. \A v \in Value : v.str \in String
      BY MapperAssumption
    <3>3. getFragmentFromNodeMetadataAction(req.metadata, p.path, p.action) \in Fragment
      BY <1>0, <2>2, <3>1, <3>2 DEF getFragmentFromNodeMetadataAction
    <3> QED BY <2>4, <3>3 DEF ResultOf
  <2>5. CASE p.kind = "name"
    <3>1. Nth(req.names, p.element) \subseteq String
      BY DEF Nth, IsRequest
    <3>2. getResultFromResourceNamesPredicate(req.names, p.element, p.action) \in Fragment
      BY <1>0, <2>2, <3>1 DEF getResultFromResourceNamesPredicate
    <3> QED BY <2>5, <3>2 DEF ResultOf
  <2> QED BY <1>2, <2>3, <2>4, <2>5
<1>3. CASE p.kind = "locality"
  BY <1>3, LocalityActionType DEF ResultOf, IsRequest
<1>4. CASE p.kind = "andResult"
  <2> DEFINE outs == [i \in DOMAIN p.results |-> out[p.results[i]]]
  <2>1. p.results \in Seq(ResultPredicate) /\ \A i \in DOMAIN p.results : p.results[i] \in Members(p)
    BY <1>4, ResultMembers
  <2>2. outs \in Seq(Fragment)
    BY <2>1
  <2>3. <<>> \in String
    BY DEF String
  <2> HIDE DEF outs
  <2>4. JoinAll(outs, <<>>) \in Fragment
    BY <2>2, <2>3, JoinAllType
  <2> QED BY <1>4, <2>4 DEF ResultOf, outs
<1>5. CASE p.kind \in {"node", "unset", "nil"}
  BY <1>0, <1>5 DEF ResultOf
<1> QED BY <1>0, <1>1, <1>2, <1>3, <1>4, <1>5 DEF ResultKinds

LEMMA ResultOfMembers ==
  ASSUME NEW p \in ResultPredicate, NEW req, NEW g, NEW h, \A q \in Members(p) : g[q] = h[q]
  PROVE  ResultOf(g, p, req) = ResultOf(h, p, req)
<1>1. CASE p.kind = "andResult"
  <2>1. \A i \in DOMAIN p.results : g[p.results[i]] = h[p.results[i]]
    BY <1>1, ResultMembers
  <2>2. [i \in DOMAIN p.results |-> g[p.results[i]]] = [i \in DOMAIN p.results |-> h[p.results[i]]]
    BY <2>1
  <2> QED BY <1>1, <2>2 DEF ResultOf
<1>2. CASE p.kind # "andResult"
  <2>1. p.kind \in ResultKinds
    BY KeyerAssumption
  <2> QED BY <1>2, <2>1 DEF ResultOf, ResultKinds
<1> QED BY <1>1, <1>2

\* getResult is what its recursive definition says.
LEMMA ResultUnfolds ==
  ASSUME NEW req, IsRequest(req), NEW p \in ResultPredicate
  PROVE  /\ getResult(p, req) \in Fragment
         /\ getResult(p, req) = ResultOf([q \in ResultPredicate |-> getResult(q, req)], p, req)
<1> DEFINE F == [q \in ResultPredicate |->
                    [out \in [ResultPredicate -> Fragment] |-> ResultOf(out, q, req)]]
           H == [q \in ResultPredicate |-> Height[q]]
           M == CHOOSE m : m = [q \in ResultPredicate |-> ResultOf(m, q, req)]
<1>1. F \in [ResultPredicate -> [[ResultPredicate -> Fragment] -> Fragment]]
  <2>1. ASSUME NEW q \in ResultPredicate, NEW out \in [ResultPredicate -> Fragment]
        PROVE  ResultOf(out, q, req) \in Fragment
    BY ResultOfType, ResultMembers
  <2> QED BY <2>1
<1>2. H \in [ResultPredicate -> Nat]
  BY KeyerAssumption DEF Predicate
<1>3. ASSUME NEW q \in ResultPredicate, NEW g \in [ResultPredicate -> Fragment],
             NEW h \in [ResultPredicate -> Fragment],
             \A r \in ResultPredicate : H[r] < H[q] => g[r] = h[r]
      PROVE  F[q][g] = F[q][h]
  <2>1. \A r \in Members(q) : r \in ResultPredicate /\ H[r] < H[q]
    BY ResultMembers, Lower DEF Predicate
  <2>2. \A r \in Members(q) : g[r] = h[r]
    BY <1>3, <2>1
  <2>3. ResultOf(g, q, req) = ResultOf(h, q, req)
    BY <2>2, ResultOfMembers
  <2> QED BY <2>3
<1>4. PICK m : Solves(m, ResultPredicate, Fragment, F)
  <2>1. Descends(ResultPredicate, H, Fragment, F)
    BY <1>1, <1>2, <1>3 DEF Descends
  <2>2. Fragment # {}
    <3>1. Fail \in Fragment
      BY DEF Fail, Fragment, String
    <3> QED BY <3>1
  <2> HIDE DEF F, H
  <2> QED BY <2>1, <2>2, Recursion
<1>5. /\ m \in [ResultPredicate -> Fragment]
      /\ \A q \in ResultPredicate : m[q] = ResultOf(m, q, req)
  BY <1>4 DEF Solves
<1>6. M = [q \in ResultPredicate |-> ResultOf(M, q, req)]
  <2>1. m = [q \in ResultPredicate |-> ResultOf(m, q, req)]
    BY <1>5
  <2> QED BY <2>1
<1>7. \A q : getResult(q, req) = M[q]
  BY DEF getResult
<1> HIDE DEF F, H, M
<1>8. \A q \in ResultPredicate : M[q] \in Fragment
  <2> DEFINE T == {q \in ResultPredicate : M[q] \notin Fragment}
  <2> SUFFICES ASSUME T # {} PROVE FALSE
    OBVIOUS
  <2>1. PICK q \in T : \A r \in Members(q) : r \notin T
    BY LowestPredicate DEF Predicate
  <2>2. \A r \in Members(q) : M[r] \in Fragment
    BY <2>1, ResultMembers
  <2>3. ResultOf(M, q, req) \in Fragment
    BY <2>2, ResultOfType
  <2> QED BY <1>6, <2>3
<1>9. \A q \in Members(p) : M[q] = [r \in ResultPredicate |-> getResult(r, req)][q]
  BY <1>7, ResultMembers
<1>10. ResultOf(M, p, req) = ResultOf([q \in ResultPredicate |-> getResult(q, req)], p, req)
  BY <1>9, ResultOfMembers
<1> QED BY <1>6, <1>7, <1>8, <1>10

-----------------------------------------------------------------------------
(***************************************************************************)
(* Requests that are the same in what a predicate reads.                   *)
(***************************************************************************)
\* An outcome of a at a leaf, which is no error, is the outcome of b.
MatchLeafSame(q, a, b) ==
    isLeafMatch(q, a) \notin Errors => isLeafMatch(q, b) = isLeafMatch(q, a)

MatchSame(p, a, b) == isMatch(p, a) \notin Errors => isMatch(p, b) = isMatch(p, a)

\* The early returns of isMatch are taken alike: errors that a does not run
\* into are not met by b either.
LEMMA MatchSameStep ==
  ASSUME NEW a, NEW b, NEW p \in MatchPredicate,
         IsLeaf(p) => MatchLeafSame(p, a, b),
         \A q \in Members(p) : MatchSame(q, a, b)
  PROVE  MatchSame(p, a, b)
<1> SUFFICES ASSUME isMatch(p, a) \notin Errors
             PROVE  isMatch(p, b) = isMatch(p, a)
  BY DEF MatchSame
<1>0. p.kind \in {"and", "or"} =>
        /\ p.rules \in Seq(MatchPredicate) /\ Members(p) = {p.rules[i] : i \in DOMAIN p.rules}
        /\ \A i \in DOMAIN p.rules : MatchSame(p.rules[i], a, b)
  BY MatchMembers
<1>1. CASE p.kind = "and"
  <2>1. \A i \in DOMAIN p.rules : isMatch(p.rules[i], a) \notin Errors
                                  => isMatch(p.rules[i], b) = isMatch(p.rules[i], a)
    BY <1>0, <1>1 DEF MatchSame
  <2>2. DOMAIN p.rules = 1..Len(p.rules) /\ Len(p.rules) \in Nat
    BY <1>0, <1>1
  <2>3. CASE \A i \in DOMAIN p.rules : isMatch(p.rules[i], a) = "true"
    <3>1. \A i \in DOMAIN p.rules : isMatch(p.rules[i], b) = "true"
      BY <2>1, <2>3 DEF Errors
    <3>2. isMatch(p, a) = "true" /\ isMatch(p, b) = "true"
      BY <1>0, <1>1, <2>3, <3>1, MatchCases
    <3> QED BY <3>2
  <2>4. ASSUME NEW i \in DOMAIN p.rules,
               isMatch(p, a) = isMatch(p.rules[i], a), isMatch(p.rules[i], a) # "true",
               \A j \in 1..(i - 1) : isMatch(p.rules[j], a) = "true"
        PROVE  isMatch(p, b) = isMatch(p, a)
    <3>1. isMatch(p.rules[i], b) = isMatch(p.rules[i], a)
      BY <2>1, <2>4
    <3>2. \A j \in 1..(i - 1) : isMatch(p.rules[j], b) = "true"
      BY <2>1, <2>2, <2>4 DEF Errors
    <3>3. PICK k \in DOMAIN p.rules : /\ isMatch(p, b) = isMatch(p.rules[k], b)
                                      /\ isMatch(p.rules[k], b) # "true"
                                      /\ \A j \in 1..(k - 1) : isMatch(p.rules[j], b) = "true"
      BY <1>0, <1>1, <2>4, <3>1, MatchCases
    <3>4. k = i
      BY <2>2, <2>4, <3>1, <3>2, <3>3
    <3> QED BY <2>4, <3>1, <3>3, <3>4
  <2> QED BY <1>0, <1>1, <2>3, <2>4, MatchCases
<1>2. CASE p.kind = "or"
  <2>1. \A i \in DOMAIN p.rules : isMatch(p.rules[i], a) \notin Errors
                                  => isMatch(p.rules[i], b) = isMatch(p.rules[i], a)
    BY <1>0, <1>2 DEF MatchSame
  <2>2. DOMAIN p.rules = 1..Len(p.rules) /\ Len(p.rules) \in Nat
    BY <1>0, <1>2
  <2>3. CASE \A i \in DOMAIN p.rules : isMatch(p.rules[i], a) = "false"
    <3>1. \A i \in DOMAIN p.rules : isMatch(p.rules[i], b) = "false"
      BY <2>1, <2>3 DEF Errors
    <3>2. isMatch(p, a) = "false" /\ isMatch(p, b) = "false"
      BY <1>0, <1>2, <2>3, <3>1, MatchCases
    <3> QED BY <3>2
  <2>4. ASSUME NEW i \in DOMAIN p.rules,
               isMatch(p, a) = isMatch(p.rules[i], a), isMatch(p.rules[i], a) # "false",
               \A j \in 1..(i - 1) : isMatch(p.rules[j], a) = "false"
        PROVE  isMatch(p, b) = isMatch(p, a)
    <3>1. isMatch(p.rules[i], b) = isMatch(p.rules[i], a)
      BY <2>1, <2>4
    <3>2. \A j \in 1..(i - 1) : isMatch(p.rules[j], b) = "false"
      BY <2>1, <2>2, <2>4 DEF Errors
    <3>3. PICK k \in DOMAIN p.rules : /\ isMatch(p, b) = isMatch(p.rules[k], b)
                                      /\ isMatch(p.rules[k], b) # "false"
                                      /\ \A j \in 1..(k - 1) : isMatch(p.rules[j], b) = "false"
      BY <1>0, <1>2, <2>4, <3>1, MatchCases
    <3>4. k = i
      BY <2>2, <2>4, <3>1, <3>2, <3>3
    <3> QED BY <2>4, <3>1, <3>3, <3>4
  <2> QED BY <1>0, <1>2, <2>3, <2>4, MatchCases
<1>3. CASE p.kind = "not"
  <2>1. p.rule \in Members(p) /\ isMatch(p, a) = isNotMatch(isMatch(p.rule, a))
                              /\ isMatch(p, b) = isNotMatch(isMatch(p.rule, b))
    BY <1>3, MatchMembers, MatchCases
  <2>2. isMatch(p.rule, a) \notin Errors
    BY <2>1 DEF isNotMatch, Errors
  <2> QED BY <2>1, <2>2 DEF MatchSame
<1>4. CASE p.kind \notin {"and", "or", "not"}
  <2>1. isMatch(p, a) = isLeafMatch(p, a) /\ isMatch(p, b) = isLeafMatch(p, b)
    BY <1>4, MatchCases
  <2> QED BY <1>4, <2>1 DEF IsLeaf, MatchLeafSame
<1> QED BY <1>1, <1>2, <1>3, <1>4

LEMMA SameMatches ==
  ASSUME NEW a, NEW b, NEW p \in MatchPredicate,
         \A q \in Inside(p) : IsLeaf(q) => MatchLeafSame(q, a, b)
  PROVE  MatchSame(p, a, b)
<1> DEFINE T == {q \in MatchPredicate : Inside(q) \subseteq Inside(p) /\ ~MatchSame(q, a, b)}
<1> SUFFICES ASSUME T # {} PROVE FALSE
  OBVIOUS
<1>1. PICK q \in T : \A r \in Members(q) : r \notin T
  BY LowestPredicate DEF Predicate
<1>2. q \in Inside(p) /\ \A r \in Members(q) : Inside(r) \subseteq Inside(p)
  BY InsideMembers DEF Predicate
<1>3. \A r \in Members(q) : MatchSame(r, a, b)
  BY <1>1, <1>2, MatchMembers
<1> QED BY <1>2, <1>3, MatchSameStep

ResultLeafSame(q, a, b) == ResultOf(<<>>, q, a) = ResultOf(<<>>, q, b)

LEMMA SameResults ==
  ASSUME NEW a, NEW b, IsRequest(a), IsRequest(b), NEW p \in ResultPredicate,
         \A q \in Inside(p) : q.kind # "andResult" => ResultLeafSame(q, a, b)
  PROVE  getResult(p, b) = getResult(p, a)
<1> DEFINE T == {q \in ResultPredicate : /\ Inside(q) \subseteq Inside(p)
                                         /\ getResult(q, b) # getResult(q, a)}
           ofA == [q \in ResultPredicate |-> getResult(q, a)]
           ofB == [q \in ResultPredicate |-> getResult(q, b)]
<1> SUFFICES ASSUME T # {} PROVE FALSE
  OBVIOUS
<1>1. PICK q \in T : \A r \in Members(q) : r \notin T
  BY LowestPredicate DEF Predicate
<1>2. q \in Inside(p) /\ \A r \in Members(q) : Inside(r) \subseteq Inside(p)
  BY InsideMembers DEF Predicate
<1>3. \A r \in Members(q) : ofB[r] = ofA[r]
  BY <1>1, <1>2, ResultMembers
<1>4. getResult(q, a) = ResultOf(ofA, q, a) /\ getResult(q, b) = ResultOf(ofB, q, b)
  BY ResultUnfolds
<1> HIDE DEF ofA, ofB
<1>5. ResultOf(ofB, q, b) = ResultOf(ofA, q, b)
  BY <1>3, ResultOfMembers
<1>6. ResultOf(ofA, q, b) = ResultOf(ofA, q, a)
  <2>1. CASE q.kind = "andResult"
    BY <2>1 DEF ResultOf
  <2>2. CASE q.kind # "andResult"
    <3>1. Members(q) = {}
      BY <2>2, ResultMembers
    <3>2. \A req : ResultOf(ofA, q, req) = ResultOf(<<>>, q, req)
      BY <3>1, ResultOfMembers
    <3> QED BY <1>2, <2>2, <3>2 DEF ResultLeafSame
  <2> QED BY <2>1, <2>2
<1> QED BY <1>4, <1>5, <1>6

-----------------------------------------------------------------------------
(***************************************************************************)
(* TypeOK.                                                                 *)
(***************************************************************************)
\* The field is written once and for all.
LEMMA FieldTwice ==
  ASSUME NEW metadata
  PROVE  WithField(WithField(metadata)) = WithField(metadata)
<1> DEFINE D == DOMAIN metadata.fields \union {OwnField}
           once == [f \in D |-> IF f = OwnField THEN StringValue(field) ELSE metadata.fields[f]]
<1>1. WithField(metadata) = [isNil |-> FALSE, fields |-> once]
  BY DEF WithField, StructOf
<1>2. DOMAIN once \union {OwnField} = D /\ WithField(metadata).fields = once
  BY <1>1
<1>3. [f \in D |-> IF f = OwnField THEN StringValue(field) ELSE once[f]] = once
  OBVIOUS
<1> HIDE DEF once
<1> QED BY <1>1, <1>2, <1>3 DEF WithField, StructOf

LEMMA SendMsgNode ==
  ASSUME TypeOK, NEW c \in Client
  PROVE  [node[c] EXCEPT !.metadata = WithField(@)] = [sentBy[c] EXCEPT !.metadata = WithField(@)]
<1>1. CASE node[c] = sentBy[c]
  BY <1>1
<1>2. CASE node[c] = [sentBy[c] EXCEPT !.metadata = WithField(@)]
  <2> DEFINE n == sentBy[c]
  <2>1. "metadata" \in DOMAIN n
    BY MapperAssumption DEF TypeOK
  <2>2. [node[c] EXCEPT !.metadata = WithField(@)]
          = [n EXCEPT !.metadata = WithField(WithField(n.metadata))]
    BY <1>2, <2>1
  <2> QED BY <2>2, FieldTwice
<1> QED BY <1>1, <1>2 DEF TypeOK

\* The request of a node the client has sent, or that SendMsg has written into.
LEMMA RequestTypes ==
  ASSUME TypeOK, NEW c \in Client, NEW t, NEW names \in Names \union {<<>>}
  PROVE  /\ IsRequest(Request(sentBy[c], t, names))
         /\ IsRequest(Request(node[c], t, names))
<1> DEFINE n == sentBy[c]
<1>1. n \in Node /\ "metadata" \in DOMAIN n /\ IsStruct(n.metadata)
  BY MapperAssumption DEF TypeOK
<1>2. names \in Seq(String)
  <2>1. <<>> \in Seq(String) /\ Names \subseteq Seq(String)
    BY MapperAssumption
  <2> QED BY <2>1
<1>3. IsRequest(Request(n, t, names))
  BY <1>1, <1>2, MapperAssumption DEF IsRequest, Request
<1>4. IsStruct(WithField(n.metadata))
  <2>1. StringValue(field) \in Value
    BY MapperAssumption DEF TypeOK
  <2> QED BY <1>1, <2>1 DEF IsStruct, WithField, StructOf
<1> DEFINE w == [n EXCEPT !.metadata = WithField(n.metadata)]
<1>5. w.metadata = WithField(n.metadata) /\ w.id = n.id /\ w.cluster = n.cluster /\ w.locality = n.locality
  BY <1>1
<1> HIDE DEF w
<1>6. IsRequest(Request(w, t, names))
  BY <1>3, <1>4, <1>5 DEF IsRequest, Request
<1> QED BY <1>3, <1>6 DEF TypeOK, w

LEMMA FragmentsType ==
  ASSUME NEW c \in Accepted, NEW req, IsRequest(req)
  PROVE  Fragments(c, req) \in Seq(Fragment)
<1> DEFINE rules == RulesOf(c)
           frag(rule) == IF isMatch(rule.match, req) = "true"
                         THEN <<getResult(rule.result, req)>> ELSE <<>>
           frags == [i \in DOMAIN rules |-> frag(rules[i])]
<1>1. rules \in Seq(Rules)
  BY RulesType
<1>2. \A rule \in Rules : frag(rule) \in Seq(Fragment)
  <2>1. ASSUME NEW rule \in Rules PROVE getResult(rule.result, req) \in Fragment
    <3>1. rule.result \in ResultPredicate
      BY DEF Rules
    <3> QED BY <3>1, ResultUnfolds
  <2> QED BY <2>1
<1>3. Fragments(c, req) = FlattenSeq(frags)
  BY DEF Fragments
<1> HIDE DEF rules, frag
<1>4. frags \in Seq(Seq(Fragment))
  <2>1. /\ Len(rules) \in Nat /\ DOMAIN rules = 1..Len(rules)
        /\ \A i \in DOMAIN rules : rules[i] \in Rules
    BY <1>1
  <2>2. \A i \in DOMAIN rules : frags[i] \in Seq(Fragment)
    BY <1>2, <2>1
  <2> QED BY <2>1, <2>2
<1> HIDE DEF frags
<1> QED BY <1>3, <1>4, FlattenType

LEMMA KeyType ==
  ASSUME NEW c \in Accepted, NEW req, IsRequest(req)
  PROVE  GetKey(c, req) \in Fragment
<1>1. Fragments(c, req) \in Seq(Fragment)
  BY FragmentsType
<1>2. JoinAll(Fragments(c, req), Separator) \in Fragment
  BY <1>1, JoinAllType, MapperAssumption
<1>3. Fail \in Fragment
  BY DEF Fail, Fragment, String
<1> QED BY <1>2, <1>3 DEF GetKey

\* The types of the variables, with node a function of the clients.
IInv == TypeOK /\ node = [c \in Client |-> node[c]]

LEMMA InitTypes == Init => IInv
<1> SUFFICES ASSUME Init PROVE IInv
  OBVIOUS
<1>1. watch \in [Client -> [open : BOOLEAN, names : Names \union {<<>>}, key : String]]
  BY DEF Init, NoWatch, String
<1>2. node = sentBy /\ sentBy \in [Client -> Node]
  BY DEF Init
<1> QED BY <1>1, <1>2 DEF Init, IInv, TypeOK

\* What SendMsg would write does not change with the other variables.
LEMMA SentKept ==
  ASSUME UNCHANGED <<field, sentBy>>, NEW d
  PROVE  /\ sentBy'[d] = sentBy[d]
         /\ [sentBy[d] EXCEPT !.metadata = WithField(@)]'
              = [sentBy[d] EXCEPT !.metadata = WithField(@)]
BY DEF WithField

LEMMA TypeStep == IInv /\ [Next]_vars => IInv'
<1> SUFFICES ASSUME IInv, [Next]_vars PROVE IInv'
  OBVIOUS
<1> USE DEF IInv
<1> DEFINE WatchType == [open : BOOLEAN, names : Names \union {<<>>}, key : String]
<1>0. NoWatch \in WatchType
  BY DEF NoWatch, String
<1>1. ASSUME UNCHANGED vars PROVE IInv'
  <2>1. UNCHANGED <<config, field, sentBy, typeURL, panic, node, watch, stream>>
    BY <1>1 DEF vars, confVars
  <2>2. \A d \in Client : node'[d] \in {sentBy'[d], [sentBy[d] EXCEPT !.metadata = WithField(@)]'}
    BY <2>1, SentKept DEF TypeOK
  <2> QED BY <2>1, <2>2 DEF TypeOK
<1>2. ASSUME NEW c \in Client, CreateWatch(c) PROVE IInv'
  <2>1. PICK names \in Names, fresh \in BOOLEAN :
          LET n == IF fresh THEN sentBy[c] ELSE node[c]
              key == GetKey(config, Request(n, typeURL[c], names))
              old == {IF fresh /\ s.client = c THEN [s EXCEPT !.client = NoClient] ELSE s :
                         s \in stream}
          IN /\ node' = [node EXCEPT ![c] = n]
             /\ watch' = [watch EXCEPT ![c] = [open |-> TRUE, names |-> names, key |-> key.str]]
             /\ stream' = IF \E s \in stream : s.key = key.str THEN old
                          ELSE old \union {[key |-> key.str, client |-> c]}
    BY <1>2 DEF CreateWatch
  <2>2. UNCHANGED <<config, field, sentBy, typeURL, panic>>
    BY <1>2 DEF CreateWatch, confVars
  <2> DEFINE n == IF fresh THEN sentBy[c] ELSE node[c]
             key == GetKey(config, Request(n, typeURL[c], names))
  <2>3. key.str \in String
    <3>1. IsRequest(Request(n, typeURL[c], names))
      BY RequestTypes
    <3>2. key \in Fragment
      BY <3>1, KeyType DEF TypeOK
    <3> QED BY <3>2 DEF Fragment
  <2> HIDE DEF key
  <2>4. stream' \subseteq [key : String, client : Client \union {NoClient}]
    <3> DEFINE old == {IF fresh /\ s.client = c THEN [s EXCEPT !.client = NoClient] ELSE s :
                          s \in stream}
    <3>1. stream' \subseteq old \union {[key |-> key.str, client |-> c]}
      BY <2>1 DEF key
    <3>2. old \subseteq [key : String, client : Client \union {NoClient}]
      BY DEF TypeOK
    <3> QED BY <2>3, <3>1, <3>2
  <2>5. watch' \in [Client -> WatchType]
    <3>1. watch' = [watch EXCEPT ![c] = [open |-> TRUE, names |-> names, key |-> key.str]]
      BY <2>1 DEF key
    <3> QED BY <2>3, <3>1 DEF TypeOK
  <2>6. node' = [node EXCEPT ![c] = n]
    BY <2>1
  <2>7. /\ node' = [d \in Client |-> node'[d]]
        /\ \A d \in Client : node'[d] \in {node[d], sentBy[d]}
    BY <2>6
  <2>8. \A d \in Client : node'[d] \in {sentBy'[d], [sentBy[d] EXCEPT !.metadata = WithField(@)]'}
    BY <2>2, <2>7, SentKept DEF TypeOK
  <2> QED BY <2>2, <2>4, <2>5, <2>7, <2>8 DEF TypeOK
<1>3. ASSUME NEW c \in Client, Cancel(c) PROVE IInv'
  <2>1. UNCHANGED <<config, field, sentBy, typeURL, panic, node, stream>>
    BY <1>3 DEF Cancel, confVars
  <2>2. watch' \in [Client -> WatchType]
    BY <1>0, <1>3 DEF Cancel, TypeOK
  <2> QED BY <2>1, <2>2 DEF TypeOK, WithField
<1>4. ASSUME NEW s \in stream, SendMsg(s) PROVE IInv'
  <2>1. UNCHANGED <<config, field, sentBy, typeURL, watch, stream>> /\ s.client \in Client
    BY <1>4 DEF SendMsg, confVars, TypeOK
  <2>2. panic' \in BOOLEAN
    BY <1>4 DEF SendMsg, TypeOK
  <2>3. CASE UNCHANGED node
    BY <2>1, <2>2, <2>3 DEF TypeOK, WithField
  <2>4. CASE node' = [node EXCEPT ![s.client].metadata = WithField(node[s.client].metadata)]
    <3> DEFINE c == s.client
    <3>1. /\ node' = [d \in Client |-> node'[d]]
          /\ \A d \in Client \ {c} : node'[d] = node[d]
          /\ node'[c] = [node[c] EXCEPT !.metadata = WithField(@)]
      BY <2>1, <2>4
    <3>2. node'[c] = [sentBy[c] EXCEPT !.metadata = WithField(@)]
      BY <2>1, <3>1, SendMsgNode
    <3>3. \A d \in Client :
            node'[d] \in {sentBy'[d], [sentBy[d] EXCEPT !.metadata = WithField(@)]'}
      <4>1. node'[c] \in {sentBy'[c], [sentBy[c] EXCEPT !.metadata = WithField(@)]'}
        BY <2>1, <3>2, SentKept
      <4>2. \A d \in Client \ {c} :
              node'[d] \in {sentBy'[d], [sentBy[d] EXCEPT !.metadata = WithField(@)]'}
        BY <2>1, <3>1, SentKept DEF TypeOK
      <4> QED BY <4>1, <4>2
    <3> QED BY <2>1, <2>2, <3>1, <3>3 DEF TypeOK
  <2> QED BY <1>4, <2>3, <2>4 DEF SendMsg
<1>5. ASSUME NEW keys, Evicted(keys) PROVE IInv'
  <2>1. UNCHANGED <<config, field, sentBy, typeURL, panic, node>> /\ stream' \subseteq stream
    BY <1>5 DEF Evicted, confVars
  <2>2. watch' \in [Client -> WatchType]
    BY <1>0, <1>5 DEF Evicted, TypeOK
  <2> QED BY <2>1, <2>2 DEF TypeOK, WithField
<1> QED BY <1>1, <1>2, <1>3, <1>4, <1>5 DEF Next, Evict, ClearAll

\* The variables keep their types, and a node in memory is the one the client
\* has sent, but for the field that SendMsg writes.
THEOREM Types == Spec => []TypeOK
<1>1. Spec => []IInv
  BY InitTypes, TypeStep, PTL DEF Spec
<1>2. IInv => TypeOK
  BY DEF IInv
<1> QED BY <1>1, <1>2, PTL

\* MatchesAsWritten: isMatch, with its early returns, is the logic of and, or
\* and not, at every depth.
THEOREM LogicIsKept == Spec => []MatchesAsWritten
<1>1. TypeOK => MatchesAsWritten
  <2> SUFFICES ASSUME TypeOK, NEW c \in Client, NEW rule \in ToSet(RulesOf(config)),
                      NEW req, req = Request(node[c], typeURL[c], <<>>)
               PROVE  LET out == isMatch(rule.match, req)
                          failing == {p \in Inside(rule.match) :
                                         IsLeaf(p) /\ isLeafMatch(p, req) \in {"error", "invalid"}}
                      IN IF out \in {"error", "invalid"} THEN failing # {}
                         ELSE \A failed \in BOOLEAN : Holds(rule.match, req, failed) <=> out = "true"
    BY DEF MatchesAsWritten
  <2>1. rule.match \in MatchPredicate
    BY RulesType DEF TypeOK, Rules
  <2>2. Logical(rule.match, req)
    BY <2>1, AllLogical
  <2> QED BY <2>2 DEF Logical, Failing, Errors
<1> QED BY <1>1, Types, PTL

-----------------------------------------------------------------------------
(***************************************************************************)
(* KeysAgree.                                                              *)
(***************************************************************************)
Answers(c, req) == \A rule \in ToSet(RulesOf(c)) : isMatch(rule.match, req) \notin Errors

\* Requests that every rule matches alike and gives the same result for have
\* the same fragments.
LEMMA SameFragments ==
  ASSUME NEW c, NEW a, NEW b,
         \A rule \in ToSet(RulesOf(c)) : /\ isMatch(rule.match, b) = isMatch(rule.match, a)
                                         /\ getResult(rule.result, b) = getResult(rule.result, a)
  PROVE  Fragments(c, b) = Fragments(c, a)
<1> DEFINE rules == RulesOf(c)
           frags(req) == [i \in DOMAIN rules |-> IF isMatch(rules[i].match, req) = "true"
                                                 THEN <<getResult(rules[i].result, req)>> ELSE <<>>]
<1>1. \A i \in DOMAIN rules : rules[i] \in ToSet(rules)
  BY DEF ToSet
<1>2. frags(a) = frags(b)
  BY <1>1
<1>3. Fragments(c, a) = FlattenSeq(frags(a)) /\ Fragments(c, b) = FlattenSeq(frags(b))
  BY DEF Fragments
<1> HIDE DEF frags
<1> QED BY <1>2, <1>3

\* When there is a key, no rule failed, and it is the join of the fragments.
LEMMA KeyOk ==
  ASSUME NEW c, NEW req, GetKey(c, req).ok
  PROVE  /\ Answers(c, req)
         /\ GetKey(c, req) = JoinAll(Fragments(c, req), Separator)
         /\ Fragments(c, req) # <<>>
         /\ req.typeURL # <<>> /\ ~(isEDS(req) /\ req.names = <<>>)
<1>1. ~Fail.ok
  BY DEF Fail
<1> HIDE DEF Fail
<1>2. \A i \in DOMAIN RulesOf(c) : isMatch(RulesOf(c)[i].match, req) \notin Errors
  BY <1>1 DEF GetKey, Errors
<1>3. Answers(c, req)
  BY <1>2 DEF Answers, ToSet
<1> QED BY <1>1, <1>3 DEF GetKey

\* The key of a request of which no rule fails, and which has resources if it
\* needs them, depends on its fragments.
LEMMA KeyOfFragments ==
  ASSUME NEW c, NEW a, NEW b, GetKey(c, a).ok, Answers(c, b),
         b.typeURL = a.typeURL, isEDS(b) => b.names # <<>>,
         Fragments(c, b) = Fragments(c, a)
  PROVE  GetKey(c, b) = GetKey(c, a)
<1>1. \A i \in DOMAIN RulesOf(c) : isMatch(RulesOf(c)[i].match, b) \notin Errors
  BY DEF Answers, ToSet
<1> QED BY <1>1, KeyOk DEF GetKey, Errors

LEMMA WalkWritten ==
  ASSUME NEW metadata, NEW path, path = <<>> \/ path[1] # OwnField
  PROVE  Walk(WithField(metadata), path) = Walk(metadata, path)
<1>1. CASE path = <<>>
  BY <1>1 DEF Walk
<1>2. CASE path # <<>>
  <2>1. Field(WithField(metadata), path[1]) = Field(metadata, path[1])
    BY <1>2 DEF Field, WithField, StructOf
  <2> QED BY <1>2, <2>1 DEF Walk
<1> QED BY <1>1, <1>2

\* What SendMsg writes is not seen by a predicate that does not read it, unless
\* it had failed for want of any metadata.
LEMMA WrittenLeaf ==
  ASSUME TypeOK, NEW c \in Client, NEW names, NEW other, NEW q \in MatchPredicate, IsLeaf(q),
         ~(q.kind = "metadata" /\ q.path[1] = OwnField)
  PROVE  MatchLeafSame(q, Request(sentBy[c], typeURL[c], names),
                          Request(node[c], typeURL[c], other))
<1> DEFINE n == sentBy[c]
           w == [n EXCEPT !.metadata = WithField(n.metadata)]
<1>1. "metadata" \in DOMAIN n
  BY MapperAssumption DEF TypeOK
<1>2. w.metadata = WithField(n.metadata) /\ w.id = n.id /\ w.cluster = n.cluster /\ w.locality = n.locality
  BY <1>1
<1>3. node[c] = n \/ node[c] = w
  BY DEF TypeOK
<1> HIDE DEF n, w
<1>4. /\ node[c].id = n.id /\ node[c].cluster = n.cluster /\ node[c].locality = n.locality
      /\ node[c].metadata = n.metadata \/ node[c].metadata = WithField(n.metadata)
  BY <1>2, <1>3
<1>5. q.kind \in MatchKinds
  BY KeyerAssumption
<1>6. CASE q.kind # "metadata"
  <2>1. isLeafMatch(q, Request(node[c], typeURL[c], other))
          = isLeafMatch(q, Request(n, typeURL[c], names))
    BY <1>4, <1>5, <1>6 DEF isLeafMatch, Request, IsLeaf, MatchKinds
  <2> QED BY <2>1 DEF MatchLeafSame, n
<1>7. CASE q.kind = "metadata"
  <2>1. \A t, x, m : isLeafMatch(q, Request(m, t, x)) = compareNodeMetadata(q, m.metadata)
    BY <1>7 DEF isLeafMatch, Request
  <2>2. CASE n.metadata.isNil
    BY <2>1, <2>2 DEF MatchLeafSame, compareNodeMetadata, Errors, n
  <2>3. CASE ~n.metadata.isNil
    <3>1. ~WithField(n.metadata).isNil
      BY DEF WithField, StructOf
    <3>2. Walk(WithField(n.metadata), q.path) = Walk(n.metadata, q.path)
      BY <1>7, WalkWritten
    <3>3. compareNodeMetadata(q, WithField(n.metadata)) = compareNodeMetadata(q, n.metadata)
      BY <2>3, <3>1, <3>2 DEF compareNodeMetadata
    <3> QED BY <1>4, <2>1, <3>3 DEF MatchLeafSame, n
  <2> QED BY <2>2, <2>3
<1> QED BY <1>6, <1>7

LEMMA WrittenResultLeaf ==
  ASSUME TypeOK, NEW c \in Client, NEW names, NEW q \in ResultPredicate,
         ~(q.kind = "metadata" /\ q.path[1] = OwnField)
  PROVE  ResultLeafSame(q, Request(sentBy[c], typeURL[c], names),
                           Request(node[c], typeURL[c], names))
<1> DEFINE n == sentBy[c]
           w == [n EXCEPT !.metadata = WithField(n.metadata)]
<1>1. "metadata" \in DOMAIN n
  BY MapperAssumption DEF TypeOK
<1>2. w.metadata = WithField(n.metadata) /\ w.id = n.id /\ w.cluster = n.cluster /\ w.locality = n.locality
  BY <1>1
<1>3. node[c] = n \/ node[c] = w
  BY DEF TypeOK
<1> HIDE DEF n, w
<1>4. /\ node[c].id = n.id /\ node[c].cluster = n.cluster /\ node[c].locality = n.locality
      /\ node[c].metadata = n.metadata \/ node[c].metadata = WithField(n.metadata)
  BY <1>2, <1>3
<1>5. q.kind \in ResultKinds
  BY KeyerAssumption
<1>6. CASE q.kind # "metadata"
  BY <1>4, <1>5, <1>6 DEF ResultLeafSame, ResultOf, Request, ResultKinds, n
<1>7. CASE q.kind = "metadata"
  <2>1. Walk(WithField(n.metadata), q.path) = Walk(n.metadata, q.path)
    BY <1>7, WalkWritten
  <2> QED BY <1>4, <1>7, <2>1 DEF ResultLeafSame, ResultOf, Request,
                                  getFragmentFromNodeMetadataAction, n
<1> QED BY <1>6, <1>7

LEMMA InRules ==
  ASSUME TypeOK, NEW rule \in ToSet(RulesOf(config))
  PROVE  /\ rule.match \in MatchPredicate /\ rule.result \in ResultPredicate
         /\ Inside(rule.match) \subseteq Matches /\ Inside(rule.result) \subseteq Results
         /\ Inside(rule.match) \subseteq MatchPredicate
         /\ Inside(rule.result) \subseteq ResultPredicate
<1>1. rule.match \in MatchPredicate /\ rule.result \in ResultPredicate
  BY RulesType DEF TypeOK, Rules
<1> QED BY <1>1, InsideSorts DEF Matches, Results

\* The key of a request that SendMsg has written into is the key it had before.
LEMMA WrittenKey ==
  ASSUME TypeOK, NEW c \in Client, NEW names \in Names \union {<<>>}, ~ReadsOwnField,
         Answers(config, Request(sentBy[c], typeURL[c], names)),
         GetKey(config, Request(sentBy[c], typeURL[c], names)).ok
           \/ GetKey(config, Request(node[c], typeURL[c], names)).ok
  PROVE  GetKey(config, Request(node[c], typeURL[c], names))
           = GetKey(config, Request(sentBy[c], typeURL[c], names))
<1> DEFINE a == Request(sentBy[c], typeURL[c], names)
           b == Request(node[c], typeURL[c], names)
<1>1. IsRequest(a) /\ IsRequest(b)
  BY RequestTypes
<1>2. b.typeURL = a.typeURL /\ b.names = a.names
  BY DEF Request
<1>3. ASSUME NEW rule \in ToSet(RulesOf(config))
      PROVE  /\ isMatch(rule.match, b) = isMatch(rule.match, a)
             /\ getResult(rule.result, b) = getResult(rule.result, a)
  <2>1. \A q \in Inside(rule.match) : IsLeaf(q) => MatchLeafSame(q, a, b)
    BY InRules, WrittenLeaf DEF ReadsOwnField
  <2>2. \A q \in Inside(rule.result) : ResultLeafSame(q, a, b)
    BY InRules, WrittenResultLeaf DEF ReadsOwnField
  <2> HIDE DEF a, b
  <2>3. MatchSame(rule.match, a, b)
    BY <2>1, InRules, SameMatches
  <2>4. getResult(rule.result, b) = getResult(rule.result, a)
    BY <1>1, <2>2, InRules, SameResults
  <2>5. isMatch(rule.match, a) \notin Errors
    BY DEF Answers, a
  <2> QED BY <2>3, <2>4, <2>5 DEF MatchSame
<1>4. Answers(config, a)
  OBVIOUS
<1> HIDE DEF a, b
<1>5. Answers(config, b)
  BY <1>3, <1>4 DEF Answers
<1>6. Fragments(config, b) = Fragments(config, a)
  BY <1>3, SameFragments
<1>7. GetKey(config, a).ok \/ GetKey(config, b).ok
  BY DEF a, b
<1>8. CASE GetKey(config, a).ok
  <2>1. isEDS(b) => b.names # <<>>
    BY <1>2, <1>8, KeyOk DEF isEDS
  <2>2. GetKey(config, b) = GetKey(config, a)
    BY <1>2, <1>5, <1>6, <1>8, <2>1, KeyOfFragments
  <2> QED BY <2>2 DEF a, b
<1>9. CASE GetKey(config, b).ok
  <2>1. isEDS(a) => a.names # <<>>
    BY <1>2, <1>9, KeyOk DEF isEDS
  <2>2. GetKey(config, a) = GetKey(config, b)
    BY <1>2, <1>4, <1>6, <1>9, <2>1, KeyOfFragments
  <2> QED BY <2>2 DEF a, b
<1> QED BY <1>7, <1>8, <1>9

\* The names of a request play no part in its matches.
LEMMA AnswersForNames ==
  ASSUME TypeOK, NEW n, NEW t, NEW names, NEW other, Answers(config, Request(n, t, names))
  PROVE  Answers(config, Request(n, t, other))
<1> DEFINE a == Request(n, t, names)
           b == Request(n, t, other)
<1> SUFFICES ASSUME NEW rule \in ToSet(RulesOf(config)) PROVE isMatch(rule.match, b) \notin Errors
  BY DEF Answers
<1>1. ASSUME NEW q \in MatchPredicate, IsLeaf(q) PROVE MatchLeafSame(q, a, b)
  <2>1. q.kind \in MatchKinds
    BY KeyerAssumption
  <2> QED BY <1>1, <2>1 DEF MatchLeafSame, isLeafMatch, Request, IsLeaf, MatchKinds
<1>2. isMatch(rule.match, a) \notin Errors
  BY DEF Answers
<1> HIDE DEF a, b
<1>3. MatchSame(rule.match, a, b)
  BY <1>1, InRules, SameMatches
<1> QED BY <1>2, <1>3 DEF MatchSame

\* Unless the rules read what SendMsg writes: the nodes it writes into, or may
\* write into, belong to requests that no rule fails on, and the key of a watch
\* is the key of the request as the client has sent it.
SentAnswers(c) == Answers(config, Request(sentBy[c], typeURL[c], <<>>))
Exposed(c) == Open(c) \/ node[c] # sentBy[c] \/ \E s \in stream : s.client = c
KeyIsOfSent(c) == Open(c) => GetKey(config, SentBy(c)) = Ok(watch[c].key)
KeyInv == ~ReadsOwnField => \A c \in Client : (Exposed(c) => SentAnswers(c)) /\ KeyIsOfSent(c)

LEMMA InitKeys == Init => KeyInv
<1> SUFFICES ASSUME Init, NEW c \in Client PROVE ~Exposed(c) /\ ~Open(c)
  BY DEF KeyInv, KeyIsOfSent
<1> QED BY DEF Init, Exposed, Open, NoWatch

\* What a step that leaves the clients' words alone has to keep.
LEMMA KeepsKeys ==
  ASSUME KeyInv, UNCHANGED confVars, NEW c \in Client, ~ReadsOwnField,
         Exposed(c)' => Exposed(c),
         Open(c)' => Open(c) /\ watch'[c] = watch[c]
  PROVE  (Exposed(c) => SentAnswers(c))' /\ KeyIsOfSent(c)'
<1>1. SentAnswers(c)' <=> SentAnswers(c)
  BY DEF SentAnswers, confVars
<1>2. Open(c)' => SentBy(c)' = SentBy(c) /\ GetKey(config', SentBy(c)) = GetKey(config, SentBy(c))
  BY DEF SentBy, confVars
<1>3. KeyIsOfSent(c)'
  BY <1>2 DEF KeyInv, KeyIsOfSent, confVars
<1> QED BY <1>1, <1>3 DEF KeyInv

LEMMA CreateWatchKeys ==
  ASSUME IInv, IInv', KeyInv, ~ReadsOwnField, NEW c \in Client, CreateWatch(c), NEW d \in Client
  PROVE  (Exposed(d) => SentAnswers(d))' /\ KeyIsOfSent(d)'
<1>1. PICK names \in Names, fresh \in BOOLEAN :
        LET n == IF fresh THEN sentBy[c] ELSE node[c]
            key == GetKey(config, Request(n, typeURL[c], names))
            old == {IF fresh /\ s.client = c THEN [s EXCEPT !.client = NoClient] ELSE s :
                       s \in stream}
        IN /\ key.ok
           /\ node' = [node EXCEPT ![c] = n]
           /\ watch' = [watch EXCEPT ![c] = [open |-> TRUE, names |-> names, key |-> key.str]]
           /\ stream' = IF \E s \in stream : s.key = key.str THEN old
                        ELSE old \union {[key |-> key.str, client |-> c]}
  BY DEF CreateWatch
<1> DEFINE n == IF fresh THEN sentBy[c] ELSE node[c]
           key == GetKey(config, Request(n, typeURL[c], names))
<1>2. UNCHANGED confVars
  BY DEF CreateWatch
<1>3. CASE d # c
  <2>1. watch'[d] = watch[d] /\ node'[d] = node[d]
    BY <1>1, <1>3 DEF IInv, TypeOK
  <2>2. \A s \in stream' : s.client = d => \E r \in stream : r.client = d
    BY <1>1, <1>3, MapperAssumption DEF IInv, TypeOK
  <2>3. Exposed(d)' => Exposed(d)
    BY <1>2, <2>1, <2>2 DEF Exposed, Open, confVars
  <2> QED BY <1>2, <2>1, <2>3, KeepsKeys DEF Open
<1>4. CASE d = c
  <2>1. key.ok /\ key \in Fragment
    <3>1. IsRequest(Request(n, typeURL[c], names))
      BY RequestTypes DEF IInv
    <3> QED BY <1>1, <3>1, KeyType DEF IInv, TypeOK
  <2>2. key = Ok(key.str)
    BY <2>1 DEF Fragment, Ok
  <2>3. SentAnswers(c) /\ Answers(config, Request(sentBy[c], typeURL[c], names))
    <3>1. CASE n = sentBy[c]
      <4>1. Answers(config, Request(sentBy[c], typeURL[c], names))
        BY <2>1, <3>1, KeyOk
      <4> QED BY <4>1, AnswersForNames DEF SentAnswers, IInv
    <3>2. CASE n # sentBy[c]
      <4>1. SentAnswers(c)
        BY <3>2 DEF KeyInv, Exposed
      <4> QED BY <4>1, AnswersForNames DEF SentAnswers, IInv
    <3> QED BY <3>1, <3>2
  <2>4. GetKey(config, Request(sentBy[c], typeURL[c], names)) = key
    <3>1. CASE n = sentBy[c]
      BY <3>1
    <3>2. CASE n # sentBy[c]
      <4>1. n = node[c]
        BY <3>2
      <4> QED BY <2>1, <2>3, <4>1, WrittenKey DEF IInv
    <3> QED BY <3>1, <3>2
  <2>5. watch'[c] = [open |-> TRUE, names |-> names, key |-> key.str]
    BY <1>1 DEF IInv, TypeOK
  <2> HIDE DEF key
  <2>6. SentBy(c)' = Request(sentBy[c], typeURL[c], names)
    BY <1>2, <2>5 DEF SentBy, confVars
  <2>7. KeyIsOfSent(c)'
    BY <1>2, <2>2, <2>4, <2>5, <2>6 DEF KeyIsOfSent, confVars
  <2>8. SentAnswers(c)'
    BY <1>2, <2>3 DEF SentAnswers, confVars
  <2> QED BY <1>4, <2>7, <2>8
<1> QED BY <1>3, <1>4

LEMMA KeyStep == IInv /\ IInv' /\ KeyInv /\ [Next]_vars => KeyInv'
<1> SUFFICES ASSUME IInv, IInv', KeyInv, [Next]_vars PROVE KeyInv'
  OBVIOUS
<1>1. UNCHANGED confVars
  BY DEF Next, vars, confVars, CreateWatch, Cancel, SendMsg, Evict, ClearAll, Evicted
<1>2. ReadsOwnField' <=> ReadsOwnField
  BY <1>1 DEF confVars, ReadsOwnField, Matches, Results
<1> SUFFICES ASSUME ~ReadsOwnField, NEW d \in Client
             PROVE  (Exposed(d) => SentAnswers(d))' /\ KeyIsOfSent(d)'
  BY <1>2 DEF KeyInv
<1>3. CASE UNCHANGED vars
  <2>1. (Exposed(d)' => Exposed(d)) /\ watch' = watch
    BY <1>3 DEF vars, confVars, Exposed, Open
  <2> QED BY <1>1, <2>1, KeepsKeys DEF Open
<1>4. ASSUME NEW c \in Client, CreateWatch(c)
      PROVE  (Exposed(d) => SentAnswers(d))' /\ KeyIsOfSent(d)'
  BY <1>4, CreateWatchKeys
<1>5. ASSUME NEW c \in Client, Cancel(c)
      PROVE  (Exposed(d) => SentAnswers(d))' /\ KeyIsOfSent(d)'
  <2>1. Open(d)' => watch'[d] = watch[d]
    BY <1>5 DEF Cancel, IInv, TypeOK, Open, NoWatch
  <2>2. (Open(d)' => Open(d)) /\ (Exposed(d)' => Exposed(d))
    BY <1>5, <2>1 DEF Cancel, Open, Exposed, confVars
  <2> QED BY <1>1, <2>1, <2>2, KeepsKeys
<1>6. ASSUME NEW s \in stream, SendMsg(s)
      PROVE  (Exposed(d) => SentAnswers(d))' /\ KeyIsOfSent(d)'
  <2>1. UNCHANGED <<sentBy, watch, stream>> /\ (d # s.client => node'[d] = node[d])
    BY <1>6 DEF SendMsg, confVars, IInv, TypeOK
  <2>2. Exposed(d)' => Exposed(d)
    BY <2>1 DEF Exposed, Open
  <2> QED BY <1>1, <2>1, <2>2, KeepsKeys DEF Open
<1>7. ASSUME NEW keys, Evicted(keys)
      PROVE  (Exposed(d) => SentAnswers(d))' /\ KeyIsOfSent(d)'
  <2>1. UNCHANGED <<sentBy, node>> /\ stream' \subseteq stream
    BY <1>7 DEF Evicted, confVars
  <2>2. Open(d)' => watch'[d] = watch[d]
    BY <1>7 DEF Evicted, Open, NoWatch
  <2>3. (Open(d)' => Open(d)) /\ (Exposed(d)' => Exposed(d))
    BY <2>1, <2>2 DEF Open, Exposed
  <2> QED BY <1>1, <2>2, <2>3, KeepsKeys
<1> QED BY <1>3, <1>4, <1>5, <1>6, <1>7 DEF Next, Evict, ClearAll

LEMMA Keys == Spec => [](IInv /\ KeyInv)
<1>1. Init => IInv /\ KeyInv
  BY InitTypes, InitKeys
<1>2. (IInv /\ KeyInv) /\ [Next]_vars => (IInv /\ KeyInv)'
  BY TypeStep, KeyStep
<1> QED BY <1>1, <1>2, PTL DEF Spec

\* The key of an open watch, computed again.
LEMMA KeyAgain ==
  ASSUME IInv, KeyInv, ~ReadsOwnField, NEW c \in Client, Open(c)
  PROVE  GetKey(config, RequestOf(c)) = Ok(watch[c].key)
<1>1. SentAnswers(c) /\ GetKey(config, SentBy(c)) = Ok(watch[c].key)
  BY DEF KeyInv, Exposed, KeyIsOfSent
<1>2. GetKey(config, SentBy(c)).ok
  BY <1>1 DEF Ok
<1>3. watch[c].names \in Names \union {<<>>}
  BY DEF IInv, TypeOK
<1>4. Answers(config, SentBy(c))
  BY <1>2, KeyOk
<1> QED BY <1>1, <1>2, <1>3, <1>4, WrittenKey DEF SentBy, RequestOf, IInv

\* KeysAgree: the admin's wildcard requests find the open watches under the
\* keys they were created for, whatever the stream has written into them.
THEOREM AdminFindsTheKeys == Spec => []KeysAgree
<1>1. IInv /\ KeyInv => KeysAgree
  <2> SUFFICES ASSUME IInv, KeyInv, ~ReadsOwnField
               PROVE  getAggregatedKeys
                        = [ok |-> TRUE, keys |-> {watch[c].key : c \in {d \in Client : Open(d)}}]
    BY DEF KeysAgree
  <2> DEFINE open == {d \in Client : Open(d)}
             keys == {GetKey(config, RequestOf(c)) : c \in open}
  <2>1. \A c \in open : GetKey(config, RequestOf(c)) = Ok(watch[c].key)
    BY KeyAgain
  <2>2. keys = {Ok(watch[c].key) : c \in open}
    BY <2>1
  <2>3. \A k : Ok(k) # Fail /\ Ok(k).str = k
    BY DEF Ok, Fail
  <2>4. Fail \notin keys
    BY <2>2, <2>3
  <2>5. {k.str : k \in keys} = {watch[c].key : c \in open}
    <3>1. ASSUME NEW k \in keys PROVE k.str \in {watch[c].key : c \in open}
      BY <2>2, <2>3
    <3>2. ASSUME NEW c \in open PROVE watch[c].key \in {k.str : k \in keys}
      <4>1. Ok(watch[c].key) \in keys /\ Ok(watch[c].key).str = watch[c].key
        BY <2>2, <2>3
      <4> HIDE DEF keys, open
      <4> QED BY <4>1
    <3> HIDE DEF keys, open
    <3> QED BY <3>1, <3>2
  <2> QED BY <2>4, <2>5 DEF getAggregatedKeys
<1> QED BY <1>1, Keys, PTL

-----------------------------------------------------------------------------
(***************************************************************************)
(* AggregatesAlike.                                                        *)
(***************************************************************************)
LEMMA AlikeLeaf ==
  ASSUME NEW a, NEW b, Same(a, b), NEW q \in MatchPredicate, q \in Matches, IsLeaf(q)
  PROVE  MatchLeafSame(q, a, b)
<1>0. q.kind \in MatchKinds /\ SameFor(q, a, b) /\ a.typeURL = b.typeURL
  BY KeyerAssumption DEF Same
<1>1. CASE q.kind \in {"any", "type", "node", "unset", "nil"}
  BY <1>0, <1>1 DEF MatchLeafSame, isLeafMatch
<1>2. CASE q.kind \in {"id", "cluster"}
  BY <1>0, <1>2 DEF MatchLeafSame, isLeafMatch, SameFor
<1>3. CASE q.kind = "locality"
  <2>1. \A part \in DOMAIN q.match : a.locality[part] = b.locality[part]
    BY <1>3 DEF Same, SameIn
  <2>2. {compareString(q.match[part], a.locality[part]) : part \in DOMAIN q.match}
          = {compareString(q.match[part], b.locality[part]) : part \in DOMAIN q.match}
    BY <2>1
  <2>3. compareLocality(q.match, a.locality) = compareLocality(q.match, b.locality)
    BY <2>2 DEF compareLocality
  <2> QED BY <1>3, <2>3 DEF MatchLeafSame, isLeafMatch
<1>4. CASE q.kind = "metadata"
  <2>1. a.metadata.isNil = b.metadata.isNil /\ Walk(a.metadata, q.path) = Walk(b.metadata, q.path)
    BY <1>0, <1>4 DEF SameFor
  <2>2. compareNodeMetadata(q, a.metadata) = compareNodeMetadata(q, b.metadata)
    BY <2>1 DEF compareNodeMetadata
  <2> QED BY <1>4, <2>2 DEF MatchLeafSame, isLeafMatch
<1> QED BY <1>0, <1>1, <1>2, <1>3, <1>4 DEF MatchKinds, IsLeaf

LEMMA AlikeResultLeaf ==
  ASSUME NEW a, NEW b, Same(a, b), NEW q \in ResultPredicate, q \in Results, q.kind # "andResult"
  PROVE  ResultLeafSame(q, a, b)
<1>0. q.kind \in ResultKinds /\ SameFor(q, a, b)
  BY KeyerAssumption DEF Same
<1>1. CASE q.kind \in {"string", "node", "unset", "nil"}
  BY <1>1 DEF ResultLeafSame, ResultOf
<1>2. CASE q.kind \in {"id", "cluster"}
  BY <1>0, <1>2 DEF ResultLeafSame, ResultOf, SameFor
<1>3. CASE q.kind = "locality"
  <2> DEFINE of(req, part) ==
                 IF part \notin DOMAIN q.actions THEN <<>>
                 ELSE <<getResultFragmentFromAction(req.locality[part], q.actions[part])>>
             outs(req) == of(req, "region") \o of(req, "zone") \o of(req, "subzone")
  <2>1. \A part \in DOMAIN q.actions : a.locality[part] = b.locality[part]
    BY <1>3 DEF Same, SameIn
  <2>2. \A part : of(a, part) = of(b, part)
    BY <2>1
  <2>3. \A req : getFragmentFromLocalityAction(req.locality, q.actions)
                   = IF outs(req) = <<>> THEN Fail ELSE JoinAll(outs(req), <<"|">>)
    BY DEF getFragmentFromLocalityAction
  <2> HIDE DEF of
  <2>4. outs(a) = outs(b)
    BY <2>2
  <2> HIDE DEF outs
  <2>5. getFragmentFromLocalityAction(a.locality, q.actions)
          = getFragmentFromLocalityAction(b.locality, q.actions)
    BY <2>3, <2>4
  <2> QED BY <1>3, <2>5 DEF ResultLeafSame, ResultOf
<1>4. CASE q.kind = "metadata"
  <2>1. Walk(a.metadata, q.path) = Walk(b.metadata, q.path)
    BY <1>0, <1>4 DEF SameFor
  <2> QED BY <1>4, <2>1 DEF ResultLeafSame, ResultOf, getFragmentFromNodeMetadataAction
<1>5. CASE q.kind = "name"
  <2>1. Nth(a.names, q.element) = Nth(b.names, q.element)
    BY <1>0, <1>5 DEF SameFor
  <2> QED BY <1>5, <2>1 DEF ResultLeafSame, ResultOf, getResultFromResourceNamesPredicate
<1> QED BY <1>0, <1>1, <1>2, <1>3, <1>4, <1>5 DEF ResultKinds

\* AggregatesAlike: requests are aggregated by what the rules read of them and
\* by nothing else, whoever's request SendMsg has written into.
THEOREM OneKeyForTheSame == Spec => []AggregatesAlike
<1>1. IInv /\ KeyInv => AggregatesAlike
  <2> SUFFICES ASSUME IInv, KeyInv, NEW c \in Client, NEW d \in Client,
                      Open(c), Open(d), ~ReadsOwnField, Same(SentBy(c), SentBy(d))
               PROVE  watch[c].key = watch[d].key
    BY DEF AggregatesAlike
  <2> DEFINE a == SentBy(c)
             b == SentBy(d)
  <2>1. /\ GetKey(config, a) = Ok(watch[c].key) /\ GetKey(config, b) = Ok(watch[d].key)
        /\ IsRequest(a) /\ IsRequest(b)
    BY RequestTypes DEF KeyInv, KeyIsOfSent, SentBy, IInv, TypeOK
  <2> HIDE DEF a, b
  <2>2. GetKey(config, a).ok /\ GetKey(config, b).ok
    BY <2>1 DEF Ok
  <2>3. Answers(config, a)
    BY <2>2, KeyOk
  <2>4. ASSUME NEW rule \in ToSet(RulesOf(config))
        PROVE  /\ isMatch(rule.match, b) = isMatch(rule.match, a)
               /\ getResult(rule.result, b) = getResult(rule.result, a)
    <3>1. \A q \in Inside(rule.match) : IsLeaf(q) => MatchLeafSame(q, a, b)
      BY InRules, AlikeLeaf DEF IInv, a, b
    <3>2. \A q \in Inside(rule.result) : q.kind # "andResult" => ResultLeafSame(q, a, b)
      BY InRules, AlikeResultLeaf DEF IInv, a, b
    <3>3. MatchSame(rule.match, a, b)
      BY <3>1, InRules, SameMatches DEF IInv
    <3>4. getResult(rule.result, b) = getResult(rule.result, a)
      BY <2>1, <3>2, InRules, SameResults DEF IInv
    <3> QED BY <2>3, <3>3, <3>4 DEF MatchSame, Answers
  <2>5. Fragments(config, b) = Fragments(config, a)
    BY <2>4, SameFragments
  <2>6. GetKey(config, b) = GetKey(config, a)
    BY <2>2, <2>5, KeyOk
  <2> QED BY <2>1, <2>6 DEF Ok
<1> QED BY <1>1, Keys, PTL

-----------------------------------------------------------------------------
(***************************************************************************)
(* AcceptedIsUsable.                                                       *)
(***************************************************************************)
LEMMA ValidMatchOfType ==
  ASSUME NEW p \in MatchPredicate, NEW valid, \A q \in Members(p) : valid[q] \in BOOLEAN
  PROVE  ValidMatchOf(valid, p) \in BOOLEAN
<1>1. p.kind \in MatchKinds
  BY KeyerAssumption
<1>2. CASE p.kind \in {"and", "or"}
  BY <1>2 DEF ValidMatchOf, ValidMatchSet
<1>3. CASE p.kind = "not"
  BY <1>3, MatchMembers DEF ValidMatchOf
<1>4. CASE p.kind \in {"any", "type", "unset", "nil"}
  BY <1>4, KeyerAssumption DEF ValidMatchOf, ValidRequestTypeMatch
<1>5. CASE p.kind \in {"id", "cluster", "locality", "metadata", "node"}
  <2>1. ValidRequestNodeMatch(p) \in BOOLEAN
    BY <1>5 DEF ValidRequestNodeMatch, ValidStringMatch, ValidLocalityMatch,
                ValidNodeMetadataMatch
  <2> QED BY <1>5, <2>1 DEF ValidMatchOf
<1> QED BY <1>1, <1>2, <1>3, <1>4, <1>5 DEF MatchKinds

LEMMA ValidMatchOfMembers ==
  ASSUME NEW p \in MatchPredicate, NEW g, NEW h, \A q \in Members(p) : g[q] = h[q]
  PROVE  ValidMatchOf(g, p) = ValidMatchOf(h, p)
<1>1. CASE p.kind \in {"and", "or"}
  <2>1. \A i \in DOMAIN p.rules : g[p.rules[i]] = h[p.rules[i]]
    BY <1>1, MatchMembers
  <2>2. ValidMatchSet(p.rules, g) = ValidMatchSet(p.rules, h)
    BY <2>1 DEF ValidMatchSet
  <2> QED BY <1>1, <2>2 DEF ValidMatchOf
<1>2. CASE p.kind = "not"
  BY <1>2, MatchMembers DEF ValidMatchOf
<1>3. CASE p.kind \notin {"and", "or", "not"}
  BY <1>3 DEF ValidMatchOf
<1> QED BY <1>1, <1>2, <1>3

\* Validate, called on a match predicate, calls itself on what is inside.
LEMMA ValidMatchUnfolds ==
  ASSUME NEW p \in MatchPredicate
  PROVE  ValidMatchPredicate(p) = ValidMatchOf([q \in MatchPredicate |-> ValidMatchPredicate(q)], p)
<1> DEFINE F == [q \in MatchPredicate |->
                    [valid \in [MatchPredicate -> BOOLEAN] |-> ValidMatchOf(valid, q)]]
           H == [q \in MatchPredicate |-> Height[q]]
           M == CHOOSE m : m = [q \in MatchPredicate |-> ValidMatchOf(m, q)]
<1>1. F \in [MatchPredicate -> [[MatchPredicate -> BOOLEAN] -> BOOLEAN]]
  <2>1. ASSUME NEW q \in MatchPredicate, NEW valid \in [MatchPredicate -> BOOLEAN]
        PROVE  ValidMatchOf(valid, q) \in BOOLEAN
    BY ValidMatchOfType, MatchMembers
  <2> QED BY <2>1
<1>2. H \in [MatchPredicate -> Nat]
  BY KeyerAssumption DEF Predicate
<1>3. ASSUME NEW q \in MatchPredicate, NEW g \in [MatchPredicate -> BOOLEAN],
             NEW h \in [MatchPredicate -> BOOLEAN],
             \A r \in MatchPredicate : H[r] < H[q] => g[r] = h[r]
      PROVE  F[q][g] = F[q][h]
  <2>1. \A r \in Members(q) : r \in MatchPredicate /\ H[r] < H[q]
    BY MatchMembers, Lower DEF Predicate
  <2>2. \A r \in Members(q) : g[r] = h[r]
    BY <1>3, <2>1
  <2>3. ValidMatchOf(g, q) = ValidMatchOf(h, q)
    BY <2>2, ValidMatchOfMembers
  <2> QED BY <2>3
<1>4. PICK m : Solves(m, MatchPredicate, BOOLEAN, F)
  <2>1. Descends(MatchPredicate, H, BOOLEAN, F)
    BY <1>1, <1>2, <1>3 DEF Descends
  <2> HIDE DEF F, H
  <2> QED BY <2>1, Recursion
<1>5. m = [q \in MatchPredicate |-> ValidMatchOf(m, q)]
  BY <1>4 DEF Solves
<1>6. M = [q \in MatchPredicate |-> ValidMatchOf(M, q)]
  BY <1>5
<1>7. \A q : ValidMatchPredicate(q) = M[q]
  BY DEF ValidMatchPredicate
<1> HIDE DEF F, H, M
<1>8. \A q \in Members(p) : M[q] = [r \in MatchPredicate |-> ValidMatchPredicate(r)][q]
  BY <1>7, MatchMembers
<1>9. ValidMatchOf(M, p) = ValidMatchOf([q \in MatchPredicate |-> ValidMatchPredicate(q)], p)
  BY <1>8, ValidMatchOfMembers
<1> QED BY <1>6, <1>7, <1>9

\* What Validate accepts does not evaluate to the error for a missing oneof.
LEMMA ValidMatches ==
  ASSUME NEW req, NEW p \in MatchPredicate, ValidMatchPredicate(p)
  PROVE  isMatch(p, req) # "invalid"
<1> DEFINE T == {q \in MatchPredicate : ValidMatchPredicate(q) /\ isMatch(q, req) = "invalid"}
           valid == [q \in MatchPredicate |-> ValidMatchPredicate(q)]
<1> SUFFICES ASSUME T # {} PROVE FALSE
  OBVIOUS
<1>1. PICK q \in T : \A r \in Members(q) : r \notin T
  BY LowestPredicate DEF Predicate
<1>2. ValidMatchOf(valid, q)
  BY ValidMatchUnfolds
<1>3. CASE q.kind \in {"and", "or"}
  <2>1. \A i \in DOMAIN q.rules : q.rules[i] \in Members(q) /\ q.rules[i] \in MatchPredicate
    BY <1>3, MatchMembers
  <2>2. \A i \in DOMAIN q.rules : valid[q.rules[i]]
    BY <1>2, <1>3 DEF ValidMatchOf, ValidMatchSet
  <2>3. \A i \in DOMAIN q.rules : isMatch(q.rules[i], req) # "invalid"
    BY <1>1, <2>1, <2>2
  <2> QED BY <1>3, <2>3, MatchCases
<1>4. CASE q.kind = "not"
  <2>1. q.rule \in Members(q) /\ q.rule \in MatchPredicate
    BY <1>4, MatchMembers
  <2>2. valid[q.rule]
    BY <1>2, <1>4 DEF ValidMatchOf
  <2>3. isMatch(q.rule, req) # "invalid"
    BY <1>1, <2>1, <2>2
  <2> QED BY <1>4, <2>3, MatchCases DEF isNotMatch, Outcome
<1>5. CASE q.kind \notin {"and", "or", "not"}
  <2>1. isLeafMatch(q, req) = "invalid" /\ q.kind \in MatchKinds
    BY <1>5, MatchCases, KeyerAssumption
  <2>2. q.kind \in {"metadata", "node"}
    <3>1. \A m, locality : compareLocality(m, locality) # "invalid"
      BY DEF compareLocality, Outcome
    <3> QED BY <1>5, <2>1, <3>1, CompareString DEF isLeafMatch, MatchKinds, Outcome
  <2>3. ValidRequestNodeMatch(q)
    BY <1>2, <2>2 DEF ValidMatchOf
  <2>4. q.kind = "metadata" /\ q.on \in {"string", "bool"}
    BY <2>2, <2>3, KeyerAssumption DEF ValidRequestNodeMatch, ValidNodeMetadataMatch,
                                       ValidStructValueMatch
  <2>5. compareNodeMetadata(q, req.metadata) # "invalid"
    BY <2>4, CompareString DEF compareNodeMetadata, Outcome
  <2> QED BY <2>1, <2>4, <2>5 DEF isLeafMatch
<1> QED BY <1>3, <1>4, <1>5

LEMMA ValidResultOfType ==
  ASSUME NEW p \in ResultPredicate, NEW valid, \A q \in Members(p) : valid[q] \in BOOLEAN
  PROVE  ValidResultOf(valid, p) \in BOOLEAN
<1>1. p.kind \in ResultKinds
  BY KeyerAssumption
<1>2. ASSUME NEW action, IsAction(action) PROVE ValidResultAction(action) \in BOOLEAN
  BY <1>2 DEF IsAction, ValidResultAction, ValidRegexAction
<1>3. CASE p.kind = "andResult"
  BY <1>3 DEF ValidResultOf, ValidAndResult
<1>4. CASE p.kind \in {"string", "unset", "nil"}
  BY <1>4 DEF ValidResultOf
<1>5. CASE p.kind = "name"
  BY <1>5 DEF ValidResultOf, ValidResourceNamesFragment
<1>6. CASE p.kind \in {"id", "cluster", "locality", "metadata", "node"}
  <2>1. ValidRequestNodeFragment(p) \in BOOLEAN
    BY <1>2, <1>6, KeyerAssumption DEF ValidRequestNodeFragment, ValidLocalityResultAction,
                                       ValidNodeMetadataAction
  <2> QED BY <1>6, <2>1 DEF ValidResultOf
<1> QED BY <1>1, <1>3, <1>4, <1>5, <1>6 DEF ResultKinds

LEMMA ValidResultOfMembers ==
  ASSUME NEW p \in ResultPredicate, NEW g, NEW h, \A q \in Members(p) : g[q] = h[q]
  PROVE  ValidResultOf(g, p) = ValidResultOf(h, p)
<1>1. CASE p.kind = "andResult"
  <2>1. \A i \in DOMAIN p.results : g[p.results[i]] = h[p.results[i]]
    BY <1>1, ResultMembers
  <2>2. ValidAndResult(p.results, g) = ValidAndResult(p.results, h)
    BY <2>1 DEF ValidAndResult
  <2> QED BY <1>1, <2>2 DEF ValidResultOf
<1>2. CASE p.kind # "andResult"
  BY <1>2 DEF ValidResultOf
<1> QED BY <1>1, <1>2

LEMMA ValidResultUnfolds ==
  ASSUME NEW p \in ResultPredicate
  PROVE  ValidResultPredicate(p)
           = ValidResultOf([q \in ResultPredicate |-> ValidResultPredicate(q)], p)
<1> DEFINE F == [q \in ResultPredicate |->
                    [valid \in [ResultPredicate -> BOOLEAN] |-> ValidResultOf(valid, q)]]
           H == [q \in ResultPredicate |-> Height[q]]
           M == CHOOSE m : m = [q \in ResultPredicate |-> ValidResultOf(m, q)]
<1>1. F \in [ResultPredicate -> [[ResultPredicate -> BOOLEAN] -> BOOLEAN]]
  <2>1. ASSUME NEW q \in ResultPredicate, NEW valid \in [ResultPredicate -> BOOLEAN]
        PROVE  ValidResultOf(valid, q) \in BOOLEAN
    BY ValidResultOfType, ResultMembers
  <2> QED BY <2>1
<1>2. H \in [ResultPredicate -> Nat]
  BY KeyerAssumption DEF Predicate
<1>3. ASSUME NEW q \in ResultPredicate, NEW g \in [ResultPredicate -> BOOLEAN],
             NEW h \in [ResultPredicate -> BOOLEAN],
             \A r \in ResultPredicate : H[r] < H[q] => g[r] = h[r]
      PROVE  F[q][g] = F[q][h]
  <2>1. \A r \in Members(q) : r \in ResultPredicate /\ H[r] < H[q]
    BY ResultMembers, Lower DEF Predicate
  <2>2. \A r \in Members(q) : g[r] = h[r]
    BY <1>3, <2>1
  <2>3. ValidResultOf(g, q) = ValidResultOf(h, q)
    BY <2>2, ValidResultOfMembers
  <2> QED BY <2>3
<1>4. PICK m : Solves(m, ResultPredicate, BOOLEAN, F)
  <2>1. Descends(ResultPredicate, H, BOOLEAN, F)
    BY <1>1, <1>2, <1>3 DEF Descends
  <2> HIDE DEF F, H
  <2> QED BY <2>1, Recursion
<1>5. m = [q \in ResultPredicate |-> ValidResultOf(m, q)]
  BY <1>4 DEF Solves
<1>6. M = [q \in ResultPredicate |-> ValidResultOf(M, q)]
  BY <1>5
<1>7. \A q : ValidResultPredicate(q) = M[q]
  BY DEF ValidResultPredicate
<1> HIDE DEF F, H, M
<1>8. \A q \in Members(p) : M[q] = [r \in ResultPredicate |-> ValidResultPredicate(r)][q]
  BY <1>7, ResultMembers
<1>9. ValidResultOf(M, p) = ValidResultOf([q \in ResultPredicate |-> ValidResultPredicate(q)], p)
  BY <1>8, ValidResultOfMembers
<1> QED BY <1>6, <1>7, <1>9

\* Nothing comes of putting sequences together only when each is empty.
LEMMA FlattenEmpty ==
  ASSUME NEW E, NEW seqs \in Seq(Seq(E)), FlattenSeq(seqs) = <<>>
  PROVE  \A i \in DOMAIN seqs : seqs[i] = <<>>
<1>1. PICK f : Flattening(f, E, seqs) /\ FlattenSeq(seqs) = f[Len(seqs)]
  BY FlattenUnfolds
<1> DEFINE n == Len(seqs)
           N == {k \in 0..n : f[n - k] # <<>>}
<1>2. n \in Nat /\ DOMAIN seqs = 1..n /\ \A i \in 1..n : seqs[i] \in Seq(E)
  OBVIOUS
<1>3. \A i \in 1..n : f[i] = f[i - 1] \o seqs[i] /\ f[i - 1] \in Seq(E)
  <2> SUFFICES ASSUME NEW i \in 1..n PROVE f[i] = f[i - 1] \o seqs[i] /\ f[i - 1] \in Seq(E)
    OBVIOUS
  <2>1. i - 1 \in 0..n
    BY <1>2
  <2>2. f[i] = f[i - 1] \o seqs[i]
    BY <1>1 DEF Flattening
  <2>3. f[i - 1] \in Seq(E)
    BY <1>1, <2>1 DEF Flattening
  <2> QED BY <2>2, <2>3
<1>4. \A i \in 1..n : f[i] = <<>> => f[i - 1] = <<>> /\ seqs[i] = <<>>
  BY <1>2, <1>3
<1>5. f[n] = <<>>
  BY <1>1
<1> HIDE DEF n
<1>6. N = {}
  <2> SUFFICES ASSUME N # {} PROVE FALSE
    OBVIOUS
  <2>1. N \in SUBSET Nat
    BY <1>2
  <2>2. PICK k \in N : \A j \in N : k <= j
    BY <2>1, Least
  <2>3. k # 0
    BY <1>2, <1>5, <2>2
  <2>4. k - 1 \in 0..n /\ k - 1 \notin N /\ n - (k - 1) \in 1..n /\ (n - (k - 1)) - 1 = n - k
    <3>1. k - 1 \in 0..n /\ ~(k <= k - 1)
      BY <1>2, <2>2, <2>3
    <3>2. n - (k - 1) \in 1..n /\ (n - (k - 1)) - 1 = n - k
      BY <1>2, <2>2, <2>3
    <3> HIDE DEF N
    <3>3. k - 1 \notin N
      BY <2>2, <3>1
    <3> QED BY <3>1, <3>2, <3>3
  <2>5. f[n - (k - 1)] = <<>>
    BY <2>4
  <2>6. f[n - k] = <<>>
    BY <1>4, <2>4, <2>5
  <2> QED BY <2>2, <2>6
<1>7. ASSUME NEW i \in 1..n PROVE f[i] = <<>>
  <2>1. n - i \in 0..n /\ n - (n - i) = i
    BY <1>2
  <2> QED BY <1>6, <2>1
<1> QED BY <1>2, <1>4, <1>7

LEMMA JoinEmpty ==
  ASSUME NEW parts \in Seq(String), NEW sep \in String, Join(parts, sep) = <<>>
  PROVE  \A i \in DOMAIN parts : parts[i] = <<>>
<1> DEFINE pieces == [i \in DOMAIN parts |-> IF i = 1 THEN parts[1] ELSE sep \o parts[i]]
<1>1. DOMAIN parts = 1..Len(parts) /\ Len(parts) \in Nat /\ \A i \in DOMAIN parts : parts[i] \in Seq(Atom)
  BY DEF String
<1>2. \A i \in DOMAIN parts : sep \o parts[i] \in Seq(Atom) /\ (sep \o parts[i] = <<>> => parts[i] = <<>>)
  BY <1>1 DEF String
<1>3. pieces \in Seq(Seq(Atom))
  BY <1>1, <1>2
<1>4. FlattenSeq(pieces) = <<>>
  BY DEF Join
<1>5. \A i \in DOMAIN parts : pieces[i] = <<>>
  <2>1. DOMAIN pieces = DOMAIN parts
    OBVIOUS
  <2> HIDE DEF pieces
  <2> QED BY <1>3, <1>4, <2>1, FlattenEmpty
<1> QED BY <1>1, <1>2, <1>5

LEMMA JoinAllEmpty ==
  ASSUME NEW outs \in Seq(Fragment), NEW sep \in String, JoinAll(outs, sep) = Ok(<<>>)
  PROVE  \A i \in DOMAIN outs : outs[i] = Ok(<<>>)
<1> DEFINE strs == [i \in DOMAIN outs |-> outs[i].str]
<1>1. DOMAIN outs = 1..Len(outs) /\ Len(outs) \in Nat /\ \A i \in DOMAIN outs : outs[i] \in Fragment
  OBVIOUS
<1>2. strs \in Seq(String) /\ DOMAIN strs = DOMAIN outs
  BY <1>1 DEF Fragment
<1> HIDE DEF strs
<1>3. (\A i \in DOMAIN outs : outs[i].ok) /\ Join(strs, sep) = <<>>
  BY DEF JoinAll, Ok, Fail, strs
<1>4. \A i \in DOMAIN outs : strs[i] = <<>>
  BY <1>2, <1>3, JoinEmpty
<1> QED BY <1>1, <1>3, <1>4 DEF Fragment, Ok, strs

LEMMA ActionNonEmpty ==
  ASSUME NEW str, NEW action
  PROVE  getResultFragmentFromAction(str, action) # Ok(<<>>) \/ ~IsAction(action)
<1>1. \A s : NonEmpty(s) # Ok(<<>>)
  BY DEF NonEmpty, Ok, Fail
<1>2. Fail # Ok(<<>>)
  BY DEF Ok, Fail
<1> QED BY <1>1, <1>2 DEF getResultFragmentFromAction, IsAction

LEMMA LocalityNonEmpty ==
  ASSUME NEW locality, \A part \in Part : locality[part] \in String,
         NEW p \in ResultPredicate, p.kind = "locality"
  PROVE  getFragmentFromLocalityAction(locality, p.actions) # Ok(<<>>)
<1> DEFINE of(part) == IF part \notin DOMAIN p.actions THEN <<>>
                       ELSE <<getResultFragmentFromAction(locality[part], p.actions[part])>>
           Whole == {frag \in Fragment : frag # Ok(<<>>)}
           outs == of("region") \o of("zone") \o of("subzone")
<1>1. ASSUME NEW part \in Part PROVE of(part) \in Seq(Whole)
  <2>1. CASE part \in DOMAIN p.actions
    <3>1. IsAction(p.actions[part]) /\ p.actions[part].replace \in String
      BY <2>1, KeyerAssumption, MapperAssumption
    <3>2. getResultFragmentFromAction(locality[part], p.actions[part]) \in Whole
      <4>1. locality[part] \in String
        OBVIOUS
      <4>2. getResultFragmentFromAction(locality[part], p.actions[part]) \in Fragment
        BY <3>1, <4>1, ActionType
      <4>3. getResultFragmentFromAction(locality[part], p.actions[part]) # Ok(<<>>)
        BY <3>1, ActionNonEmpty
      <4> QED BY <4>2, <4>3
    <3>3. of(part) = <<getResultFragmentFromAction(locality[part], p.actions[part])>>
      BY <2>1
    <3> HIDE DEF of, Whole
    <3> QED BY <3>2, <3>3
  <2>2. CASE part \notin DOMAIN p.actions
    BY <2>2
  <2> QED BY <2>1, <2>2
<1>2. of("region") \in Seq(Whole) /\ of("zone") \in Seq(Whole) /\ of("subzone") \in Seq(Whole)
  BY <1>1 DEF Part
<1>3. outs \in Seq(Whole)
  <2> HIDE DEF of, Whole
  <2> QED BY <1>2
<1>4. getFragmentFromLocalityAction(locality, p.actions)
        = IF outs = <<>> THEN Fail ELSE JoinAll(outs, <<"|">>)
  BY DEF getFragmentFromLocalityAction
<1> HIDE DEF outs
<1>5. Fail # Ok(<<>>)
  BY DEF Ok, Fail
<1>6. outs # <<>> => JoinAll(outs, <<"|">>) # Ok(<<>>)
  <2>1. outs \in Seq(Fragment) /\ \A i \in DOMAIN outs : outs[i] # Ok(<<>>)
    BY <1>3
  <2>2. outs # <<>> => 1 \in DOMAIN outs
    BY <2>1
  <2> QED BY <2>1, <2>2, JoinAllEmpty, MapperAssumption
<1> QED BY <1>4, <1>5, <1>6

\* What Validate accepts evaluates to nothing only if it is made of literals.
LEMMA ValidResults ==
  ASSUME NEW req, IsRequest(req), NEW p \in ResultPredicate, ValidResultPredicate(p),
         p.kind # "nil", getResult(p, req) = Ok(<<>>)
  PROVE  Literal(p)
<1> DEFINE T == {q \in ResultPredicate : /\ ValidResultPredicate(q) /\ q.kind # "nil"
                                         /\ getResult(q, req) = Ok(<<>>) /\ ~Literal(q)}
           valid == [q \in ResultPredicate |-> ValidResultPredicate(q)]
           out == [q \in ResultPredicate |-> getResult(q, req)]
<1> SUFFICES ASSUME T # {} PROVE FALSE
  OBVIOUS
<1>1. PICK q \in T : \A r \in Members(q) : r \notin T
  <2>1. T \in SUBSET Predicate
    BY DEF Predicate
  <2> HIDE DEF T
  <2> QED BY <2>1, LowestPredicate
<1>2. ValidResultOf(valid, q)
  BY ValidResultUnfolds
<1>3. ResultOf(out, q, req) = Ok(<<>>)
  BY ResultUnfolds
<1>4. q.kind \in ResultKinds
  BY KeyerAssumption
<1>5. Fail # Ok(<<>>)
  BY DEF Fail, Ok
<1>6. Inside(q) = {q} \union UNION {Inside(r) : r \in Members(q)}
  BY InsideUnfolds DEF Predicate
<1>7. CASE q.kind = "andResult"
  <2>1. /\ q.results \in Seq(ResultPredicate)
        /\ Members(q) = {q.results[i] : i \in DOMAIN q.results}
    BY <1>7, ResultMembers
  <2>2. \A i \in DOMAIN q.results : q.results[i] \in ResultPredicate
    BY <2>1
  <2> DEFINE outs == [i \in DOMAIN q.results |-> out[q.results[i]]]
  <2>3. outs \in Seq(Fragment) /\ DOMAIN outs = DOMAIN q.results
    <3>1. \A i \in DOMAIN q.results : outs[i] \in Fragment
      BY <2>2, ResultUnfolds
    <3>2. DOMAIN outs = DOMAIN q.results
      OBVIOUS
    <3>3. DOMAIN q.results = 1..Len(q.results) /\ Len(q.results) \in Nat
      BY <2>1
    <3>4. outs = [i \in 1..Len(q.results) |-> outs[i]]
      BY <3>3
    <3> DEFINE n == Len(q.results)
    <3>5. n \in Nat /\ \A i \in 1..n : outs[i] \in Fragment
      BY <3>1, <3>3
    <3> HIDE DEF outs, n
    <3>6. outs = [i \in 1..n |-> outs[i]]
      BY <3>4 DEF n
    <3>7. outs \in [1..n -> Fragment]
      BY <3>5, <3>6
    <3>8. outs \in Seq(Fragment)
      BY <3>5, <3>7
    <3> QED BY <3>2, <3>8
  <2>4. JoinAll(outs, <<>>) = Ok(<<>>)
    BY <1>3, <1>7 DEF ResultOf
  <2>5. \A i \in DOMAIN q.results : outs[i] = Ok(<<>>)
    <3>1. <<>> \in String
      BY DEF String
    <3> HIDE DEF outs
    <3> QED BY <2>3, <2>4, <3>1, JoinAllEmpty
  <2>6. \A i \in DOMAIN q.results : valid[q.results[i]]
    BY <1>2, <1>7 DEF ValidResultOf, ValidAndResult
  <2>7. ASSUME NEW r \in Members(q) PROVE Literal(r)
    <3>1. PICK i \in DOMAIN q.results : r = q.results[i]
      BY <2>1, <2>7
    <3>2. r \in ResultPredicate /\ ValidResultPredicate(r) /\ getResult(r, req) = Ok(<<>>)
      BY <2>2, <2>5, <2>6, <3>1
    <3>3. r.kind # "nil"
      BY <2>7, Lower DEF Predicate
    <3> QED BY <1>1, <2>7, <3>2, <3>3
  <2>8. Literal(q)
    BY <1>6, <1>7, <2>7 DEF Literal
  <2> QED BY <2>8
<1>8. CASE q.kind = "string"
  <2>1. Inside(q) = {q}
    BY <1>6, <1>8, ResultMembers
  <2> QED BY <1>8, <2>1 DEF Literal
<1>9. CASE q.kind \in {"id", "cluster", "metadata", "name"}
  <2>1. IsAction(q.action)
    BY <1>9, KeyerAssumption
  <2>2. \A str : getResultFragmentFromAction(str, q.action) # Ok(<<>>)
    BY <2>1, ActionNonEmpty
  <2> QED BY <1>3, <1>5, <1>9, <2>2 DEF ResultOf, getFragmentFromNodeMetadataAction,
                                        getResultFromResourceNamesPredicate
<1>10. CASE q.kind = "locality"
  <2>1. getFragmentFromLocalityAction(req.locality, q.actions) # Ok(<<>>)
    BY <1>10, LocalityNonEmpty DEF IsRequest
  <2> QED BY <1>3, <1>10, <2>1 DEF ResultOf
<1>11. CASE q.kind \in {"node", "unset"}
  BY <1>2, <1>11 DEF ValidResultOf, ValidRequestNodeFragment
<1> QED BY <1>4, <1>7, <1>8, <1>9, <1>10, <1>11 DEF ResultKinds

\* The rules of a configuration Validate accepts are rules it accepts.
LEMMA ValidRules ==
  ASSUME NEW c \in Accepted, NEW rule \in ToSet(RulesOf(c))
  PROVE  ValidRule(rule)
<1> DEFINE E == {r \in Rules : ValidRule(r)}
<1>1. c \in Seq(Seq(Rules)) /\ ValidKeyerConfiguration(c)
  BY MapperAssumption DEF Accepted, Rules
<1>2. c \in Seq(Seq(E))
  <2>1. ASSUME NEW i \in DOMAIN c PROVE c[i] \in Seq(E)
    <3>1. c[i] \in Seq(Rules) /\ \A j \in DOMAIN c[i] : ValidRule(c[i][j])
      BY <1>1 DEF ValidKeyerConfiguration, ValidFragment
    <3>2. \A j \in DOMAIN c[i] : c[i][j] \in E
      BY <3>1
    <3> HIDE DEF E
    <3> QED BY <3>1, <3>2
  <2> HIDE DEF E
  <2> QED BY <1>1, <2>1
<1>3. RulesOf(c) \in Seq(E)
  <2> HIDE DEF E
  <2> QED BY <1>2, FlattenType DEF RulesOf
<1>4. rule \in E
  <2> HIDE DEF E
  <2> QED BY <1>3 DEF ToSet
<1> QED BY <1>4

\* The relay starts with what Validate accepts (AcceptedIsUsable): whatever the
\* configuration and however deep its predicates, no match runs into a missing
\* oneof (mapper.go:142) and no fragment is empty that the file does not spell
\* out as empty.
THEOREM AcceptedConfigurations == Spec => []AcceptedIsUsable
<1>1. TypeOK => AcceptedIsUsable
  <2> SUFFICES ASSUME TypeOK, NEW c \in Client, NEW rule \in ToSet(RulesOf(config))
               PROVE  /\ isMatch(rule.match, RequestOf(c)) # "invalid"
                      /\ getResult(rule.result, RequestOf(c)) = Ok(<<>>) => Literal(rule.result)
    BY DEF AcceptedIsUsable
  <2>1. ValidRule(rule)
    BY ValidRules DEF TypeOK
  <2>2. rule.match \in MatchPredicate /\ rule.result \in ResultPredicate
    BY InRules
  <2>3. IsRequest(RequestOf(c))
    <3>1. watch[c].names \in Names \union {<<>>}
      BY DEF TypeOK
    <3> QED BY <3>1, RequestTypes DEF RequestOf
  <2> QED BY <2>1, <2>2, <2>3, ValidMatches, ValidResults DEF ValidRule
<1> QED BY <1>1, Types, PTL

-----------------------------------------------------------------------------
(***************************************************************************)
(* SharesOnlyEqualFragments: a key can be taken apart at its separators.   *)
(***************************************************************************)
Without(e, str) == \A i \in DOMAIN str : str[i] # e

LEMMA SameSequence ==
  ASSUME NEW E, NEW s \in Seq(E), NEW t \in Seq(E), Len(s) = Len(t),
         \A i \in 1..Len(s) : s[i] = t[i]
  PROVE  s = t
<1>1. s = [i \in 1..Len(s) |-> s[i]] /\ t = [i \in 1..Len(t) |-> t[i]]
  OBVIOUS
<1> QED BY <1>1

\* What comes after the last separator, and what comes before it.
LEMMA LastPart ==
  ASSUME NEW e \in Atom, NEW a \in String, NEW b \in String, NEW x \in String, NEW y \in String,
         Without(e, x), Without(e, y), a \o <<e>> \o x = b \o <<e>> \o y
  PROVE  a = b /\ x = y
<1> DEFINE u == a \o <<e>> \o x
           v == b \o <<e>> \o y
<1>1. a \in Seq(Atom) /\ b \in Seq(Atom) /\ x \in Seq(Atom) /\ y \in Seq(Atom)
  BY DEF String
<1>2. /\ Len(u) = Len(a) + 1 + Len(x)
      /\ \A i \in 1..Len(a) : u[i] = a[i]
      /\ u[Len(a) + 1] = e
      /\ \A i \in 1..Len(x) : u[Len(a) + 1 + i] = x[i]
  BY <1>1
<1>3. /\ Len(v) = Len(b) + 1 + Len(y)
      /\ \A i \in 1..Len(b) : v[i] = b[i]
      /\ v[Len(b) + 1] = e
      /\ \A i \in 1..Len(y) : v[Len(b) + 1 + i] = y[i]
  BY <1>1
<1>4. u = v
  OBVIOUS
<1>5. /\ Len(a) \in Nat /\ Len(b) \in Nat /\ Len(x) \in Nat /\ Len(y) \in Nat
      /\ \A i \in 1..Len(x) : x[i] # e
      /\ \A i \in 1..Len(y) : y[i] # e
  BY <1>1 DEF Without
<1> HIDE DEF u, v
<1>6. ~(Len(a) < Len(b))
  <2> SUFFICES ASSUME Len(a) < Len(b) PROVE FALSE
    OBVIOUS
  <2> DEFINE i == Len(b) - Len(a)
  <2>1. i \in 1..Len(x) /\ Len(a) + 1 + i = Len(b) + 1
    BY <1>2, <1>3, <1>4, <1>5
  <2>2. x[i] = u[Len(b) + 1]
    BY <1>2, <2>1
  <2> QED BY <1>3, <1>4, <1>5, <2>1, <2>2
<1>7. ~(Len(b) < Len(a))
  <2> SUFFICES ASSUME Len(b) < Len(a) PROVE FALSE
    OBVIOUS
  <2> DEFINE i == Len(a) - Len(b)
  <2>1. i \in 1..Len(y) /\ Len(b) + 1 + i = Len(a) + 1
    BY <1>2, <1>3, <1>4, <1>5
  <2>2. y[i] = v[Len(a) + 1]
    BY <1>3, <2>1
  <2> QED BY <1>2, <1>4, <1>5, <2>1, <2>2
<1>8. Len(a) = Len(b) /\ Len(x) = Len(y)
  BY <1>2, <1>3, <1>4, <1>5, <1>6, <1>7
<1>9. \A i \in 1..Len(a) : a[i] = b[i]
  BY <1>2, <1>3, <1>4, <1>8
<1>10. \A i \in 1..Len(x) : x[i] = y[i]
  BY <1>2, <1>3, <1>4, <1>8
<1>11. a = b
  BY <1>1, <1>8, <1>9, SameSequence
<1>12. x = y
  BY <1>1, <1>8, <1>10, SameSequence
<1> QED BY <1>11, <1>12

\* What is joined of the first i of parts.
Joining(f, e, parts) ==
    /\ f \in [0..Len(parts) -> String]
    /\ \A i \in 1..Len(parts) : f[i] = IF i = 1 THEN parts[1] ELSE f[i - 1] \o <<e>> \o parts[i]

LEMMA JoinUnfolds ==
  ASSUME NEW e \in Atom, NEW parts \in Seq(String)
  PROVE  \E f : Joining(f, e, parts) /\ Join(parts, <<e>>) = f[Len(parts)]
<1> DEFINE n == Len(parts)
           pieces == [i \in DOMAIN parts |-> IF i = 1 THEN parts[1] ELSE <<e>> \o parts[i]]
<1>1. DOMAIN parts = 1..n /\ n \in Nat /\ \A i \in 1..n : parts[i] \in Seq(Atom)
  BY DEF String
<1>2. \A i \in 1..n : <<e>> \o parts[i] \in Seq(Atom)
  BY <1>1
<1>3. pieces \in Seq(Seq(Atom)) /\ Len(pieces) = n
  BY <1>1, <1>2
<1>4. Join(parts, <<e>>) = FlattenSeq(pieces)
  BY DEF Join
<1>5. \A i \in 1..n : pieces[i] = IF i = 1 THEN parts[1] ELSE <<e>> \o parts[i]
  BY <1>1
<1> HIDE DEF pieces
<1>6. PICK f : Flattening(f, Atom, pieces) /\ FlattenSeq(pieces) = f[Len(pieces)]
  BY <1>3, FlattenUnfolds
<1>7. f \in [0..n -> Seq(Atom)] /\ f[0] = <<>> /\ \A i \in 1..n : f[i] = f[i - 1] \o pieces[i]
  BY <1>3, <1>6 DEF Flattening
<1> HIDE DEF n
<1>8. ASSUME NEW i \in 1..n
      PROVE  f[i] = IF i = 1 THEN parts[1] ELSE f[i - 1] \o <<e>> \o parts[i]
  <2>1. f[i] = f[i - 1] \o pieces[i] /\ i - 1 \in 0..n
    <3>1. i - 1 \in 0..n
      BY <1>1
    <3> QED BY <1>7, <3>1
  <2>2. CASE i = 1
    <3>1. f[i - 1] = <<>> /\ pieces[i] = parts[1] /\ parts[1] \in Seq(Atom)
      BY <1>1, <1>5, <1>7, <2>2
    <3> QED BY <2>1, <2>2, <3>1
  <2>3. CASE i # 1
    <3>1. pieces[i] = <<e>> \o parts[i] /\ parts[i] \in Seq(Atom) /\ f[i - 1] \in Seq(Atom)
      BY <1>1, <1>5, <1>7, <2>1, <2>3
    <3>2. f[i - 1] \o (<<e>> \o parts[i]) = f[i - 1] \o <<e>> \o parts[i]
      <4>1. \A s \in Seq(Atom), t \in Seq(Atom) : s \o (<<e>> \o t) = s \o <<e>> \o t
        OBVIOUS
      <4> QED BY <3>1, <4>1
    <3> QED BY <2>1, <2>3, <3>1, <3>2
  <2> QED BY <2>2, <2>3
<1>9. Joining(f, e, parts)
  BY <1>7, <1>8 DEF Joining, String, n
<1>10. Join(parts, <<e>>) = f[n]
  BY <1>3, <1>4, <1>6
<1> QED BY <1>9, <1>10 DEF n

\* Parts without the separator in them are told apart by what is joined.
LEMMA JoinTellsApart ==
  ASSUME NEW e \in Atom, NEW ps \in Seq(String), NEW qs \in Seq(String), ps # <<>>, qs # <<>>,
         \A i \in DOMAIN ps : Without(e, ps[i]), \A i \in DOMAIN qs : Without(e, qs[i]),
         Join(ps, <<e>>) = Join(qs, <<e>>)
  PROVE  ps = qs
<1>1. PICK f : Joining(f, e, ps) /\ Join(ps, <<e>>) = f[Len(ps)]
  BY JoinUnfolds
<1>2. PICK g : Joining(g, e, qs) /\ Join(qs, <<e>>) = g[Len(qs)]
  BY JoinUnfolds
<1> DEFINE m == Len(ps)
           n == Len(qs)
           Wrong(i, j) == f[i] = g[j] /\ (i # j \/ \E k \in 1..i : ps[k] # qs[k])
           T == {i \in 1..m : \E j \in 1..n : Wrong(i, j)}
<1>3. /\ DOMAIN ps = 1..m /\ m \in Nat /\ m # 0 /\ \A i \in 1..m : ps[i] \in String
      /\ DOMAIN qs = 1..n /\ n \in Nat /\ n # 0 /\ \A i \in 1..n : qs[i] \in String
  OBVIOUS
<1>4. /\ f \in [0..m -> String]
      /\ \A i \in 1..m : f[i] = IF i = 1 THEN ps[1] ELSE f[i - 1] \o <<e>> \o ps[i]
  BY <1>1 DEF Joining
<1>5. /\ g \in [0..n -> String]
      /\ \A i \in 1..n : g[i] = IF i = 1 THEN qs[1] ELSE g[i - 1] \o <<e>> \o qs[i]
  BY <1>2 DEF Joining
<1>6. ps = [i \in 1..m |-> ps[i]] /\ qs = [i \in 1..n |-> qs[i]]
  BY <1>3
<1>7. f[m] = g[n]
  BY <1>1, <1>2
<1> HIDE DEF m, n
<1>8. ASSUME NEW a \in String, NEW x \in String PROVE ~Without(e, a \o <<e>> \o x)
  <2>1. a \in Seq(Atom) /\ x \in Seq(Atom)
    BY DEF String
  <2>2. Len(a) + 1 \in DOMAIN (a \o <<e>> \o x) /\ (a \o <<e>> \o x)[Len(a) + 1] = e
    BY <2>1
  <2> QED BY <2>2 DEF Without
<1>9. T = {}
  <2> SUFFICES ASSUME T # {} PROVE FALSE
    OBVIOUS
  <2>1. T \in SUBSET Nat
    BY <1>3
  <2>2. PICK i \in T : \A k \in T : i <= k
    BY <2>1, Least
  <2>3. PICK j \in 1..n : f[i] = g[j] /\ (i # j \/ \E k \in 1..i : ps[k] # qs[k])
    <3>1. PICK j \in 1..n : Wrong(i, j)
      <4> HIDE DEF Wrong
      <4> QED OBVIOUS
    <3> QED BY <3>1
  <2>4. i \in 1..m /\ i \in Nat /\ j \in Nat
    BY <1>3, <2>2
  <2>5. CASE i = 1 /\ j = 1
    <3>1. ps[1] = qs[1]
      BY <1>4, <1>5, <2>3, <2>4, <2>5
    <3> QED BY <2>3, <2>5, <3>1
  <2>6. CASE i = 1 /\ j # 1
    <3>0. j - 1 \in 0..n /\ f[i] = ps[1] /\ g[j] = g[j - 1] \o <<e>> \o qs[j]
      <4>1. j - 1 \in 0..n /\ 1 \in 1..m
        BY <1>3, <2>4
      <4>2. f[i] = ps[1]
        BY <1>4, <2>6, <4>1
      <4>3. g[j] = g[j - 1] \o <<e>> \o qs[j]
        BY <1>5, <2>6
      <4> QED BY <4>1, <4>2, <4>3
    <3>1. ps[1] = g[j - 1] \o <<e>> \o qs[j] /\ j - 1 \in 0..n
      BY <2>3, <3>0
    <3>2. g[j - 1] \in String /\ qs[j] \in String
      BY <1>3, <1>5, <3>1
    <3>3. Without(e, ps[1])
      BY <1>3, <2>4, <2>6
    <3> QED BY <1>8, <3>1, <3>2, <3>3
  <2>7. CASE i # 1 /\ j = 1
    <3>0. i - 1 \in 0..m /\ g[j] = qs[1] /\ f[i] = f[i - 1] \o <<e>> \o ps[i]
      <4>1. i - 1 \in 0..m /\ 1 \in 1..n
        BY <1>3, <2>4
      <4>2. g[j] = qs[1]
        BY <1>5, <2>7, <4>1
      <4>3. f[i] = f[i - 1] \o <<e>> \o ps[i]
        BY <1>4, <2>4, <2>7
      <4> QED BY <4>1, <4>2, <4>3
    <3>1. qs[1] = f[i - 1] \o <<e>> \o ps[i] /\ i - 1 \in 0..m
      BY <2>3, <3>0
    <3>2. f[i - 1] \in String /\ ps[i] \in String
      BY <1>3, <1>4, <2>4, <3>1
    <3>3. Without(e, qs[1])
      BY <1>3, <2>3, <2>7
    <3> QED BY <1>8, <3>1, <3>2, <3>3
  <2>8. CASE i # 1 /\ j # 1
    <3>1. /\ i - 1 \in 1..m /\ i - 1 \in 0..m /\ j - 1 \in 1..n /\ j - 1 \in 0..n
          /\ ~(i <= i - 1) /\ 1..i = 1..(i - 1) \union {i}
      BY <1>3, <2>4, <2>8
    <3>2. f[i - 1] \o <<e>> \o ps[i] = g[j - 1] \o <<e>> \o qs[j]
      BY <1>4, <1>5, <2>3, <2>4, <2>8
    <3>3. f[i - 1] \in String /\ ps[i] \in String /\ g[j - 1] \in String /\ qs[j] \in String
      BY <1>3, <1>4, <1>5, <2>4, <3>1
    <3>4. Without(e, ps[i]) /\ Without(e, qs[j])
      BY <1>3, <2>4
    <3>5. f[i - 1] = g[j - 1] /\ ps[i] = qs[j]
      <4> DEFINE a == f[i - 1]
                 b == g[j - 1]
                 x == ps[i]
                 y == qs[j]
      <4>1. /\ a \in String /\ b \in String /\ x \in String /\ y \in String
            /\ Without(e, x) /\ Without(e, y) /\ a \o <<e>> \o x = b \o <<e>> \o y
        BY <3>2, <3>3, <3>4
      <4> HIDE DEF T, a, b, x, y
      <4>2. a = b /\ x = y
        BY <4>1, LastPart
      <4> QED BY <4>2 DEF a, b, x, y
    <3>6. i - 1 \notin T
      <4> HIDE DEF T
      <4> QED BY <2>2, <3>1
    <3>7. i - 1 = j - 1 /\ \A k \in 1..(i - 1) : ps[k] = qs[k]
      BY <3>1, <3>5, <3>6
    <3>8. i = j
      BY <2>4, <3>7
    <3> QED BY <2>3, <3>1, <3>5, <3>7, <3>8
  <2> QED BY <2>5, <2>6, <2>7, <2>8
<1>10. m \in 1..m /\ n \in 1..n
  BY <1>3
<1>11. m = n /\ \A k \in 1..m : ps[k] = qs[k]
  BY <1>7, <1>9, <1>10
<1> QED BY <1>6, <1>11

\* SharesOnlyEqualFragments: watches of one key, and so of one stream, had the
\* same fragment of every rule, unless a fragment has the separator in it.
THEOREM KeysKeepFragmentsApart == Spec => []SharesOnlyEqualFragments
<1>1. IInv /\ KeyInv => SharesOnlyEqualFragments
  <2> SUFFICES ASSUME IInv, KeyInv, NEW c \in Client, NEW d \in Client,
                      Open(c), Open(d), watch[c].key = watch[d].key, ~ReadsOwnField,
                      \A i \in DOMAIN Fragments(config, SentBy(c)) :
                          ~Occurs(Separator[1], Fragments(config, SentBy(c))[i].str),
                      \A i \in DOMAIN Fragments(config, SentBy(d)) :
                          ~Occurs(Separator[1], Fragments(config, SentBy(d))[i].str)
               PROVE  Fragments(config, SentBy(c)) = Fragments(config, SentBy(d))
    BY DEF SharesOnlyEqualFragments
  <2> DEFINE fc == Fragments(config, SentBy(c))
             fd == Fragments(config, SentBy(d))
             ps == [i \in DOMAIN fc |-> fc[i].str]
             qs == [i \in DOMAIN fd |-> fd[i].str]
  <2>1. /\ GetKey(config, SentBy(c)) = Ok(watch[c].key)
        /\ GetKey(config, SentBy(d)) = Ok(watch[d].key)
        /\ IsRequest(SentBy(c)) /\ IsRequest(SentBy(d))
    BY RequestTypes DEF KeyInv, KeyIsOfSent, SentBy, IInv, TypeOK
  <2>2. fc \in Seq(Fragment) /\ fd \in Seq(Fragment)
    BY <2>1, FragmentsType DEF IInv, TypeOK
  <2>3. /\ fc # <<>> /\ JoinAll(fc, Separator) = Ok(watch[c].key)
        /\ fd # <<>> /\ JoinAll(fd, Separator) = Ok(watch[d].key)
    BY <2>1, KeyOk DEF Ok
  <2>4. /\ \A i \in DOMAIN fc : ~Occurs("_", fc[i].str)
        /\ \A i \in DOMAIN fd : ~Occurs("_", fd[i].str)
    BY DEF Separator
  <2> HIDE DEF fc, fd
  <2>5. /\ ps \in Seq(String) /\ DOMAIN ps = DOMAIN fc /\ ps # <<>>
        /\ qs \in Seq(String) /\ DOMAIN qs = DOMAIN fd /\ qs # <<>>
    <3>1. /\ DOMAIN fc = 1..Len(fc) /\ Len(fc) \in Nat /\ \A i \in DOMAIN fc : fc[i].str \in String
          /\ DOMAIN fd = 1..Len(fd) /\ Len(fd) \in Nat /\ \A i \in DOMAIN fd : fd[i].str \in String
      <4>1. \A frag \in Fragment : frag.str \in String
        BY DEF Fragment
      <4> QED BY <2>2, <4>1
    <3>2. 1 \in DOMAIN fc /\ 1 \in DOMAIN fd
      BY <2>2, <2>3
    <3>3. ps \in Seq(String) /\ DOMAIN ps = DOMAIN fc /\ ps # <<>>
      BY <3>1, <3>2
    <3>4. qs \in Seq(String) /\ DOMAIN qs = DOMAIN fd /\ qs # <<>>
      BY <3>1, <3>2
    <3> QED BY <3>3, <3>4
  <2>6. /\ \A i \in DOMAIN fc : fc[i].ok
        /\ \A i \in DOMAIN fd : fd[i].ok
        /\ Join(ps, Separator) = watch[c].key /\ Join(qs, Separator) = watch[d].key
    BY <2>3 DEF JoinAll, Ok, Fail
  <2>7. /\ \A i \in DOMAIN ps : Without("_", ps[i])
        /\ \A i \in DOMAIN qs : Without("_", qs[i])
    BY <2>4 DEF Without, Occurs
  <2>8. ps = qs
    <3>1. "_" \in Atom
      <4>1. Separator \in String
        BY MapperAssumption
      <4> DEFINE sep == <<"_">>
      <4>2. sep \in Seq(Atom)
        BY <4>1 DEF Separator, String
      <4>3. sep[1] = "_" /\ Len(sep) = 1
        OBVIOUS
      <4> HIDE DEF sep
      <4>4. \A s \in Seq(Atom) : Len(s) = 1 => s[1] \in Atom
        OBVIOUS
      <4>5. sep[1] \in Atom
        BY <4>2, <4>3, <4>4
      <4> QED BY <4>3, <4>5
    <3>2. Join(ps, <<"_">>) = Join(qs, <<"_">>)
      BY <2>6 DEF Separator
    <3> HIDE DEF ps, qs
    <3> QED BY <2>5, <2>7, <3>1, <3>2, JoinTellsApart
  <2>9. DOMAIN fc = DOMAIN fd /\ \A i \in DOMAIN fc : fc[i].str = fd[i].str
    <3>1. \A i \in DOMAIN fc : ps[i] = fc[i].str
      OBVIOUS
    <3>2. \A i \in DOMAIN fd : qs[i] = fd[i].str
      OBVIOUS
    <3> HIDE DEF ps, qs
    <3> QED BY <2>5, <2>8, <3>1, <3>2
  <2>10. \A i \in DOMAIN fc : fc[i] = fd[i]
    <3>1. \A i \in DOMAIN fc : fc[i] \in Fragment /\ fd[i] \in Fragment
      BY <2>2, <2>9
    <3> QED BY <2>6, <2>9, <3>1 DEF Fragment
  <2>11. fc = fd
    BY <2>2, <2>9, <2>10
  <2> QED BY <2>11 DEF fc, fd
<1> QED BY <1>1, Keys, PTL
=============================================================================
