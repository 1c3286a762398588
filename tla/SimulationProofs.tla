--------------------------- MODULE SimulationProofs ---------------------------
(***************************************************************************)
(* Proofs about matching and simulation, for any matchers, drafts, traffic *)
(* and bounds: what a matcher does not name cannot change its verdict, so  *)
(* bodies and trailers are read whenever a rule depends on them, accepted  *)
(* rules can do what they say, and simulations foretell what they can.     *)
(***************************************************************************)
EXTENDS Simulation, WellFoundedInduction, TLAPS

LEMMA LeastNumber ==
  ASSUME NEW T \in SUBSET Nat, T # {}
  PROVE  \E n \in T : \A m \in T : n <= m
<1> DEFINE Less == OpToRel(<, Nat)
<1>1. IsWellFoundedOn(Less, Nat)  BY NatLessThanWellFounded
<1>2. \A m, n \in Nat : m < n => <<m, n>> \in Less  BY DEF OpToRel
<1> HIDE DEF Less
<1>3. PICK n \in T : \A m \in T : ~ (<<m, n>> \in Less)  BY <1>1, WFMin, Zenon
<1>4. \A m \in T : ~ (m < n)  BY <1>2, <1>3
<1> QED  BY <1>4

(* Induction over matchers: one whose conditions are all spared.           *)
LEMMA LeastMatcher ==
  ASSUME NEW Bad \in SUBSET Matchers, Bad # {}
  PROVE  \E m \in Bad : \A i \in DOMAIN Conditions(m) : Conditions(m)[i] \notin Bad
<1> DEFINE Depths == {Depth[m] : m \in Bad}
<1>1. Depths \in SUBSET Nat /\ Depths # {}  BY MatcherConstants
<1> HIDE DEF Depths
<1>2. PICK d \in Depths : \A e \in Depths : d <= e  BY <1>1, LeastNumber
<1>3. PICK m \in Bad : Depth[m] = d  BY DEF Depths
<1>4. ASSUME NEW i \in DOMAIN Conditions(m), Conditions(m)[i] \in Bad  PROVE FALSE
  <2>1. Depth[Conditions(m)[i]] \in Depths  BY <1>4 DEF Depths
  <2>2. Depth[Conditions(m)[i]] < d  BY <1>3, MatcherConstants
  <2>3. d <= Depth[Conditions(m)[i]] /\ d \in Nat /\ Depth[Conditions(m)[i]] \in Nat
    BY <1>1, <1>2, <2>1
  <2> QED  BY <2>2, <2>3
<1> QED  BY <1>4

----------------------------------------------------------------------------
(* Functions that are computed from the leaves of a matcher upwards        *)

Inner(f, m) == [i \in DOMAIN Conditions(m) |-> f[Conditions(m)[i]]]

UpTo(k) == {m \in Matchers : Depth[m] < k}

FollowsOn(f, rule, S) == \A m \in S : f[m] = rule[m][Inner(f, m)]

LEMMA ConditionsAreLess ==
  ASSUME NEW m \in Matchers, NEW i \in DOMAIN Conditions(m)
  PROVE  /\ Conditions(m)[i] \in Matchers
         /\ Depth[m] \in Nat /\ Depth[Conditions(m)[i]] \in Nat
         /\ Depth[Conditions(m)[i]] < Depth[m]
BY MatcherConstants

(* What follows the same rule up to a depth is the same up to there.       *)
LEMMA FollowersAgree ==
  ASSUME NEW rule, NEW k \in Nat, NEW f, NEW g,
         FollowsOn(f, rule, UpTo(k)), FollowsOn(g, rule, UpTo(k))
  PROVE  \A m \in UpTo(k) : f[m] = g[m]
<1> DEFINE Bad == {m \in UpTo(k) : f[m] # g[m]}
<1>1. SUFFICES ASSUME Bad # {} PROVE FALSE  OBVIOUS
<1>2. Bad \in SUBSET Matchers  BY DEF UpTo
<1>3. PICK m \in Bad : \A i \in DOMAIN Conditions(m) : Conditions(m)[i] \notin Bad
  <2> HIDE DEF Bad
  <2> QED  BY <1>1, <1>2, LeastMatcher
<1>4. m \in UpTo(k) /\ m \in Matchers /\ Depth[m] < k  BY DEF UpTo
<1>5. ASSUME NEW i \in DOMAIN Conditions(m)
      PROVE  f[Conditions(m)[i]] = g[Conditions(m)[i]]
  <2>1. Conditions(m)[i] \in UpTo(k)  BY <1>4, ConditionsAreLess DEF UpTo
  <2> QED  BY <1>3, <2>1
<1>6. Inner(f, m) = Inner(g, m)  BY <1>5 DEF Inner
<1> QED  BY <1>4, <1>6 DEF FollowsOn

LEMMA FollowerUpTo ==
  ASSUME NEW R, NEW r \in R, NEW rule,
         \A m \in Matchers : \A a \in [DOMAIN Conditions(m) -> R] : rule[m][a] \in R,
         NEW k \in Nat
  PROVE  \E f \in [Matchers -> R] : FollowsOn(f, rule, UpTo(k))
<1> DEFINE Bad == {n \in Nat : ~ \E f \in [Matchers -> R] : FollowsOn(f, rule, UpTo(n))}
<1>1. SUFFICES ASSUME Bad # {} PROVE FALSE  OBVIOUS
<1>2. PICK n \in Bad : \A j \in Bad : n <= j
  <2>1. Bad \in SUBSET Nat  OBVIOUS
  <2> HIDE DEF Bad
  <2> QED  BY <1>1, <2>1, LeastNumber
<1>3. n # 0
  <2>1. [m \in Matchers |-> r] \in [Matchers -> R]  OBVIOUS
  <2>2. UpTo(0) = {}  BY MatcherConstants DEF UpTo
  <2>3. FollowsOn([m \in Matchers |-> r], rule, UpTo(0))  BY <2>2 DEF FollowsOn
  <2> QED  BY <2>1, <2>3
<1>4. n \in Nat /\ n - 1 \in Nat /\ n - 1 \notin Bad  BY <1>2, <1>3
<1>5. PICK f \in [Matchers -> R] : FollowsOn(f, rule, UpTo(n - 1))  BY <1>4
<1> DEFINE g == [m \in Matchers |-> IF Depth[m] < n THEN rule[m][Inner(f, m)] ELSE f[m]]
<1>6. \A m \in Matchers : Inner(f, m) \in [DOMAIN Conditions(m) -> R]
  BY ConditionsAreLess DEF Inner
<1>7. g \in [Matchers -> R]  BY <1>6
<1>8. \A m \in Matchers : g[m] = IF Depth[m] < n THEN rule[m][Inner(f, m)] ELSE f[m]  OBVIOUS
<1> HIDE DEF g, Bad
<1>9. \A m \in UpTo(n - 1) : g[m] = f[m]
  <2>1. TAKE m \in UpTo(n - 1)
  <2>2. m \in Matchers /\ Depth[m] < n - 1 /\ Depth[m] \in Nat  BY MatcherConstants DEF UpTo
  <2>3. Depth[m] < n  BY <1>4, <2>2
  <2>4. f[m] = rule[m][Inner(f, m)]  BY <1>5 DEF FollowsOn
  <2> QED  BY <1>8, <2>2, <2>3, <2>4
<1>10. ASSUME NEW m \in UpTo(n)  PROVE g[m] = rule[m][Inner(g, m)]
  <2>1. m \in Matchers /\ Depth[m] < n  BY DEF UpTo
  <2>2. ASSUME NEW i \in DOMAIN Conditions(m)
        PROVE  g[Conditions(m)[i]] = f[Conditions(m)[i]]
    <3>1. /\ Conditions(m)[i] \in Matchers
          /\ Depth[m] \in Nat /\ Depth[Conditions(m)[i]] \in Nat
          /\ Depth[Conditions(m)[i]] < Depth[m]
      BY <2>1, ConditionsAreLess
    <3>2. Conditions(m)[i] \in UpTo(n - 1)  BY <1>4, <2>1, <3>1 DEF UpTo
    <3> QED  BY <1>9, <3>2
  <2>3. Inner(g, m) = Inner(f, m)  BY <2>2 DEF Inner
  <2> QED  BY <1>8, <2>1, <2>3
<1>11. FollowsOn(g, rule, UpTo(n))  BY <1>10 DEF FollowsOn
<1> QED  BY <1>7, <1>11 DEF Bad

LEMMA FollowerExists ==
  ASSUME NEW R, NEW r \in R, NEW rule,
         \A m \in Matchers : \A a \in [DOMAIN Conditions(m) -> R] : rule[m][a] \in R
  PROVE  \E f \in [Matchers -> R] : FollowsOn(f, rule, Matchers)
<1> DEFINE Is(f, k) == f \in [Matchers -> R] /\ FollowsOn(f, rule, UpTo(k))
<1> DEFINE upTo == [k \in Nat |-> CHOOSE f : Is(f, k)]
<1>1. \A k \in Nat : Is(upTo[k], k)  BY FollowerUpTo
<1> DEFINE F == [m \in Matchers |-> upTo[Depth[m] + 1][m]]
<1>2. \A m \in Matchers : F[m] = upTo[Depth[m] + 1][m]  OBVIOUS
<1>3. \A m \in Matchers : Depth[m] \in Nat /\ Depth[m] + 1 \in Nat  BY MatcherConstants
<1>4. F \in [Matchers -> R]  BY <1>1, <1>3
<1> HIDE DEF F, upTo
<1>5. ASSUME NEW m \in Matchers  PROVE F[m] = rule[m][Inner(F, m)]
  <2> DEFINE f == upTo[Depth[m] + 1]
  <2>1. FollowsOn(f, rule, UpTo(Depth[m] + 1))  BY <1>1, <1>3
  <2>2. m \in UpTo(Depth[m] + 1)  BY <1>3 DEF UpTo
  <2>3. f[m] = rule[m][Inner(f, m)]  BY <2>1, <2>2 DEF FollowsOn
  <2> HIDE DEF f
  <2>4. ASSUME NEW i \in DOMAIN Conditions(m)
        PROVE  F[Conditions(m)[i]] = f[Conditions(m)[i]]
    <3> DEFINE c == Conditions(m)[i]
               g == upTo[Depth[c] + 1]
    <3>1. c \in Matchers /\ Depth[c] < Depth[m]  BY ConditionsAreLess
    <3>2. UpTo(Depth[c] + 1) \subseteq UpTo(Depth[m] + 1)  BY <1>3, <3>1 DEF UpTo
    <3>3. FollowsOn(f, rule, UpTo(Depth[c] + 1))  BY <2>1, <3>2 DEF FollowsOn
    <3>4. FollowsOn(g, rule, UpTo(Depth[c] + 1))  BY <1>1, <1>3, <3>1
    <3>5. c \in UpTo(Depth[c] + 1)  BY <1>3, <3>1 DEF UpTo
    <3>6. F[c] = g[c]  BY <1>2, <3>1
    <3> HIDE DEF c, g
    <3>7. Depth[c] + 1 \in Nat  BY <1>3, <3>1
    <3>8. g[c] = f[c]  BY <3>3, <3>4, <3>5, <3>7, FollowersAgree
    <3> QED  BY <3>6, <3>8 DEF c
  <2>5. Inner(F, m) = Inner(f, m)  BY <2>4 DEF Inner
  <2> QED  BY <1>2, <2>3, <2>5 DEF f
<1> QED  BY <1>4, <1>5 DEF FollowsOn

----------------------------------------------------------------------------
(* The parts of a matcher, and its verdict                                 *)

ArePartsOf(f) ==
  f = [x \in Matchers |-> {x} \cup UNION {f[Conditions(x)[i]] : i \in DOMAIN Conditions(x)}]

LEMMA PartsOfMatcher ==
  ASSUME NEW m \in Matchers
  PROVE  Parts[m] = {m} \cup UNION {Parts[Conditions(m)[i]] : i \in DOMAIN Conditions(m)}
<1> DEFINE rule == [x \in Matchers |-> [a \in [DOMAIN Conditions(x) -> SUBSET Matchers] |->
                      {x} \cup UNION {a[i] : i \in DOMAIN Conditions(x)}]]
           f == CHOOSE g : ArePartsOf(g)
<1>1. \A x \in Matchers : \A a \in [DOMAIN Conditions(x) -> SUBSET Matchers] :
        rule[x][a] = {x} \cup UNION {a[i] : i \in DOMAIN Conditions(x)}
  OBVIOUS
<1>2. \A x \in Matchers : \A a \in [DOMAIN Conditions(x) -> SUBSET Matchers] :
        rule[x][a] \in SUBSET Matchers
  BY <1>1
<1> HIDE DEF rule
<1>3. {} \in SUBSET Matchers  OBVIOUS
<1>4. PICK g \in [Matchers -> SUBSET Matchers] : FollowsOn(g, rule, Matchers)
  BY <1>2, <1>3, FollowerExists
<1>5. ASSUME NEW x \in Matchers
      PROVE  g[x] = {x} \cup UNION {g[Conditions(x)[i]] : i \in DOMAIN Conditions(x)}
  <2>1. Inner(g, x) \in [DOMAIN Conditions(x) -> SUBSET Matchers]
    BY ConditionsAreLess DEF Inner
  <2>2. \A i \in DOMAIN Conditions(x) : Inner(g, x)[i] = g[Conditions(x)[i]]  BY DEF Inner
  <2>3. g[x] = rule[x][Inner(g, x)]  BY <1>4 DEF FollowsOn
  <2>4. {Inner(g, x)[i] : i \in DOMAIN Conditions(x)}
          = {g[Conditions(x)[i]] : i \in DOMAIN Conditions(x)}
    BY <2>2
  <2> QED  BY <1>1, <2>1, <2>3, <2>4
<1>6. ArePartsOf(g)  BY <1>5 DEF ArePartsOf
<1>7. ArePartsOf(f)  BY <1>6
<1>8. Parts = f  BY DEF Parts, ArePartsOf
<1> HIDE DEF f
<1>9. f[m] = {m} \cup UNION {f[Conditions(m)[i]] : i \in DOMAIN Conditions(m)}
  BY <1>7 DEF ArePartsOf
<1>10. {f[Conditions(m)[i]] : i \in DOMAIN Conditions(m)}
         = {Parts[Conditions(m)[i]] : i \in DOMAIN Conditions(m)}
  BY <1>8
<1> QED  BY <1>8, <1>9, <1>10

LEMMA MinIsLeast ==
  ASSUME NEW T \in SUBSET Nat, T # {}
  PROVE  Min(T) \in T /\ \A n \in T : Min(T) <= n
<1>1. \E n \in T : \A m \in T : n <= m  BY LeastNumber
<1> QED  BY <1>1 DEF Min

LEMMA JudgeType ==
  ASSUME NEW m \in Matchers, NEW stage, NEW request, NEW response,
         NEW inner \in [DOMAIN Conditions(m) -> Verdicts]
  PROVE  Judge(m, stage, request, response, inner) \in Verdicts
<1>1. ASSUME NEW go \in Verdicts  PROVE UpToFirst(inner, go) \in Verdicts
  <2> DEFINE stops == {i \in DOMAIN inner : inner[i] # go}
  <2>1. DOMAIN inner = DOMAIN Conditions(m) /\ DOMAIN Conditions(m) \in SUBSET Nat
    BY MatcherConstants
  <2>2. UpToFirst(inner, go) = IF stops = {} THEN go ELSE inner[Min(stops)]
    BY DEF UpToFirst
  <2>3. ASSUME stops # {}  PROVE inner[Min(stops)] \in Verdicts
    <3>1. stops \in SUBSET Nat  BY <2>1
    <3>2. stops \subseteq DOMAIN Conditions(m)  BY <2>1
    <3> HIDE DEF stops
    <3>3. Min(stops) \in stops  BY <2>3, <3>1, MinIsLeast
    <3> QED  BY <3>2, <3>3
  <2> QED  BY <2>2, <2>3
<1>2. UpToFirst(inner, "yes") \in Verdicts /\ UpToFirst(inner, "no") \in Verdicts
  BY <1>1 DEF Verdicts
<1> QED  BY <1>2 DEF Judge, Verdicts

AreVerdicts(f, stage, request, response) ==
  f = [x \in Matchers |->
         Judge(x, stage, request, response,
               [i \in DOMAIN Conditions(x) |-> f[Conditions(x)[i]]])]

LEMMA VerdictOfMatcher ==
  ASSUME NEW m \in Matchers, NEW stage, NEW request, NEW response
  PROVE  EvalMatcher(m, stage, request, response)
           = Judge(m, stage, request, response,
                   [i \in DOMAIN Conditions(m) |->
                      EvalMatcher(Conditions(m)[i], stage, request, response)])
<1> DEFINE rule == [x \in Matchers |-> [a \in [DOMAIN Conditions(x) -> Verdicts] |->
                      Judge(x, stage, request, response, a)]]
           f == CHOOSE g : AreVerdicts(g, stage, request, response)
<1>1. \A x \in Matchers : \A a \in [DOMAIN Conditions(x) -> Verdicts] :
        rule[x][a] = Judge(x, stage, request, response, a)
  OBVIOUS
<1>2. \A x \in Matchers : \A a \in [DOMAIN Conditions(x) -> Verdicts] : rule[x][a] \in Verdicts
  BY <1>1, JudgeType
<1> HIDE DEF rule
<1>3. "no" \in Verdicts  BY DEF Verdicts
<1>4. PICK g \in [Matchers -> Verdicts] : FollowsOn(g, rule, Matchers)
  BY <1>2, <1>3, FollowerExists
<1>5. ASSUME NEW x \in Matchers
      PROVE  g[x] = Judge(x, stage, request, response,
                          [i \in DOMAIN Conditions(x) |-> g[Conditions(x)[i]]])
  <2>1. Inner(g, x) \in [DOMAIN Conditions(x) -> Verdicts]
    BY ConditionsAreLess DEF Inner
  <2>2. g[x] = rule[x][Inner(g, x)]  BY <1>4 DEF FollowsOn
  <2>3. g[x] = Judge(x, stage, request, response, Inner(g, x))  BY <1>1, <2>1, <2>2
  <2> QED  BY <2>3 DEF Inner
<1>6. AreVerdicts(g, stage, request, response)  BY <1>5 DEF AreVerdicts
<1>7. AreVerdicts(f, stage, request, response)  BY <1>6
<1>8. \A x : EvalMatcher(x, stage, request, response) = f[x]  BY DEF EvalMatcher, AreVerdicts
<1> HIDE DEF f
<1>9. f[m] = Judge(m, stage, request, response,
                   [i \in DOMAIN Conditions(m) |-> f[Conditions(m)[i]]])
  BY <1>7 DEF AreVerdicts
<1>10. [i \in DOMAIN Conditions(m) |-> f[Conditions(m)[i]]]
         = [i \in DOMAIN Conditions(m) |->
              EvalMatcher(Conditions(m)[i], stage, request, response)]
  BY <1>8
<1> QED  BY <1>8, <1>9, <1>10

(* The leaves of a matcher are all that its verdict depends on.            *)
SameLeaves(m, stage, request1, response1, request2, response2) ==
  \A p \in Parts[m] :
    /\ p.type = "regex" => ResolveField(p.field, stage, request1, response1)
                             = ResolveField(p.field, stage, request2, response2)
    /\ p.type = "script" => SeenAt(p.sight, request1, response1)
                              = SeenAt(p.sight, request2, response2)

LEMMA SameVerdict ==
  ASSUME NEW m \in Matchers, NEW stage,
         NEW request1, NEW response1, NEW request2, NEW response2,
         SameLeaves(m, stage, request1, response1, request2, response2)
  PROVE  EvalMatcher(m, stage, request1, response1) = EvalMatcher(m, stage, request2, response2)
<1> DEFINE Eval1(x) == EvalMatcher(x, stage, request1, response1)
           Eval2(x) == EvalMatcher(x, stage, request2, response2)
           Same(x) == SameLeaves(x, stage, request1, response1, request2, response2)
           Bad == {x \in Matchers : Same(x) /\ Eval1(x) # Eval2(x)}
<1>1. SUFFICES ASSUME Bad # {} PROVE FALSE  OBVIOUS
<1>2. PICK x \in Bad : \A i \in DOMAIN Conditions(x) : Conditions(x)[i] \notin Bad
  <2>1. Bad \in SUBSET Matchers  OBVIOUS
  <2> HIDE DEF Bad
  <2> QED  BY <1>1, <2>1, LeastMatcher
<1>3. x \in Matchers /\ Same(x) /\ Eval1(x) # Eval2(x)  OBVIOUS
<1> HIDE DEF Eval1, Eval2
<1>4. ASSUME NEW i \in DOMAIN Conditions(x)
      PROVE  Eval1(Conditions(x)[i]) = Eval2(Conditions(x)[i])
  <2>1. Conditions(x)[i] \in Matchers  BY <1>3, ConditionsAreLess
  <2>2. Parts[Conditions(x)[i]] \subseteq Parts[x]  BY <1>3, PartsOfMatcher
  <2>3. Same(Conditions(x)[i])  BY <1>3, <2>2 DEF SameLeaves
  <2> QED  BY <1>2, <2>1, <2>3
<1> DEFINE inner == [i \in DOMAIN Conditions(x) |-> Eval1(Conditions(x)[i])]
<1>5. inner = [i \in DOMAIN Conditions(x) |-> Eval2(Conditions(x)[i])]  BY <1>4
<1>6. Eval1(x) = Judge(x, stage, request1, response1, inner)
  BY <1>3, VerdictOfMatcher DEF Eval1
<1>7. Eval2(x) = Judge(x, stage, request2, response2, inner)
  BY <1>3, <1>5, VerdictOfMatcher DEF Eval2
<1>8. Judge(x, stage, request1, response1, inner) = Judge(x, stage, request2, response2, inner)
  <2>1. x \in Parts[x]  BY <1>3, PartsOfMatcher
  <2>2. /\ x.type = "regex" => ResolveField(x.field, stage, request1, response1)
                                 = ResolveField(x.field, stage, request2, response2)
        /\ x.type = "script" => SeenAt(x.sight, request1, response1)
                                  = SeenAt(x.sight, request2, response2)
    BY <1>3, <2>1 DEF SameLeaves
  <2> HIDE DEF inner
  <2> QED  BY <2>2 DEF Judge
<1> QED  BY <1>3, <1>6, <1>7, <1>8

(* Both messages are the same where somebody looks.                        *)
SameAt(sights, request1, response1, request2, response2) ==
  \A sight \in sights : SeenAt(sight, request1, response1) = SeenAt(sight, request2, response2)

(* The metadata of a request stand in for its headers.                     *)
SameMetadata(request1, request2) ==
  /\ "header.x" \in DOMAIN request1 /\ "header.x" \in DOMAIN request2
  /\ request1["header.x"] = {} => request1["metadata.x"] = request2["metadata.x"]

LEMMA VerdictOnSights ==
  ASSUME NEW m \in Matchers, NEW stage \in {"request", "response"},
         NEW request1, NEW response1, NEW request2, NEW response2,
         SameAt(LooksAt(m, stage), request1, response1, request2, response2),
         stage = "request" => SameMetadata(request1, request2)
  PROVE  EvalMatcher(m, stage, request1, response1) = EvalMatcher(m, stage, request2, response2)
<1>1. ASSUME NEW p \in Parts[m], p.type = "regex"
      PROVE  ResolveField(p.field, stage, request1, response1)
               = ResolveField(p.field, stage, request2, response2)
  <2>1. <<stage, p.field>> \in LooksAt(m, stage)
    BY <1>1 DEF LooksAt, SightOf, Composite
  <2>2. SeenAt(<<stage, p.field>>, request1, response1) = SeenAt(<<stage, p.field>>, request2, response2)
    BY <2>1 DEF SameAt
  <2>3. CASE stage = "response"
    BY <2>2, <2>3 DEF SeenAt, ResolveField
  <2>4. CASE stage = "request"
    <3>1. Candidates(request1, p.field) = Candidates(request2, p.field)
      BY <2>2, <2>4 DEF SeenAt
    <3>2. CASE p.field = "header.x"
      <4>1. request1["header.x"] = request2["header.x"]
        BY <2>4, <3>1, <3>2 DEF Candidates, SameMetadata
      <4> QED  BY <2>4, <3>1, <3>2, <4>1 DEF ResolveField, SameMetadata
    <3>3. CASE p.field # "header.x"
      BY <2>4, <3>1, <3>3 DEF ResolveField
    <3> QED  BY <3>2, <3>3
  <2> QED  BY <2>3, <2>4
<1>2. ASSUME NEW p \in Parts[m], p.type = "script"
      PROVE  SeenAt(p.sight, request1, response1) = SeenAt(p.sight, request2, response2)
  <2>1. p.sight \in LooksAt(m, stage)
    BY <1>2 DEF LooksAt, SightOf, Composite
  <2> QED  BY <2>1 DEF SameAt
<1>3. SameLeaves(m, stage, request1, response1, request2, response2)
  BY <1>1, <1>2 DEF SameLeaves
<1> QED  BY <1>3, SameVerdict

LEMMA FieldsAreSights ==
  ASSUME NEW m, NEW stage, NEW field \in MatcherFields(m)
  PROVE  <<stage, field>> \in LooksAt(m, stage)
BY DEF MatcherFields, LooksAt, SightOf, Composite

LEMMA VerdictWithoutTrailers ==
  ASSUME NEW m \in Matchers, ~ MatcherUsesTrailers(m),
         NEW request, NEW response1, NEW response2,
         \A field \in MatcherFields(m) \ TrailersHave :
           Candidates(response1, field) = Candidates(response2, field)
  PROVE  EvalMatcher(m, "response", request, response1)
           = EvalMatcher(m, "response", request, response2)
<1>1. ASSUME NEW p \in Parts[m], p.type = "regex"
      PROVE  ResolveField(p.field, "response", request, response1)
               = ResolveField(p.field, "response", request, response2)
  <2>1. p.field \in MatcherFields(m)  BY <1>1 DEF MatcherFields
  <2>2. p.field \notin TrailersHave  BY <2>1 DEF MatcherUsesTrailers
  <2> QED  BY <2>1, <2>2 DEF ResolveField
<1>2. \A p \in Parts[m] : p.type # "script"  BY DEF MatcherUsesTrailers, MatcherHasScript
<1>3. SameLeaves(m, "response", request, response1, request, response2)
  BY <1>1, <1>2 DEF SameLeaves
<1> QED  BY <1>3, SameVerdict

(* Two requests that differ in these fields only.                          *)
DifferIn(fields, request1, request2) ==
  /\ DOMAIN request1 = RequestFields /\ DOMAIN request2 = RequestFields
  /\ \A field \in RequestFields \ fields : request1[field] = request2[field]

(* A message and a field.                                                  *)
IsPair(sight) == sight = <<sight[1], sight[2]>> /\ sight[1] \in {"request", "response"}

LEMMA SameElsewhere ==
  ASSUME NEW fields, NEW request1, NEW request2, DifferIn(fields, request1, request2),
         NEW response, NEW sights, sights \cap ({"request"} \X fields) = {},
         \A sight \in sights : IsPair(sight)
  PROVE  SameAt(sights, request1, response, request2, response)
<1>1. ASSUME NEW sight \in sights
      PROVE  SeenAt(sight, request1, response) = SeenAt(sight, request2, response)
  <2>1. sight[1] = "request" => sight[2] \notin fields  BY <1>1 DEF IsPair
  <2>2. sight[1] = "request" => Candidates(request1, sight[2]) = Candidates(request2, sight[2])
    BY <2>1 DEF DifferIn, Candidates
  <2> QED  BY <2>2 DEF SeenAt
<1> QED  BY <1>1 DEF SameAt

LEMMA VerdictWithoutBody ==
  ASSUME NEW m \in Matchers, ~ MatcherUsesBody(m), ~ MatcherHasScript(m),
         NEW request1, NEW request2, DifferIn(BodyFields, request1, request2)
  PROVE  EvalMatcher(m, "request", request1, NoResponse)
           = EvalMatcher(m, "request", request2, NoResponse)
<1>1. ASSUME NEW p \in Parts[m], p.type = "regex"
      PROVE  ResolveField(p.field, "request", request1, NoResponse)
               = ResolveField(p.field, "request", request2, NoResponse)
  <2>1. p.field \in MatcherFields(m)  BY <1>1 DEF MatcherFields
  <2>2. p.field \notin BodyFields  BY <2>1 DEF MatcherUsesBody
  <2>3. request1["header.x"] = request2["header.x"] /\ request1["metadata.x"] = request2["metadata.x"]
    BY DEF DifferIn, RequestFields, HeaderFields, BodyFields
  <2>4. Candidates(request1, p.field) = Candidates(request2, p.field)
    BY <2>2 DEF DifferIn, Candidates
  <2> QED  BY <2>3, <2>4 DEF ResolveField
<1>2. \A p \in Parts[m] : p.type # "script"  BY DEF MatcherHasScript
<1>3. SameLeaves(m, "request", request1, NoResponse, request2, NoResponse)
  BY <1>1, <1>2 DEF SameLeaves
<1> QED  BY <1>3, SameVerdict

----------------------------------------------------------------------------
(* Rewrites                                                                *)

IsRewriting(f, request, operations) ==
  f = [n \in 0 .. Len(operations) |->
         IF n = 0 THEN [now |-> request, modified |-> FALSE]
         ELSE Operate(operations[n], f[n - 1])]

RewritesUpTo(f, request, operations, k) ==
  \A n \in 0 .. k : f[n] = IF n = 0 THEN [now |-> request, modified |-> FALSE]
                          ELSE Operate(operations[n], f[n - 1])

LEMMA RewritingExists ==
  ASSUME NEW request, NEW operations, Len(operations) \in Nat
  PROVE  \E f : IsRewriting(f, request, operations)
<1> DEFINE len == Len(operations)
           Good(k) == \E f : RewritesUpTo(f, request, operations, k)
           Bad == {k \in 0 .. len : ~ Good(k)}
<1>1. Bad = {}
  <2>1. SUFFICES ASSUME Bad # {} PROVE FALSE  OBVIOUS
  <2>2. PICK k \in Bad : \A j \in Bad : k <= j
    <3>1. Bad \in SUBSET Nat  OBVIOUS
    <3> HIDE DEF Bad
    <3> QED  BY <2>1, <3>1, LeastNumber
  <2>3. k # 0
    <3>1. RewritesUpTo([n \in {0} |-> [now |-> request, modified |-> FALSE]],
                       request, operations, 0)
      BY DEF RewritesUpTo
    <3>2. Good(0)  BY <3>1
    <3> QED  BY <3>2
  <2>4. k \in Nat /\ k - 1 \in 0 .. len /\ k - 1 \notin Bad  BY <2>2, <2>3
  <2>5. PICK f : RewritesUpTo(f, request, operations, k - 1)  BY <2>4
  <2> DEFINE g == [n \in 0 .. k |-> IF n = k THEN Operate(operations[k], f[k - 1]) ELSE f[n]]
  <2>6. \A n \in 0 .. k : g[n] = IF n = k THEN Operate(operations[k], f[k - 1]) ELSE f[n]
    OBVIOUS
  <2> HIDE DEF g, Bad
  <2>7. ASSUME NEW n \in 0 .. k
        PROVE  g[n] = IF n = 0 THEN [now |-> request, modified |-> FALSE]
                      ELSE Operate(operations[n], g[n - 1])
    <3>1. CASE n = k
      <4>1. k - 1 \in 0 .. k /\ k - 1 # k  BY <2>4
      <4>2. g[k - 1] = f[k - 1]  BY <2>6, <4>1
      <4> QED  BY <2>3, <2>6, <3>1, <4>2
    <3>2. CASE n # k
      <4>1. n \in 0 .. k - 1 /\ (n # 0 => n - 1 \in 0 .. k /\ n - 1 # k)  BY <2>4, <3>2
      <4>2. g[n] = f[n] /\ (n # 0 => g[n - 1] = f[n - 1])  BY <2>6, <3>2, <4>1
      <4> QED  BY <2>5, <4>1, <4>2 DEF RewritesUpTo
    <3> QED  BY <3>1, <3>2
  <2>8. RewritesUpTo(g, request, operations, k)  BY <2>7 DEF RewritesUpTo
  <2> QED  BY <2>8 DEF Bad
<1>2. Good(len)  BY <1>1
<1>3. PICK f : RewritesUpTo(f, request, operations, len)  BY <1>2
<1> DEFINE h == [n \in 0 .. len |-> f[n]]
<1>4. \A n \in 0 .. len : h[n] = f[n]  OBVIOUS
<1>5. h = [n \in 0 .. len |-> h[n]]  OBVIOUS
<1> HIDE DEF h
<1>6. ASSUME NEW n \in 0 .. len
      PROVE  h[n] = IF n = 0 THEN [now |-> request, modified |-> FALSE]
                    ELSE Operate(operations[n], h[n - 1])
  <2>1. n # 0 => n - 1 \in 0 .. len  OBVIOUS
  <2> QED  BY <1>3, <1>4, <2>1 DEF RewritesUpTo
<1>7. IsRewriting(h, request, operations)  BY <1>5, <1>6, Zenon DEF IsRewriting
<1> QED  BY <1>7

LEMMA RewrittenInSteps ==
  ASSUME NEW request, NEW operations, Len(operations) \in Nat
  PROVE  \E f : /\ RewritesUpTo(f, request, operations, Len(operations))
               /\ Rewritten(request, operations) = f[Len(operations)]
<1> DEFINE f == CHOOSE g : IsRewriting(g, request, operations)
<1>1. IsRewriting(f, request, operations)  BY RewritingExists
<1>2. Rewritten(request, operations) = f[Len(operations)]  BY DEF Rewritten, IsRewriting
<1> HIDE DEF f
<1>3. RewritesUpTo(f, request, operations, Len(operations))
  BY <1>1 DEF IsRewriting, RewritesUpTo
<1> QED  BY <1>2, <1>3

(* Rewrites that leave some fields alone do not ask for them.              *)
LEMMA RewriteWithoutFields ==
  ASSUME NEW operations, Len(operations) \in Nat, NEW fields,
         \A n \in 1 .. Len(operations) : Written(operations[n]) \in RequestFields \ fields,
         NEW request1, NEW request2, DifferIn(fields, request1, request2)
  PROVE  Rewritten(request1, operations).modified = Rewritten(request2, operations).modified
<1> DEFINE len == Len(operations)
<1>1. PICK f : /\ RewritesUpTo(f, request1, operations, len)
               /\ Rewritten(request1, operations) = f[len]
  BY RewrittenInSteps
<1>2. PICK g : /\ RewritesUpTo(g, request2, operations, len)
               /\ Rewritten(request2, operations) = g[len]
  BY RewrittenInSteps
<1> DEFINE Good(n) == f[n].modified = g[n].modified /\ DifferIn(fields, f[n].now, g[n].now)
           Bad == {n \in 0 .. len : ~ Good(n)}
<1>3. Bad = {}
  <2>1. SUFFICES ASSUME Bad # {} PROVE FALSE  OBVIOUS
  <2>2. PICK n \in Bad : \A j \in Bad : n <= j
    <3>1. Bad \in SUBSET Nat  OBVIOUS
    <3> HIDE DEF Bad
    <3> QED  BY <2>1, <3>1, LeastNumber
  <2>3. n # 0
    <3>1. 0 \in 0 .. len  OBVIOUS
    <3>2. f[0] = [now |-> request1, modified |-> FALSE] /\ g[0] = [now |-> request2, modified |-> FALSE]
      BY <1>1, <1>2, <3>1 DEF RewritesUpTo
    <3>3. Good(0)  BY <3>2
    <3> QED  BY <3>3
  <2>4. n \in 1 .. len /\ n - 1 \in 0 .. len /\ n - 1 \notin Bad  BY <2>2, <2>3
  <2>5. Good(n - 1)  BY <2>4
  <2>6. f[n] = Operate(operations[n], f[n - 1]) /\ g[n] = Operate(operations[n], g[n - 1])
    BY <1>1, <1>2, <2>3, <2>4 DEF RewritesUpTo
  <2> DEFINE op == operations[n]  field == Written(op)
             New(old) == CASE op.op = "remove_header" -> {}
                           [] op.op = "replace_body" -> IF op.from \in old THEN {op.value} ELSE old
                           [] OTHER -> {op.value}
  <2>7. field \in RequestFields \ fields  BY <2>4
  <2>8. ASSUME NEW message
        PROVE  Operate(op, message)
                 = [now |-> [message.now EXCEPT ![field] = New(message.now[field])],
                    modified |-> message.modified \/ op.op = "set_header"
                                   \/ New(message.now[field]) # message.now[field]]
    BY DEF Operate
  <2> HIDE DEF op, field, New
  <2>9. f[n - 1].now[field] = g[n - 1].now[field]  BY <2>5, <2>7 DEF DifferIn
  <2> DEFINE old == f[n - 1].now[field]
             new == New(old)
  <2>10. /\ f[n] = [now |-> [f[n - 1].now EXCEPT ![field] = new],
                    modified |-> f[n - 1].modified \/ op.op = "set_header" \/ new # old]
         /\ g[n] = [now |-> [g[n - 1].now EXCEPT ![field] = new],
                    modified |-> g[n - 1].modified \/ op.op = "set_header" \/ new # old]
    <3>1. f[n] = Operate(op, f[n - 1]) /\ g[n] = Operate(op, g[n - 1])  BY <2>6 DEF op
    <3>2. New(g[n - 1].now[field]) = new /\ g[n - 1].now[field] = old  BY ONLY <2>9
    <3> QED  BY ONLY <2>8, <3>1, <3>2, Zenon
  <2> HIDE DEF old, new
  <2>11. DifferIn(fields, f[n].now, g[n].now)
    BY <2>5, <2>7, <2>10 DEF DifferIn
  <2>12. f[n - 1].modified = g[n - 1].modified  BY <2>5
  <2>13. f[n].modified = g[n].modified
    BY ONLY <2>10, <2>12
  <2> QED  BY <2>11, <2>13
<1>4. Good(len)  BY <1>3
<1> QED  BY <1>1, <1>2, <1>4

(* Header operations change nothing else.                                  *)
LEMMA RewriteOfHeaders ==
  ASSUME NEW operations, Len(operations) \in Nat,
         \A n \in 1 .. Len(operations) : operations[n].op \in HeaderOperations,
         NEW request, DOMAIN request = RequestFields, NEW f0 \in RequestFields \ {"header.x"}
  PROVE  Rewritten(request, operations).now[f0] = request[f0]
<1> DEFINE len == Len(operations)
<1>1. PICK f : /\ RewritesUpTo(f, request, operations, len)
               /\ Rewritten(request, operations) = f[len]
  BY RewrittenInSteps
<1> DEFINE Good(n) == DOMAIN f[n].now = RequestFields /\ f[n].now[f0] = request[f0]
           Bad == {n \in 0 .. len : ~ Good(n)}
<1>3. Bad = {}
  <2>1. SUFFICES ASSUME Bad # {} PROVE FALSE  OBVIOUS
  <2>2. PICK n \in Bad : \A j \in Bad : n <= j
    <3>1. Bad \in SUBSET Nat  OBVIOUS
    <3> HIDE DEF Bad
    <3> QED  BY <2>1, <3>1, LeastNumber
  <2>3. n # 0
    <3>1. 0 \in 0 .. len  OBVIOUS
    <3>2. f[0] = [now |-> request, modified |-> FALSE]
      BY <1>1, <3>1 DEF RewritesUpTo
    <3>3. Good(0)  BY <3>2
    <3> QED  BY <3>3
  <2>4. n \in 1 .. len /\ n - 1 \in 0 .. len /\ n - 1 \notin Bad  BY <2>2, <2>3
  <2>5. Good(n - 1)  BY <2>4
  <2>6. f[n] = Operate(operations[n], f[n - 1])
    BY <1>1, <2>3, <2>4 DEF RewritesUpTo
  <2>7. operations[n].op \in HeaderOperations  BY <2>4
  <2>8. Written(operations[n]) = "header.x"  BY <2>7 DEF Written, HeaderOperations
  <2>9. Operate(operations[n], f[n - 1]).now
          = [f[n - 1].now EXCEPT !["header.x"] = IF operations[n].op = "remove_header" THEN {}
                                                 ELSE {operations[n].value}]
    BY <2>7, <2>8 DEF Operate, HeaderOperations
  <2> QED  BY <2>5, <2>6, <2>9
<1>4. Good(len)  BY <1>3
<1> QED  BY <1>1, <1>4

----------------------------------------------------------------------------
(* Evaluation                                                              *)

(* An evaluation depends on the verdicts of the rules it considers and on  *)
(* which of them are spent.                                                *)
LEMMA SameEvaluation ==
  ASSUME NEW rs, NEW counters1, NEW counters2, NEW protocol,
         NEW request1, NEW request2, NEW streaming1, NEW streaming2,
         \A i \in Active(rs, protocol) :
           /\ Exhausted(rs[i], counters1[i]) <=> Exhausted(rs[i], counters2[i])
           /\ streaming1 /\ MatcherUsesBody(rs[i].match)
                <=> streaming2 /\ MatcherUsesBody(rs[i].match)
           /\ EvalMatcher(rs[i].match, "request", request1, NoResponse)
                = EvalMatcher(rs[i].match, "request", request2, NoResponse)
                \/ (streaming1 /\ MatcherUsesBody(rs[i].match))
  PROVE  EvaluateRequest(rs, counters1, protocol, request1, streaming1)
           = EvaluateRequest(rs, counters2, protocol, request2, streaming2)
<1> DEFINE considered1 == {i \in Active(rs, protocol) :
                             ~ (streaming1 /\ MatcherUsesBody(rs[i].match))}
           considered2 == {i \in Active(rs, protocol) :
                             ~ (streaming2 /\ MatcherUsesBody(rs[i].match))}
           verdict1 == [i \in considered1 |->
                          EvalMatcher(rs[i].match, "request", request1, NoResponse)]
           verdict2 == [i \in considered2 |->
                          EvalMatcher(rs[i].match, "request", request2, NoResponse)]
           applies1 == {i \in considered1 : verdict1[i] = "yes" /\ ~ Exhausted(rs[i], counters1[i])}
           applies2 == {i \in considered2 : verdict2[i] = "yes" /\ ~ Exhausted(rs[i], counters2[i])}
<1>1. considered1 = considered2  OBVIOUS
<1>2. verdict1 = verdict2  BY <1>1
<1> HIDE DEF verdict1, verdict2
<1>3. \A i \in considered1 : Exhausted(rs[i], counters1[i]) <=> Exhausted(rs[i], counters2[i])
  OBVIOUS
<1> HIDE DEF considered1, considered2
<1>4. applies1 = applies2  BY <1>1, <1>2, <1>3
<1> DEFINE stops(applies) == {i \in applies : ~ IsObservation(rs[i])}
           last(applies) == IF stops(applies) = {} THEN Len(rs) ELSE Min(stops(applies))
           result(applies, considered, verdict) ==
             [intercept |-> IF stops(applies) = {} THEN 0 ELSE last(applies),
              applied   |-> {i \in applies : i <= last(applies)},
              errors    |-> {i \in considered : i <= last(applies) /\ verdict[i] = "throws"}]
<1>5. EvaluateRequest(rs, counters1, protocol, request1, streaming1)
        = result(applies1, considered1, verdict1)
  BY DEF EvaluateRequest, Walk, verdict1, considered1
<1>6. EvaluateRequest(rs, counters2, protocol, request2, streaming2)
        = result(applies2, considered2, verdict2)
  BY DEF EvaluateRequest, Walk, verdict2, considered2
<1> HIDE DEF applies1, applies2, result
<1> QED  BY <1>1, <1>2, <1>4, <1>5, <1>6

LEMMA InterceptIsActive ==
  ASSUME NEW S, NEW rs \in Seq(S), NEW counters, NEW protocol, NEW request, NEW streaming,
         EvaluateRequest(rs, counters, protocol, request, streaming).intercept # 0
  PROVE  EvaluateRequest(rs, counters, protocol, request, streaming).intercept
           \in Active(rs, protocol)
<1> DEFINE considered == {i \in Active(rs, protocol) :
                            ~ (streaming /\ MatcherUsesBody(rs[i].match))}
           verdict == [i \in considered |->
                         EvalMatcher(rs[i].match, "request", request, NoResponse)]
           applies == {i \in considered : verdict[i] = "yes" /\ ~ Exhausted(rs[i], counters[i])}
           stops == {i \in applies : ~ IsObservation(rs[i])}
<1>1. EvaluateRequest(rs, counters, protocol, request, streaming).intercept
        = IF stops = {} THEN 0 ELSE Min(stops)
  BY DEF EvaluateRequest, Walk
<1>2. stops \subseteq Active(rs, protocol)  OBVIOUS
<1>3. Active(rs, protocol) \in SUBSET Nat  BY DEF Active
<1> HIDE DEF stops
<1>4. stops # {} /\ stops \in SUBSET Nat  BY <1>1, <1>2, <1>3
<1>5. Min(stops) \in stops  BY <1>4, MinIsLeast
<1> QED  BY <1>1, <1>2, <1>4, <1>5

----------------------------------------------------------------------------
(* Rules that are stored, and bodies they need                             *)

LEMMA StoredRule ==
  ASSUME NEW rule, RuleIsValid(rule), IsTyped(rule)
  PROVE  /\ rule.protocol \in Protocols
         /\ rule.match \in Matchers
         /\ MatcherIsValid(rule.match, "request", rule.protocol)
         /\ GrpcBodyIsValid(rule)
         /\ rule.request # Nil /\ rule.request.action # Nil =>
              LET action == rule.request.action IN
              /\ RequestActionIsValid(action, rule.protocol)
              /\ action.type \in {"mock_response", "fault", "request_rewrite"}
              /\ action.type = "request_rewrite" =>
                   /\ Len(action.operations) \in Nat
                   /\ DOMAIN action.operations = 1 .. Len(action.operations)
         /\ rule.response # Nil =>
              /\ rule.response.match \in Matchers \cup {Nil}
              /\ rule.response.match # Nil =>
                   MatcherIsValid(rule.response.match, "response", rule.protocol)
              /\ rule.response.action # Nil =>
                   /\ ResponseActionIsValid(rule.response.action, rule.protocol)
                   /\ rule.response.action.type \in {"fault", "response_replace", "script_manipulator"}
                   /\ rule.response.action.type = "script_manipulator" =>
                        rule.response.action.needs \subseteq Sights
<1>1. rule.protocol \in Protocols /\ rule.match \in Matchers
      /\ MatcherIsValid(rule.match, "request", rule.protocol) /\ GrpcBodyIsValid(rule)
  BY DEF RuleIsValid, IsTyped
<1>2. ASSUME rule.request # Nil, rule.request.action # Nil
      PROVE  LET action == rule.request.action IN
             /\ RequestActionIsValid(action, rule.protocol)
             /\ action.type \in {"mock_response", "fault", "request_rewrite"}
             /\ action.type = "request_rewrite" =>
                  /\ Len(action.operations) \in Nat
                  /\ DOMAIN action.operations = 1 .. Len(action.operations)
  <2> DEFINE action == rule.request.action
  <2>1. rule.request # Malformed /\ RequestActionIsValid(action, rule.protocol)
    BY <1>2 DEF RuleIsValid, RequestStageIsValid
  <2>2. action # Malformed  BY <2>1 DEF RequestActionIsValid
  <2>3. /\ action.type \in {"mock_response", "fault", "request_rewrite"}
        /\ action.type = "request_rewrite" => IsSequence(action.operations)
    BY <1>2, <2>1, <2>2 DEF IsTyped
  <2>4. \A s : IsSequence(s) => Len(s) \in Nat /\ DOMAIN s = 1 .. Len(s)  BY DEF IsSequence
  <2> QED  BY <2>1, <2>3, <2>4
<1>3. ASSUME rule.response # Nil
      PROVE  /\ rule.response.match \in Matchers \cup {Nil}
             /\ rule.response.match # Nil =>
                  MatcherIsValid(rule.response.match, "response", rule.protocol)
             /\ rule.response.action # Nil =>
                  /\ ResponseActionIsValid(rule.response.action, rule.protocol)
                  /\ rule.response.action.type \in {"fault", "response_replace", "script_manipulator"}
                  /\ rule.response.action.type = "script_manipulator" =>
                       rule.response.action.needs \subseteq Sights
  <2>1. rule.response # Malformed /\ ResponseStageIsValid(rule.response, rule.protocol)
    BY <1>3 DEF RuleIsValid, ResponseStageIsValid
  <2>2. rule.response.action # Nil => ResponseActionIsValid(rule.response.action, rule.protocol)
    BY <2>1 DEF ResponseStageIsValid
  <2>3. rule.response.action # Nil => rule.response.action # Malformed
    BY <2>2 DEF ResponseActionIsValid
  <2> QED  BY <1>3, <2>1, <2>2, <2>3 DEF IsTyped, ResponseStageIsValid
<1> QED  BY <1>1, <1>2, <1>3

(* A sequence of stored rules.                                             *)
AreStored(rs) ==
  /\ rs \in Seq(Drafts \cup Presets)
  /\ \A i \in DOMAIN rs : RuleIsValid(rs[i])

LEMMA StoredRules ==
  ASSUME NEW rs, AreStored(rs), NEW i \in DOMAIN rs
  PROVE  RuleIsValid(rs[i]) /\ IsTyped(rs[i])
<1>1. rs[i] \in Drafts \cup Presets  BY DEF AreStored
<1> QED  BY <1>1, SimulationConstants DEF AreStored

LEMMA EffectWithoutFields ==
  ASSUME NEW rule, RuleIsValid(rule), IsTyped(rule),
         NEW fields, fields \subseteq BodyFields \cup {"grpc.messages"},
         ReplacesBody(rule) => "body" \notin fields,
         NEW request1, NEW request2, DifferIn(fields, request1, request2)
  PROVE  RequestEffect(rule, request1) = RequestEffect(rule, request2)
<1>1. CASE rule.request = Nil \/ rule.request.action = Nil
  BY <1>1 DEF RequestEffect
<1>2. CASE rule.request # Nil /\ rule.request.action # Nil
  <2> DEFINE action == rule.request.action
  <2>1. /\ action.type \in {"mock_response", "fault", "request_rewrite"}
        /\ action.type = "request_rewrite" =>
             /\ Len(action.operations) \in Nat
             /\ DOMAIN action.operations = 1 .. Len(action.operations)
    BY <1>2, StoredRule
  <2>2. CASE action.type = "request_rewrite"
    <3>1. \A n \in 1 .. Len(action.operations) :
            Written(action.operations[n]) \in RequestFields \ fields
      <4>1. TAKE n \in 1 .. Len(action.operations)
      <4> DEFINE op == action.operations[n]
      <4>2. op.op = "replace_body" => "body" \notin fields
        BY <1>2, <2>1, <2>2, <4>1 DEF ReplacesBody
      <4> HIDE DEF op
      <4>3. Written(op) \in RequestFields \ fields
        BY <4>2 DEF Written, RequestFields, HeaderFields, BodyFields
      <4> QED  BY <4>3 DEF op
    <3>2. Rewritten(request1, action.operations).modified
            = Rewritten(request2, action.operations).modified
      <4> HIDE DEF action
      <4> QED  BY <2>1, <2>2, <3>1, RewriteWithoutFields
    <3> QED  BY <1>2, <2>2, <3>2 DEF RequestEffect
  <2>3. CASE action.type # "request_rewrite"
    BY <1>2, <2>1, <2>3 DEF RequestEffect
  <2> QED  BY <2>2, <2>3
<1> QED  BY <1>1, <1>2

LEMMA SnapshotsDifferInBody ==
  ASSUME NEW t, NEW host, NEW body1, NEW body2, NEW raw1, NEW raw2
  PROVE  DifferIn(BodyFields, Snapshot(t, host, body1, raw1, FALSE), Snapshot(t, host, body2, raw2, FALSE))
<1> DEFINE s1 == Snapshot(t, host, body1, raw1, FALSE)  s2 == Snapshot(t, host, body2, raw2, FALSE)
<1>1. DOMAIN s1 = RequestFields /\ DOMAIN s2 = RequestFields  BY DEF Snapshot
<1>2. \A field \in RequestFields \ BodyFields : s1[field] = s2[field]
  BY DEF Snapshot, BodyFields
<1> QED  BY <1>1, <1>2 DEF DifferIn

(* An HTTP request with its body.                                          *)
WholeRequest(t) == Snapshot(t, t.host, t.body, Raw("http", t.body), FALSE)

(* The body of an HTTP request is read or of no use to any rule.           *)
LEMMA BodyIsReadOrUseless ==
  ASSUME NEW rs, NEW t, t.protocol = "http", ~ Refused(rs, t)
  PROVE  \/ BodyShown(rs, t) = t.body
         \/ \A i \in Active(rs, "http") : ~ NeedsRequestBody(rs[i])
BY DEF Refused, BodyShown, BodyHandling

(* So an evaluation finds what it would find if all bodies were read.      *)
LEMMA HttpEvaluation ==
  ASSUME NEW rs, AreStored(rs), NEW t, t.protocol = "http", ~ Refused(rs, t), NEW counters
  PROVE  EvaluateRequest(rs, counters, "http", RequestShown(rs, t), Streaming(rs, t))
           = EvaluateRequest(rs, counters, "http", WholeRequest(t), t.body = {})
<1>1. RequestShown(rs, t)
        = Snapshot(t, t.host, BodyShown(rs, t), Raw("http", BodyShown(rs, t)), FALSE)
  BY DEF RequestShown
<1>2. Streaming(rs, t) = (BodyShown(rs, t) = {})  BY DEF Streaming
<1>3. CASE BodyShown(rs, t) = t.body
  BY <1>1, <1>2, <1>3 DEF WholeRequest
<1>4. CASE \A i \in Active(rs, "http") : ~ NeedsRequestBody(rs[i])
  <2> DEFINE whole == WholeRequest(t)
  <2>1. DifferIn(BodyFields, RequestShown(rs, t), whole)
    BY <1>1, SnapshotsDifferInBody DEF WholeRequest
  <2> HIDE DEF whole
  <2>2. ASSUME NEW i \in Active(rs, "http")
        PROVE  /\ ~ MatcherUsesBody(rs[i].match)
               /\ EvalMatcher(rs[i].match, "request", RequestShown(rs, t), NoResponse)
                    = EvalMatcher(rs[i].match, "request", whole, NoResponse)
    <3>1. rs[i].match \in Matchers  BY StoredRules, StoredRule DEF Active
    <3>2. ~ MatcherUsesBody(rs[i].match) /\ ~ MatcherHasScript(rs[i].match)
      BY <1>4 DEF NeedsRequestBody
    <3> QED  BY <2>1, <3>1, <3>2, VerdictWithoutBody
  <2> DEFINE shown == RequestShown(rs, t)  streaming1 == Streaming(rs, t)
             streaming2 == t.body = {}
  <2> HIDE DEF streaming1, streaming2
  <2>3. \A i \in Active(rs, "http") :
          /\ Exhausted(rs[i], counters[i]) <=> Exhausted(rs[i], counters[i])
          /\ streaming1 /\ MatcherUsesBody(rs[i].match)
               <=> streaming2 /\ MatcherUsesBody(rs[i].match)
          /\ EvalMatcher(rs[i].match, "request", shown, NoResponse)
               = EvalMatcher(rs[i].match, "request", whole, NoResponse)
               \/ (streaming1 /\ MatcherUsesBody(rs[i].match))
    BY <2>2, Zenon
  <2> HIDE DEF shown
  <2>4. EvaluateRequest(rs, counters, "http", shown, streaming1)
          = EvaluateRequest(rs, counters, "http", whole, streaming2)
    BY ONLY <2>3, SameEvaluation
  <2> QED  BY <2>4 DEF whole, shown, streaming1, streaming2
<1> QED  BY <1>3, <1>4, BodyIsReadOrUseless

LEMMA HttpRequestEffect ==
  ASSUME NEW rs, AreStored(rs), NEW t, t.protocol = "http", ~ Refused(rs, t),
         NEW i \in Active(rs, "http")
  PROVE  RequestEffect(rs[i], RequestShown(rs, t))
           = RequestEffect(rs[i], WholeRequest(t))
<1>1. RequestShown(rs, t)
        = Snapshot(t, t.host, BodyShown(rs, t), Raw("http", BodyShown(rs, t)), FALSE)
  BY DEF RequestShown
<1>2. CASE BodyShown(rs, t) = t.body
  BY <1>1, <1>2 DEF WholeRequest
<1>3. CASE ~ NeedsRequestBody(rs[i])
  <2>1. RuleIsValid(rs[i]) /\ IsTyped(rs[i])  BY StoredRules DEF Active
  <2>2. ~ ReplacesBody(rs[i])  BY <1>3 DEF NeedsRequestBody
  <2>3. DifferIn(BodyFields, RequestShown(rs, t), WholeRequest(t))
    BY <1>1, SnapshotsDifferInBody DEF WholeRequest
  <2> QED  BY <2>1, <2>2, <2>3, EffectWithoutFields
<1> QED  BY <1>2, <1>3, BodyIsReadOrUseless

----------------------------------------------------------------------------
(* Every field a rule may name has a value in a full exchange              *)

LEMMA RequestFieldIsKnown ==
  ASSUME NEW field, NEW protocol \in Protocols, FieldIsValid(field, "request", protocol)
  PROVE  /\ field \in BodyFields \cup HeaderFields \cup {"method", "host", "path", "query",
                                                        "grpc.service", "grpc.method"}
         /\ field \in {"grpc.service", "grpc.method"} => protocol = "grpc"
BY DEF FieldIsValid, RequestFieldRules, Protocols, BodyFields, HeaderFields

LEMMA ResponseFieldIsKnown ==
  ASSUME NEW field, NEW protocol \in Protocols, FieldIsValid(field, "response", protocol)
  PROVE  \/ field \in BodyFields \cup HeaderFields
         \/ field = "status" /\ protocol = "http"
         \/ field \in {"grpc.status", Nameless} \cup TrailerFields /\ protocol = "grpc"
BY DEF FieldIsValid, ResponseFieldRules, Protocols, BodyFields

LEMMA NamedFieldIsValid ==
  ASSUME NEW m, NEW stage, NEW protocol, MatcherIsValid(m, stage, protocol),
         NEW field \in MatcherFields(m)
  PROVE  FieldIsValid(field, stage, protocol)
BY DEF MatcherIsValid, MatcherFields

LEMMA RawIsThere ==
  ASSUME NEW protocol, NEW texts, texts # {}
  PROVE  Raw(protocol, texts) # {}
<1>1. PICK v : v \in texts  OBVIOUS
<1>2. Base64(v) \in {Base64(w) : w \in texts}  BY <1>1
<1>3. Framed(v) \in {Framed(w) : w \in texts}  BY <1>1
<1>4. Base64(Framed(v)) \in {Base64(w) : w \in {Framed(u) : u \in texts}}  BY <1>3
<1> QED  BY <1>2, <1>4 DEF Raw, Encoded

LEMMA FullRequestHasField ==
  ASSUME NEW rs, AreStored(rs), NEW i \in DOMAIN rs, rs[i].enabled,
         NEW field \in MatcherFields(rs[i].match),
         NEW t \in Traffic, t.protocol = rs[i].protocol, IsFull(t)
  PROVE  ResolveField(field, "request", RequestShown(rs, t), NoResponse) # {}
<1> DEFINE shown == RequestShown(rs, t)
<1>1. /\ rs[i].protocol \in Protocols
      /\ MatcherIsValid(rs[i].match, "request", rs[i].protocol)
  BY StoredRules, StoredRule
<1>2. FieldIsValid(field, "request", rs[i].protocol)  BY <1>1, NamedFieldIsValid
<1>3. /\ field \in BodyFields \cup HeaderFields \cup {"method", "host", "path", "query",
                                                     "grpc.service", "grpc.method"}
      /\ field \in {"grpc.service", "grpc.method"} => t.protocol = "grpc"
  BY <1>1, <1>2, RequestFieldIsKnown
<1>4. field \in RequestFields  BY <1>3 DEF RequestFields
<1>5. DOMAIN shown = RequestFields  BY DEF RequestShown, Snapshot
<1>6. ASSUME field \in BodyFields  PROVE BodyShown(rs, t) # {}
  <2>1. CASE t.protocol = "http"
    <3>1. i \in Active(rs, "http")  BY <2>1 DEF Active
    <3>2. NeedsRequestBody(rs[i])  BY <1>6 DEF NeedsRequestBody, MatcherUsesBody
    <3>3. BodyHandling(rs, t) = "read"  BY <3>1, <3>2 DEF BodyHandling, IsFull
    <3> QED  BY <2>1, <3>3 DEF BodyShown, IsFull
  <2>2. CASE t.protocol = "grpc"
    BY <2>2 DEF BodyShown, IsFull
  <2> QED  BY <1>1, <2>1, <2>2 DEF Protocols
<1>7. /\ {} \notin {t.method, t.host, t.path, t.query}
      /\ \A f \in HeaderFields : t.header[f] # {}
  BY DEF IsFull
<1>8. shown[field] # {}
  <2>1. CASE field \in BodyFields
    <3>1. shown[field] \in {BodyShown(rs, t), Raw(t.protocol, BodyShown(rs, t))}
      BY <1>4, <2>1 DEF RequestShown, Snapshot, BodyFields, HeaderFields
    <3> QED  BY <1>6, <2>1, <3>1, RawIsThere
  <2>2. CASE field \in {"method", "host", "path", "query"}
    BY <1>4, <1>7, <2>2 DEF RequestShown, Snapshot, BodyFields, HeaderFields
  <2>3. CASE field \in HeaderFields
    <3>1. shown[field] = t.header[field]
      BY <1>4, <2>3 DEF RequestShown, Snapshot, BodyFields, HeaderFields
    <3> QED  BY <1>7, <2>3, <3>1
  <2>4. CASE field \in {"grpc.service", "grpc.method"}
    <3>1. shown[field] = t.path
      BY <1>3, <1>4, <2>4 DEF RequestShown, Snapshot, BodyFields, HeaderFields
    <3> QED  BY <1>7, <3>1
  <2> QED  BY <1>3, <2>1, <2>2, <2>3, <2>4
<1> HIDE DEF shown
<1>9. Candidates(shown, field) # {}  BY <1>4, <1>5, <1>8 DEF Candidates
<1>10. ~ (field = "header.x" /\ shown["header.x"] = {})  BY <1>8
<1> QED  BY <1>9, <1>10 DEF ResolveField, shown

LEMMA FullReplyHasField ==
  ASSUME NEW rule, RuleIsValid(rule), IsTyped(rule),
         rule.response # Nil, rule.response.match # Nil,
         NEW field \in MatcherFields(rule.response.match) \ {Nameless},
         NEW t \in Traffic, t.protocol = rule.protocol, IsFull(t), NEW request
  PROVE  ResolveField(field, "response", request, ReplyShown(rule, t)) # {}
<1>1. /\ rule.protocol \in Protocols
      /\ MatcherIsValid(rule.response.match, "response", rule.protocol)
  BY StoredRule
<1>2. FieldIsValid(field, "response", rule.protocol)  BY <1>1, NamedFieldIsValid
<1>3. \/ field \in BodyFields \cup HeaderFields
      \/ field = "status" /\ t.protocol = "http"
      \/ field \in {"grpc.status"} \cup TrailerFields /\ t.protocol = "grpc"
  BY <1>1, <1>2, ResponseFieldIsKnown
<1>4. ReplyShown(rule, t) = WholeReply(t)
  BY DEF ReplyShown, Relayed, IsFull
<1>5. field \in ResponseFields  BY <1>3 DEF ResponseFields
<1>6. /\ {} \notin {t.status, t.replyBody}
      /\ \A f \in HeaderFields : t.replyHeader[f] # {}
      /\ t.protocol = "grpc" =>
           ~ t.trailersOnly /\ t.grpcStatus # {} /\ \A f \in TrailerFields : t.trailer[f] # {}
  BY DEF IsFull
<1>7. WholeReply(t)[field] # {}
  <2>1. CASE field \in BodyFields
    <3>1. WholeReply(t)[field] \in {t.replyBody, Raw(t.protocol, t.replyBody)}
      BY <1>5, <2>1 DEF WholeReply, BodyFields, HeaderFields
    <3> QED  BY <1>6, <3>1, RawIsThere
  <2>2. CASE field \in HeaderFields
    <3>1. WholeReply(t)[field] = t.replyHeader[field]
      BY <1>5, <2>2 DEF WholeReply, HeaderFields
    <3> QED  BY <1>6, <2>2, <3>1
  <2>3. CASE field = "status"
    BY <1>5, <1>6, <2>3 DEF WholeReply, HeaderFields
  <2>4. CASE field = "grpc.status" /\ t.protocol = "grpc"
    BY <1>5, <1>6, <2>4 DEF WholeReply, ReplyOfCall, HeaderFields
  <2>5. CASE field \in TrailerFields /\ t.protocol = "grpc"
    <3>1. WholeReply(t)[field] = t.trailer[field]
      BY <1>5, <1>6, <2>5 DEF WholeReply, ReplyOfCall, HeaderFields, TrailerFields
    <3> QED  BY <1>6, <2>5, <3>1
  <2> QED  BY <1>3, <2>1, <2>2, <2>3, <2>4, <2>5
<1> QED  BY <1>4, <1>5, <1>7 DEF ResolveField, Candidates, WholeReply

LEMMA FaultsFitProtocol ==
  ASSUME NEW rule, RuleIsValid(rule), IsTyped(rule)
  PROVE  Faults(rule) \cap (IF rule.protocol = "http" THEN {"grpc_status"}
                           ELSE {"http_response"}) = {}
<1>1. ASSUME NEW kind \in Faults(rule)
      PROVE  /\ kind = "http_response" => rule.protocol = "http"
             /\ kind = "grpc_status" => rule.protocol = "grpc"
  <2>1. PICK stage \in {rule.request, rule.response} \ {Nil} :
          stage.action # Nil /\ stage.action.type = "fault" /\ kind = stage.action.fault.kind
    BY DEF Faults
  <2>2. FaultIsValid(stage.action.fault, rule.protocol)
    <3>1. CASE stage = rule.request
      BY <2>1, <3>1, StoredRule DEF RequestActionIsValid
    <3>2. CASE stage = rule.response
      BY <2>1, <3>2, StoredRule DEF ResponseActionIsValid
    <3> QED  BY <3>1, <3>2
  <2> QED  BY <2>1, <2>2 DEF FaultIsValid
<1> QED  BY <1>1

LEMMA GrpcRewritesKeepTheRest ==
  ASSUME NEW rs, NEW rule, RuleIsValid(rule), IsTyped(rule),
         rule.protocol = "grpc", rule.request # Nil, rule.request.action # Nil,
         rule.request.action.type = "request_rewrite",
         NEW t, NEW field \in {"path", "query", "body"}
  PROVE  Rewritten(RequestShown(rs, t), rule.request.action.operations).now[field]
           = RequestShown(rs, t)[field]
<1> DEFINE operations == rule.request.action.operations
           shown == RequestShown(rs, t)
<1>1. /\ Len(operations) \in Nat
      /\ DOMAIN operations = 1 .. Len(operations)
      /\ RewriteIsValid(operations, "grpc")
  BY StoredRule DEF RequestActionIsValid
<1>2. DOMAIN shown = RequestFields  BY DEF RequestShown, Snapshot
<1>3. field \in RequestFields \ {"header.x"}  BY DEF RequestFields, BodyFields, HeaderFields
<1> HIDE DEF operations, shown
<1>4. \A n \in 1 .. Len(operations) : operations[n].op \in HeaderOperations
  BY <1>1 DEF RewriteIsValid
<1>5. Rewritten(shown, operations).now[field] = shown[field]
  BY <1>1, <1>2, <1>3, <1>4, RewriteOfHeaders
<1> QED  BY <1>5 DEF operations, shown

(* Only a mock whose messages do not fit fails.                            *)
LEMMA OnlyMisfitsFail ==
  ASSUME NEW rs, NEW counters, NEW t, Live(rs, counters, t).effect = "failed",
         NEW i, i # 0, Live(rs, counters, t).intercept = i
  PROVE  Messages(rs[i]) = "misfit"
<1> DEFINE request == RequestShown(rs, t)
           e == EvaluateRequest(rs, counters, t.protocol, request, Streaming(rs, t))
           rule == rs[e.intercept]
           first == LiveRequestEffect(rule, t, request)
           second == LiveResponseEffect(rule, t, request)
<1>1. e.intercept = i  BY DEF Live, LiveOn, LiveOf, Outcome
<1>2. second # "failed"
  <2>1. \A action, protocol, seen, response, outgoing :
          ResponseEffect(action, protocol, seen, response, outgoing) # "failed"
    BY DEF ResponseEffect, PatchEffect
  <2>2. RelayedPatchEffect(rule, t, request) # "failed"  BY <2>1 DEF RelayedPatchEffect
  <2> QED  BY <2>1, <2>2 DEF LiveResponseEffect
<1>3. first = "failed"
  <2> HIDE DEF e, first, second
  <2>1. Live(rs, counters, t).effect \in {first, second}
    BY <1>1 DEF Live, LiveOn, LiveOf, Outcome, first, second, e
  <2> QED  BY <1>2, <2>1
<1>4. RequestEffect(rule, request) # "failed"
  BY DEF RequestEffect
<1>5. Messages(rule) = "misfit"  BY <1>3, <1>4 DEF LiveRequestEffect
<1> QED  BY <1>1, <1>5

----------------------------------------------------------------------------
(* The inductive invariant: the rules are valid ones, the last step is what*)
(* the evaluation of an exchange or a simulation came to, and the log entry*)
(* tells of an exchange under the rules it holds.                          *)

EntryTells(t, counters) ==
  LET came == Live(entry.rules, counters, t) IN
  /\ ~ Refused(entry.rules, t)
  /\ entry.intercept = came.intercept
  /\ entry.protocol = t.protocol
  /\ entry.verdict = came.verdict
  /\ \E body \in {{}, BodyShown(entry.rules, t)} : entry.request = LoggedRequest(t, body)
  /\ entry.reply # Nil =>
       /\ came.effect \notin Ends \cup {"modified"}
       /\ \E body \in {{}, t.replyBody} :
            /\ entry.reply = LoggedReply(t, body)
            /\ body = {} \/ (~ Relayed(t) /\ ~ t.unbuffered)

EntryIsReal == entry # Nil => \E t \in Traffic : \E counters : EntryTells(t, counters)

ExchangeIsReal ==
  step.kind = "exchange" =>
    /\ step.traffic \in Traffic
    /\ ~ Refused(rules, step.traffic)
    /\ step.came = Live(rules, step.counters, step.traffic)

SampleIsReal ==
  step.kind = "sample" =>
    LET t == step.traffic  reply == SampledReply(t) IN
    /\ t \in Traffic
    /\ step.whole =>
         reply # Nil /\ step.came = Simulated(consumed, t.protocol, Sampled(t), reply, FALSE)

LogIsReal ==
  step.kind = "log" =>
    /\ entry # Nil
    /\ \E reply \in RepliesOf(entry) :
         step.came = Simulated(consumed, entry.protocol, entry.request, reply, reply["body"] = {})

SimulationInv ==
  /\ AreStored(rules)
  /\ EntryIsReal
  /\ ExchangeIsReal
  /\ SampleIsReal
  /\ LogIsReal

LEMMA InitInv == Init => SimulationInv
<1> SUFFICES ASSUME Init PROVE SimulationInv  OBVIOUS
<1>1. AreStored(rules)
  <2>1. rules \in InitialRules  BY DEF Init
  <2>2. IsSequence(rules)  BY <2>1, SimulationConstants
  <2>3. \A i \in DOMAIN rules : rules[i] \in Presets  BY <2>1 DEF Presets
  <2>4. rules \in Seq(Presets)  BY <2>2, <2>3 DEF IsSequence
  <2>5. rules \in Seq(Drafts \cup Presets)  BY <2>3, <2>4
  <2> QED  BY <2>3, <2>5, SimulationConstants DEF AreStored
<1>2. entry = Nil /\ step.kind = "start"  BY DEF Init
<1> QED
  BY <1>1, <1>2
  DEF SimulationInv, EntryIsReal, ExchangeIsReal, SampleIsReal, LogIsReal

LEMMA CreateRuleInv ==
  ASSUME SimulationInv, NEW draft \in Drafts, CreateRule(draft)
  PROVE  SimulationInv'
<1>1. AreStored(rules')
  <2>1. rules' = Append(rules, draft) /\ RuleIsValid(draft)  BY DEF CreateRule
  <2>2. rules \in Seq(Drafts \cup Presets) /\ draft \in Drafts \cup Presets
    BY DEF SimulationInv, AreStored
  <2>3. rules' \in Seq(Drafts \cup Presets)  BY <2>1, <2>2
  <2>4. ASSUME NEW i \in DOMAIN rules'  PROVE RuleIsValid(rules'[i])
    <3>1. (i \in DOMAIN rules /\ rules'[i] = rules[i]) \/ rules'[i] = draft
      BY <2>1, <2>2
    <3> QED  BY <2>1, <3>1 DEF SimulationInv, AreStored
  <2> QED  BY <2>3, <2>4 DEF AreStored
<1>2. entry' = entry /\ step'.kind = "rule"  BY DEF CreateRule
<1>3. EntryIsReal'  BY <1>2 DEF SimulationInv, EntryIsReal, EntryTells
<1> QED
  BY <1>1, <1>2, <1>3 DEF SimulationInv, AreStored, ExchangeIsReal, SampleIsReal, LogIsReal

LEMMA ExchangeInv ==
  ASSUME SimulationInv, NEW t \in Traffic, Exchange(t)
  PROVE  SimulationInv'
<1> DEFINE came == Live(rules, consumed, t)
<1>1. rules' = rules  BY DEF Exchange
<1>2. AreStored(rules)'  BY <1>1 DEF SimulationInv, AreStored
<1>3. CASE Refused(rules, t)
  <2>1. entry' = entry /\ step'.kind = "refused"  BY <1>3 DEF Exchange
  <2>2. EntryIsReal'  BY <2>1 DEF SimulationInv, EntryIsReal, EntryTells
  <2> QED
    BY <1>2, <2>1, <2>2 DEF SimulationInv, ExchangeIsReal, SampleIsReal, LogIsReal
<1>4. CASE ~ Refused(rules, t)
  <2>1. /\ step' = [kind |-> "exchange", traffic |-> t, counters |-> consumed, came |-> came]
        /\ entry' \in {entry, EntryOf(t, came)}
    BY <1>4 DEF Exchange
  <2> HIDE DEF came
  <2>2. EntryIsReal'
    <3>1. CASE entry' = entry
      BY <3>1 DEF SimulationInv, EntryIsReal, EntryTells
    <3>2. CASE entry' = EntryOf(t, came)
      <4>1. /\ entry'.rules = rules
            /\ entry'.intercept = came.intercept
            /\ entry'.protocol = t.protocol
            /\ entry'.verdict = came.verdict
            /\ entry'.request
                 = LoggedRequest(t, IF Persisted(came) THEN BodyShown(rules, t) ELSE {})
            /\ entry'.reply
                 = IF came.effect \in Ends \cup {"modified"} THEN Nil
                   ELSE LoggedReply(t, IF Persisted(came) /\ ~ Relayed(t) /\ ~ t.unbuffered
                                       THEN t.replyBody ELSE {})
        BY <3>2 DEF EntryOf
      <4>2. \E body \in {{}, BodyShown(rules, t)} : entry'.request = LoggedRequest(t, body)
        BY <4>1
      <4>3. entry'.reply # Nil =>
              /\ came.effect \notin Ends \cup {"modified"}
              /\ \E body \in {{}, t.replyBody} :
                   /\ entry'.reply = LoggedReply(t, body)
                   /\ body = {} \/ (~ Relayed(t) /\ ~ t.unbuffered)
        BY <4>1
      <4>4. PICK counters : counters = consumed  OBVIOUS
      <4>5. EntryTells(t, counters)'
        BY <1>4, <4>1, <4>2, <4>3, <4>4 DEF EntryTells, came
      <4> QED  BY <4>5 DEF EntryIsReal
    <3> QED  BY <2>1, <3>1, <3>2
  <2>3. ExchangeIsReal'
    BY <1>1, <1>4, <2>1 DEF ExchangeIsReal, came
  <2>4. step'.kind = "exchange"  BY <2>1
  <2> QED
    BY <1>2, <2>2, <2>3, <2>4 DEF SimulationInv, SampleIsReal, LogIsReal
<1> QED  BY <1>3, <1>4

LEMMA SimulateSampleInv ==
  ASSUME SimulationInv, NEW t \in Traffic, SimulateSample(t)
  PROVE  SimulationInv'
<1>1. rules' = rules /\ consumed' = consumed /\ entry' = entry  BY DEF SimulateSample
<1>2. PICK reply \in {SampledReply(t), Nil} :
        step' = [kind |-> "sample", traffic |-> t, whole |-> reply # Nil,
                 came |-> Simulated(consumed, t.protocol, Sampled(t), reply, FALSE)]
  BY DEF SimulateSample
<1>3. step'.kind = "sample" /\ step'.traffic = t
  BY <1>2
<1>4. step'.whole => SampledReply(t) # Nil /\ reply = SampledReply(t)  BY <1>2
<1>5. step'.came = Simulated(consumed, t.protocol, Sampled(t), reply, FALSE)  BY <1>2
<1>6. Simulated(consumed, t.protocol, Sampled(t), reply, FALSE)
        = Simulated(consumed, t.protocol, Sampled(t), reply, FALSE)'
  BY <1>1 DEF Simulated
<1>7. SampleIsReal'
  BY <1>3, <1>4, <1>5, <1>6 DEF SampleIsReal
<1>8. EntryIsReal'  BY <1>1 DEF SimulationInv, EntryIsReal, EntryTells
<1> QED
  BY <1>1, <1>3, <1>7, <1>8
  DEF SimulationInv, AreStored, ExchangeIsReal, LogIsReal

LEMMA SimulateLogInv ==
  ASSUME SimulationInv, SimulateLog
  PROVE  SimulationInv'
<1>1. rules' = rules /\ consumed' = consumed /\ entry' = entry /\ entry # Nil  BY DEF SimulateLog
<1>2. PICK reply \in RepliesOf(entry) :
        step' = [kind |-> "log",
                 came |-> Simulated(consumed, entry.protocol, entry.request, reply,
                                    reply["body"] = {})]
  BY DEF SimulateLog
<1>3. step'.kind = "log"
      /\ step'.came = Simulated(consumed, entry.protocol, entry.request, reply, reply["body"] = {})
  BY <1>2
<1>4. Simulated(consumed, entry.protocol, entry.request, reply, reply["body"] = {})
        = Simulated(consumed, entry.protocol, entry.request, reply, reply["body"] = {})'
  BY <1>1 DEF Simulated
<1>5. LogIsReal'
  BY <1>1, <1>3, <1>4 DEF LogIsReal
<1>6. EntryIsReal'  BY <1>1 DEF SimulationInv, EntryIsReal, EntryTells
<1> QED
  BY <1>1, <1>3, <1>5, <1>6
  DEF SimulationInv, AreStored, ExchangeIsReal, SampleIsReal

LEMMA StutterInv ==
  ASSUME SimulationInv, UNCHANGED vars
  PROVE  SimulationInv'
BY DEF SimulationInv, vars, AreStored, EntryIsReal, EntryTells, ExchangeIsReal, SampleIsReal,
       LogIsReal, Simulated

(* However rules are created and exchanges pass, only rules that were      *)
(* validated are stored, and the log holds what an evaluation came to.     *)
THEOREM StepsAreReal == Spec => []SimulationInv
<1>1. SimulationInv /\ [Next]_vars => SimulationInv'
  BY CreateRuleInv, ExchangeInv, SimulateSampleInv, SimulateLogInv, StutterInv DEF Next
<1> QED  BY InitInv, <1>1, PTL DEF Spec

----------------------------------------------------------------------------
(* What the invariant says of the properties                               *)

LEMMA LiveIsEvaluated ==
  ASSUME NEW rs, NEW counters, NEW t
  PROVE  LET e == EvaluateRequest(rs, counters, t.protocol, RequestShown(rs, t), Streaming(rs, t))
             came == Live(rs, counters, t)
         IN  /\ came.intercept = e.intercept
             /\ came.applied = e.applied
             /\ came.errors = e.errors
BY DEF Live, LiveOn, LiveOf, Outcome

(* What an exchange comes to depends on where scripts look, besides the    *)
(* rules that apply.                                                       *)
LEMMA SamePatch ==
  ASSUME NEW action, NEW request1, NEW response1, NEW request2, NEW response2,
         SameAt(action.needs, request1, response1, request2, response2), NEW fails, NEW changes
  PROVE  PatchEffect(action, request1, response1, fails, changes)
           = PatchEffect(action, request2, response2, fails, changes)
BY DEF PatchEffect, SameAt

LEMMA SameResponseEffect ==
  ASSUME NEW action,
         action = Nil \/ action.type \in {"fault", "response_replace", "script_manipulator"},
         NEW request1, NEW request2, NEW response,
         action # Nil /\ action.type = "script_manipulator" =>
           SameAt(action.needs, request1, response, request2, response),
         NEW protocol, NEW outgoing
  PROVE  ResponseEffect(action, protocol, request1, response, outgoing)
           = ResponseEffect(action, protocol, request2, response, outgoing)
<1>1. CASE action # Nil /\ action.type = "script_manipulator"
  <2>1. \A fails, changes : PatchEffect(action, request1, response, fails, changes)
                              = PatchEffect(action, request2, response, fails, changes)
    BY <1>1, SamePatch
  <2> QED  BY <2>1 DEF ResponseEffect
<1>2. CASE action = Nil \/ action.type \in {"fault", "response_replace"}
  BY <1>2 DEF ResponseEffect
<1> QED  BY <1>1, <1>2

(* Scripts look at pairs of a message and a field of it.                   *)
LEMMA PartsAreMatchers ==
  ASSUME NEW m \in Matchers
  PROVE  Parts[m] \subseteq Matchers
<1> DEFINE Bad == {x \in Matchers : ~ (Parts[x] \subseteq Matchers)}
<1>1. SUFFICES ASSUME Bad # {} PROVE FALSE  OBVIOUS
<1>2. PICK x \in Bad : \A i \in DOMAIN Conditions(x) : Conditions(x)[i] \notin Bad
  <2>1. Bad \in SUBSET Matchers  OBVIOUS
  <2> HIDE DEF Bad
  <2> QED  BY <1>1, <2>1, LeastMatcher
<1>3. \A i \in DOMAIN Conditions(x) : Parts[Conditions(x)[i]] \subseteq Matchers
  BY <1>2, ConditionsAreLess
<1> QED  BY <1>2, <1>3, PartsOfMatcher

LEMMA SightsArePairs ==
  ASSUME NEW m \in Matchers, NEW stage \in {"request", "response"}, NEW protocol,
         MatcherIsValid(m, stage, protocol)
  PROVE  \A sight \in LooksAt(m, stage) : IsPair(sight)
<1>1. ASSUME NEW p \in Parts[m]  PROVE IsPair(SightOf(p, stage))
  <2>1. p \in Matchers /\ p # Malformed  BY PartsAreMatchers DEF MatcherIsValid
  <2>2. p.type = "script" => p.sight \in Sights  BY <2>1, ScriptConstants
  <2>3. \A sight \in Sights : IsPair(sight)  BY DEF Sights, IsPair
  <2>4. IsPair(<<stage, p.field>>)  BY DEF IsPair
  <2> QED  BY <2>2, <2>3, <2>4 DEF SightOf
<1> QED  BY <1>1 DEF LooksAt

LEMMA LateSightsArePairs ==
  ASSUME NEW rule, RuleIsValid(rule), IsTyped(rule)
  PROVE  \A sight \in LooksLateAt(rule) : IsPair(sight)
<1>1. rule.response # Nil /\ rule.response.match # Nil =>
        \A sight \in LooksAt(rule.response.match, "response") : IsPair(sight)
  BY StoredRule, SightsArePairs
<1>2. Manipulates(rule) => rule.response.action.needs \subseteq Sights
  BY StoredRule DEF Manipulates
<1>3. \A sight \in Sights : IsPair(sight)  BY DEF Sights, IsPair
<1> QED  BY <1>1, <1>2, <1>3 DEF LooksLateAt

(* A response stage that looks at none of the fields two requests differ   *)
(* in does the same after both.                                            *)
LEMMA SameResponseStage ==
  ASSUME NEW rule, RuleIsValid(rule), IsTyped(rule), rule.response # Nil, NEW fields,
         LooksLateAt(rule) \cap ({"request"} \X fields) = {},
         NEW request1, NEW request2, DifferIn(fields, request1, request2), NEW response
  PROVE  /\ ResponseVerdict(rule, request1, response) = ResponseVerdict(rule, request2, response)
         /\ \A protocol, outgoing :
              ResponseEffect(rule.response.action, protocol, request1, response, outgoing)
                = ResponseEffect(rule.response.action, protocol, request2, response, outgoing)
<1> DEFINE late == LooksLateAt(rule)
<1>1. SameAt(late, request1, response, request2, response)
  <2>1. \A sight \in late : IsPair(sight)  BY LateSightsArePairs
  <2>2. late \cap ({"request"} \X fields) = {}  OBVIOUS
  <2> HIDE DEF late
  <2> QED  BY <2>1, <2>2, SameElsewhere
<1>2. ResponseVerdict(rule, request1, response) = ResponseVerdict(rule, request2, response)
  <2>1. CASE rule.response.match = Nil
    BY <2>1 DEF ResponseVerdict
  <2>2. CASE rule.response.match # Nil
    <3>1. rule.response.match \in Matchers  BY <2>2, StoredRule
    <3>2. LooksAt(rule.response.match, "response") \subseteq late  BY <2>2 DEF LooksLateAt
    <3>3. SameAt(LooksAt(rule.response.match, "response"), request1, response, request2, response)
      BY <1>1, <3>2 DEF SameAt
    <3>4. EvalMatcher(rule.response.match, "response", request1, response)
            = EvalMatcher(rule.response.match, "response", request2, response)
      BY <3>1, <3>3, VerdictOnSights
    <3> QED  BY <2>2, <3>4 DEF ResponseVerdict
  <2> QED  BY <2>1, <2>2
<1>3. ASSUME NEW protocol, NEW outgoing
      PROVE  ResponseEffect(rule.response.action, protocol, request1, response, outgoing)
               = ResponseEffect(rule.response.action, protocol, request2, response, outgoing)
  <2> DEFINE action == rule.response.action
  <2>1. action = Nil \/ action.type \in {"fault", "response_replace", "script_manipulator"}
    BY StoredRule
  <2>2. ASSUME action # Nil, action.type = "script_manipulator"
        PROVE  SameAt(action.needs, request1, response, request2, response)
    <3>1. action.needs \subseteq late  BY <2>2 DEF LooksLateAt, Manipulates
    <3> QED  BY <1>1, <3>1 DEF SameAt
  <2> HIDE DEF action
  <2>3. ResponseEffect(action, protocol, request1, response, outgoing)
          = ResponseEffect(action, protocol, request2, response, outgoing)
    BY <2>1, <2>2, SameResponseEffect
  <2> QED  BY <2>3 DEF action
<1> QED  BY <1>2, <1>3

(* The same of a whole exchange that is not relayed.                       *)
LEMMA SameOutcome ==
  ASSUME NEW e, NEW rule, NEW t, ~ Relayed(t), NEW request1, NEW request2,
         e.intercept # 0 =>
           LiveRequestEffect(rule, t, request1) = LiveRequestEffect(rule, t, request2),
         e.intercept # 0 /\ rule.response # Nil =>
           /\ ResponseVerdict(rule, request1, ReplyShown(rule, t))
                = ResponseVerdict(rule, request2, ReplyShown(rule, t))
           /\ \A outgoing :
                ResponseEffect(rule.response.action, t.protocol, request1, ReplyShown(rule, t), outgoing)
                  = ResponseEffect(rule.response.action, t.protocol, request2, ReplyShown(rule, t), outgoing)
  PROVE  LiveOf(e, rule, t, request1) = LiveOf(e, rule, t, request2)
<1> DEFINE first(request) == IF e.intercept = 0 THEN "none" ELSE LiveRequestEffect(rule, t, request)
           asked(request) == e.intercept # 0 /\ first(request) \notin Ends /\ rule.response # Nil
           verdict(request) == IF asked(request) THEN ResponseVerdict(rule, request, ReplyShown(rule, t))
                               ELSE "unasked"
           second(request) == IF verdict(request) = "yes" THEN LiveResponseEffect(rule, t, request)
                              ELSE "none"
<1>1. first(request1) = first(request2)  OBVIOUS
<1>2. asked(request1) <=> asked(request2)  BY <1>1
<1>3. ASSUME asked(request1)
      PROVE  LiveResponseEffect(rule, t, request1) = LiveResponseEffect(rule, t, request2)
  BY <1>3 DEF LiveResponseEffect
<1>4. verdict(request1) = verdict(request2)  BY <1>2
<1>5. second(request1) = second(request2)
  <2>1. verdict(request1) = "yes" => asked(request1)  OBVIOUS
  <2> HIDE DEF verdict, asked
  <2> QED  BY <1>3, <1>4, <2>1
<1>6. ASSUME NEW request
      PROVE  LiveOf(e, rule, t, request)
               = Outcome(e, first(request), verdict(request), second(request))
  BY DEF LiveOf
<1> HIDE DEF first, verdict, second
<1> QED  BY <1>1, <1>4, <1>5, <1>6

LEMMA InvImpliesBody == SimulationInv => BodyIsReadWhenItMatters
<1> SUFFICES ASSUME SimulationInv, step.kind = "exchange", step.traffic.protocol = "http"
             PROVE  LET would == Unabridged(step.counters, step.traffic)
                        late == would.intercept # 0 /\ ReadsBodyLate(rules[would.intercept])
                    IN  /\ step.came.intercept = would.intercept
                        /\ step.came.applied = would.applied
                        /\ step.came.errors = would.errors
                        /\ ~ late => step.came.verdict = would.verdict /\ step.came.effect = would.effect
  BY DEF BodyIsReadWhenItMatters
<1> DEFINE t == step.traffic
           shown == RequestShown(rules, t)
           whole == WholeRequest(t)
           e == EvaluateRequest(rules, step.counters, "http", whole, t.body = {})
           rule == rules[e.intercept]
<1>1. AreStored(rules) /\ ~ Refused(rules, t) /\ step.came = Live(rules, step.counters, t)
  BY DEF SimulationInv, ExchangeIsReal
<1>2. e = EvaluateRequest(rules, step.counters, "http", shown, Streaming(rules, t))
  BY <1>1, HttpEvaluation
<1>3. Unabridged(step.counters, t) = LiveOf(e, rule, t, whole)
  BY DEF Unabridged, LiveOn, WholeRequest
<1>4. step.came = LiveOf(e, rule, t, shown)
  BY <1>1, <1>2 DEF Live, LiveOn
<1>5. ASSUME NEW request
      PROVE  LET came == LiveOf(e, rule, t, request)
             IN  came.intercept = e.intercept /\ came.applied = e.applied /\ came.errors = e.errors
  BY DEF LiveOf, Outcome
<1>6. e.intercept # 0 => e.intercept \in Active(rules, "http")
  BY <1>1, InterceptIsActive DEF AreStored
<1>7. shown = Snapshot(t, t.host, BodyShown(rules, t), Raw("http", BodyShown(rules, t)), FALSE)
  BY DEF RequestShown
<1>8. DifferIn(BodyFields, shown, whole)
  BY <1>7, SnapshotsDifferInBody DEF WholeRequest
<1>9. ~ Relayed(t)  BY DEF Relayed
<1> HIDE DEF shown, whole, e
<1>10. ASSUME e.intercept # 0
       PROVE  LiveRequestEffect(rule, t, shown) = LiveRequestEffect(rule, t, whole)
  <2>1. RequestEffect(rule, shown) = RequestEffect(rule, whole)
    BY <1>1, <1>6, <1>10, HttpRequestEffect DEF shown, whole
  <2> QED  BY <2>1 DEF LiveRequestEffect
<1>11. ASSUME ~ (e.intercept # 0 /\ ReadsBodyLate(rule))
       PROVE  LiveOf(e, rule, t, shown) = LiveOf(e, rule, t, whole)
  <2>1. ASSUME e.intercept # 0, rule.response # Nil
        PROVE  /\ ResponseVerdict(rule, shown, ReplyShown(rule, t))
                    = ResponseVerdict(rule, whole, ReplyShown(rule, t))
               /\ \A outgoing :
                    ResponseEffect(rule.response.action, t.protocol, shown, ReplyShown(rule, t), outgoing)
                      = ResponseEffect(rule.response.action, t.protocol, whole, ReplyShown(rule, t), outgoing)
    <3>1. RuleIsValid(rule) /\ IsTyped(rule)
      BY <1>1, <1>6, <2>1, StoredRules DEF Active
    <3>2. LooksLateAt(rule) \cap ({"request"} \X BodyFields) = {}
      BY <1>11, <2>1 DEF ReadsBodyLate
    <3> DEFINE reply == ReplyShown(rule, t)
    <3> HIDE DEF rule, reply
    <3>3. /\ ResponseVerdict(rule, shown, reply) = ResponseVerdict(rule, whole, reply)
          /\ \A protocol, outgoing :
               ResponseEffect(rule.response.action, protocol, shown, reply, outgoing)
                 = ResponseEffect(rule.response.action, protocol, whole, reply, outgoing)
      BY ONLY <1>8, <2>1, <3>1, <3>2, SameResponseStage
    <3> QED  BY <3>3 DEF reply
  <2> HIDE DEF rule, t
  <2> QED  BY <1>9, <1>10, <2>1, SameOutcome
<1> HIDE DEF rule
<1> QED  BY <1>3, <1>4, <1>5, <1>11 DEF rule

(* What an exchange is told to the rules is enough: for no HTTP request is *)
(* there a body that was not read and would have made another rule apply   *)
(* or fail, made a rewrite of it change something or, if no script of a    *)
(* response stage looks at it, changed what is made of the reply.          *)
THEOREM BodiesAreRead == Spec => []BodyIsReadWhenItMatters
<1> QED  BY StepsAreReal, InvImpliesBody, PTL

(* Relayed replies are judged as if all of them had come.                  *)
LEMMA RelayedVerdict ==
  ASSUME AreStored(rules), NEW t, Relayed(t), NEW request,
         NEW i \in DOMAIN rules, rules[i].response # Nil
  PROVE  ResponseVerdict(rules[i], request, ReplyShown(rules[i], t))
           = ResponseVerdict(rules[i], request, WithoutBody(WholeReply(t)))
<1> DEFINE rule == rules[i]
           all == WithoutBody(WholeReply(t))
<1>1. CASE rule.response.match = Nil
  BY <1>1 DEF ResponseVerdict
<1>2. CASE NeedsTrailers(rule)
  BY <1>2 DEF ReplyShown
<1>3. CASE rule.response.match # Nil /\ ~ NeedsTrailers(rule)
  <2>1. ReplyShown(rule, t) = HeadersOnly(t)  BY <1>3 DEF ReplyShown, Relayed
  <2>2. /\ rule.response.match \in Matchers
        /\ rule.protocol \in Protocols
        /\ MatcherIsValid(rule.response.match, "response", rule.protocol)
    BY <1>3, StoredRules, StoredRule
  <2>3. ~ MatcherUsesTrailers(rule.response.match)  BY <1>3 DEF NeedsTrailers
  <2>4. ASSUME NEW field \in MatcherFields(rule.response.match) \ TrailersHave
        PROVE  Candidates(HeadersOnly(t), field) = Candidates(all, field)
    <3>1. field \in BodyFields \cup HeaderFields
      BY <2>2, <2>4, NamedFieldIsValid, ResponseFieldIsKnown DEF TrailersHave
    <3>2. field \notin TrailerFields \cup {"grpc.message", "grpc.status"}
      BY <3>1 DEF BodyFields, HeaderFields, TrailerFields
    <3> QED  BY <3>2 DEF Candidates, HeadersOnly, WithoutBody, Without
  <2> HIDE DEF all, rule
  <2>5. EvalMatcher(rule.response.match, "response", request, HeadersOnly(t))
          = EvalMatcher(rule.response.match, "response", request, all)
    BY <2>2, <2>3, <2>4, VerdictWithoutTrailers
  <2> QED  BY <1>3, <2>1, <2>5 DEF ResponseVerdict, all, rule
<1> QED  BY <1>1, <1>2, <1>3

LEMMA InvImpliesTrailers == SimulationInv => TrailersAreAwaited
<1> SUFFICES ASSUME SimulationInv, step.kind = "exchange", Relayed(step.traffic),
                    step.came.verdict # "unasked"
             PROVE  TrailersAreAwaited
  BY DEF TrailersAreAwaited
<1> DEFINE t == step.traffic
           i == step.came.intercept
           request == RequestShown(rules, t)
<1>1. AreStored(rules) /\ step.came = Live(rules, step.counters, t)
  BY DEF SimulationInv, ExchangeIsReal
<1>2. /\ i # 0 /\ rules[i].response # Nil
      /\ step.came.verdict = ResponseVerdict(rules[i], request, ReplyShown(rules[i], t))
  BY <1>1 DEF Live, LiveOn, LiveOf, Outcome
<1>3. i \in DOMAIN rules
  <2>1. i = EvaluateRequest(rules, step.counters, t.protocol, request, Streaming(rules, t)).intercept
    BY <1>1 DEF Live, LiveOn, LiveOf, Outcome
  <2>2. i \in Active(rules, t.protocol)
    BY <1>1, <1>2, <2>1, InterceptIsActive DEF AreStored
  <2> QED  BY <2>2 DEF Active
<1>4. ResponseVerdict(rules[i], request, ReplyShown(rules[i], t))
        = ResponseVerdict(rules[i], request, WithoutBody(WholeReply(t)))
  BY <1>1, <1>2, <1>3, RelayedVerdict
<1> QED  BY <1>2, <1>4 DEF TrailersAreAwaited

(* A rule that decided on the headers of a relayed reply would have decided*)
(* the same with its status and trailers.                                  *)
THEOREM TrailersAreRead == Spec => []TrailersAreAwaited
<1> QED  BY StepsAreReal, InvImpliesTrailers, PTL

LEMMA InvImpliesAccepted == SimulationInv => AcceptedRulesCanWork
<1> SUFFICES ASSUME SimulationInv PROVE AcceptedRulesCanWork  OBVIOUS
<1>1. AreStored(rules)  BY DEF SimulationInv
<1> DEFINE Conjuncts(i) ==
      LET rule == rules[i]
          own == {t \in Traffic : t.protocol = rule.protocol}
      IN  /\ rule.enabled => \A f \in MatcherFields(rule.match) : \E t \in own :
                ResolveField(f, "request", RequestShown(rules, t), NoResponse) # {}
          /\ rule.response # Nil /\ rule.response.match # Nil =>
                \A f \in MatcherFields(rule.response.match) \ {Nameless} : \E t \in own :
                  ResolveField(f, "response", RequestShown(rules, t), ReplyShown(rule, t)) # {}
          /\ Faults(rule) \cap (IF rule.protocol = "http" THEN {"grpc_status"}
                                ELSE {"http_response"}) = {}
          /\ rule.protocol = "grpc" /\ rule.request # Nil /\ rule.request.action # Nil
               /\ rule.request.action.type = "request_rewrite" =>
                \A t \in own : \A f \in {"path", "query", "body"} :
                  LET seen == RequestShown(rules, t)
                  IN  Rewritten(seen, rule.request.action.operations).now[f] = seen[f]
          /\ step.kind = "exchange" /\ step.came.intercept = i /\ step.came.effect = "failed" =>
                LiteralGrpcTarget(rule.match) = Nil
<1>2. ASSUME NEW i \in DOMAIN rules  PROVE Conjuncts(i)
  <2> DEFINE rule == rules[i]
             own == {t \in Traffic : t.protocol = rule.protocol}
  <2>1. RuleIsValid(rule) /\ IsTyped(rule)  BY <1>1, StoredRules
  <2>2. rule.protocol \in Protocols /\ GrpcBodyIsValid(rule)  BY <2>1, StoredRule
  <2>3. PICK full \in Traffic : full.protocol = rule.protocol /\ IsFull(full)
    BY <2>2, SimulationConstants
  <2>4. full \in own  BY <2>3
  <2>5. ASSUME rule.enabled, NEW f \in MatcherFields(rule.match)
        PROVE  ResolveField(f, "request", RequestShown(rules, full), NoResponse) # {}
    BY <1>1, <2>3, <2>5, FullRequestHasField
  <2>6. ASSUME rule.response # Nil, rule.response.match # Nil,
               NEW f \in MatcherFields(rule.response.match) \ {Nameless}
        PROVE  ResolveField(f, "response", RequestShown(rules, full), ReplyShown(rule, full)) # {}
    BY <2>1, <2>3, <2>6, FullReplyHasField
  <2>7. Faults(rule) \cap (IF rule.protocol = "http" THEN {"grpc_status"}
                          ELSE {"http_response"}) = {}
    BY <2>1, FaultsFitProtocol
  <2>8. ASSUME rule.protocol = "grpc", rule.request # Nil, rule.request.action # Nil,
               rule.request.action.type = "request_rewrite",
               NEW t \in own, NEW f \in {"path", "query", "body"}
        PROVE  Rewritten(RequestShown(rules, t), rule.request.action.operations).now[f]
                 = RequestShown(rules, t)[f]
    BY <2>1, <2>8, GrpcRewritesKeepTheRest
  <2>9. ASSUME step.kind = "exchange", step.came.intercept = i, step.came.effect = "failed"
        PROVE  LiteralGrpcTarget(rule.match) = Nil
    <3>1. step.came = Live(rules, step.counters, step.traffic)
      BY <2>9 DEF SimulationInv, ExchangeIsReal
    <3>2. i # 0  BY <1>1 DEF AreStored
    <3>3. Messages(rule) = "misfit"  BY <2>9, <3>1, <3>2, OnlyMisfitsFail
    <3> QED  BY <2>2, <3>3 DEF GrpcBodyIsValid
  <2> HIDE DEF rule, own
  <2>10. /\ rule.enabled => \A f \in MatcherFields(rule.match) : \E t \in own :
               ResolveField(f, "request", RequestShown(rules, t), NoResponse) # {}
         /\ rule.response # Nil /\ rule.response.match # Nil =>
               \A f \in MatcherFields(rule.response.match) \ {Nameless} : \E t \in own :
                 ResolveField(f, "response", RequestShown(rules, t), ReplyShown(rule, t)) # {}
    BY <2>4, <2>5, <2>6
  <2>11. rule.protocol = "grpc" /\ rule.request # Nil /\ rule.request.action # Nil
               /\ rule.request.action.type = "request_rewrite" =>
           \A t \in own : \A f \in {"path", "query", "body"} :
             Rewritten(RequestShown(rules, t), rule.request.action.operations).now[f]
               = RequestShown(rules, t)[f]
    BY <2>8
  <2> QED  BY <2>7, <2>9, <2>10, <2>11 DEF rule, own
<1> QED  BY <1>2 DEF AcceptedRulesCanWork

(* Whatever drafts clients send, a rule that is accepted can do what it    *)
(* says: its matchers name what traffic of its protocol has (a trailer     *)
(* without a name excepted), it breaks and rewrites only what it can, and a*)
(* mock that pins its method fits it.                                      *)
THEOREM AcceptedRulesWork == Spec => []AcceptedRulesCanWork
<1> QED  BY StepsAreReal, InvImpliesAccepted, PTL

----------------------------------------------------------------------------
(* Simulations of samples                                                  *)

(* The sample of an HTTP exchange tells all of it.                         *)
LEMMA HttpSample ==
  ASSUME NEW t, t.protocol = "http"
  PROVE  Sampled(t) = WholeRequest(t) /\ SampledReply(t) = WholeReply(t)
<1>1. Sampled(t) = WholeRequest(t)
  <2>1. Raw("http", t.body) = Encoded(t.body)  BY DEF Raw
  <2>2. WholeRequest(t)["grpc.messages"] = {}
    BY DEF WholeRequest, Snapshot, RequestFields, HeaderFields, BodyFields
  <2>3. DOMAIN WholeRequest(t) = RequestFields
        /\ WholeRequest(t) = [f \in RequestFields |-> WholeRequest(t)[f]]
    BY DEF WholeRequest, Snapshot
  <2>4. Sampled(t) = [WholeRequest(t) EXCEPT !["grpc.messages"] = {}]
    BY <2>1 DEF Sampled, WholeRequest
  <2> QED  BY <2>2, <2>3, <2>4
<1>2. SampledReply(t) = WholeReply(t)
  <2>1. Raw("http", t.replyBody) = Encoded(t.replyBody)  BY DEF Raw
  <2>2. "rawBodyBase64" \in ResponseFields /\ WholeReply(t)["rawBodyBase64"] = Encoded(t.replyBody)
    BY <2>1 DEF WholeReply, ResponseFields, BodyFields, HeaderFields
  <2>3. \A f \in MessageFields \cup TrailerFields : f \in ResponseFields => WholeReply(t)[f] = {}
    BY DEF WholeReply, MessageFields, TrailerFields, HeaderFields
  <2>4. WholeReply(t) = [f \in ResponseFields |-> WholeReply(t)[f]]  BY DEF WholeReply
  <2>5. \A fields : fields \subseteq MessageFields \cup TrailerFields =>
          Without(fields, WholeReply(t)) = WholeReply(t)
    BY <2>3, <2>4 DEF Without
  <2>6. Without(MessageFields \cup (IF t.grpcStatus = {} THEN TrailerFields ELSE {}), WholeReply(t))
          = WholeReply(t)
    BY <2>5
  <2> QED  BY <2>2, <2>4, <2>6 DEF SampledReply
<1> QED  BY <1>1, <1>2

(* Where a sample of a gRPC call tells something else.                     *)
NotSampled == {"rawBodyBase64", "grpc.messages", "grpc.message"}

LEMMA UnsampledFields == {"request", "response"} \X NotSampled = Unsampled
BY DEF Unsampled, NotSampled, MessageFields

LEMMA GrpcSample ==
  ASSUME NEW t, t.protocol = "grpc", Unary(t)
  PROVE  /\ DifferIn({"rawBodyBase64", "grpc.messages"}, RequestShown(rules, t), Sampled(t))
         /\ RequestShown(rules, t)["metadata.x"] = Sampled(t)["metadata.x"]
<1> DEFINE shown == Snapshot(t, t.host, t.body, Raw("grpc", t.body), TRUE)
           sample == Snapshot(t, t.host, t.body, Encoded(t.body), TRUE)
<1>1. RequestShown(rules, t) = shown  BY DEF RequestShown, BodyShown
<1>2. Sampled(t) = [sample EXCEPT !["grpc.messages"] = {}]  BY DEF Sampled
<1>3. DOMAIN shown = RequestFields /\ DOMAIN sample = RequestFields  BY DEF Snapshot
<1>4. \A f \in RequestFields \ {"rawBodyBase64"} : shown[f] = sample[f]
  BY DEF Snapshot, BodyFields
<1>5. "metadata.x" \in RequestFields  BY DEF RequestFields
<1> HIDE DEF shown, sample
<1> QED  BY <1>1, <1>2, <1>3, <1>4, <1>5 DEF DifferIn

LEMMA SampleEvaluation ==
  ASSUME AreStored(rules), NEW t, t.protocol \in Protocols, Foreseeable(t), NEW counters
  PROVE  EvaluateRequest(rules, counters, t.protocol, RequestShown(rules, t), Streaming(rules, t))
           = EvaluateRequest(rules, counters, t.protocol, Sampled(t), FALSE)
<1>1. CASE t.protocol = "http"
  <2> DEFINE whole == WholeRequest(t)
             streaming == t.body = {}
             never == FALSE
  <2>1. ~ Refused(rules, t)  BY DEF Foreseeable
  <2>2. EvaluateRequest(rules, counters, "http", RequestShown(rules, t), Streaming(rules, t))
          = EvaluateRequest(rules, counters, "http", whole, streaming)
    BY <1>1, <2>1, HttpEvaluation
  <2>3. Sampled(t) = whole  BY <1>1, HttpSample
  <2>4. \A i \in Active(rules, "http") : ~ (streaming /\ MatcherUsesBody(rules[i].match))
    BY <1>1 DEF Foreseeable, HttpForeseeable
  <2> HIDE DEF whole, streaming
  <2>5. \A i \in Active(rules, "http") :
          /\ Exhausted(rules[i], counters[i]) <=> Exhausted(rules[i], counters[i])
          /\ streaming /\ MatcherUsesBody(rules[i].match)
               <=> never /\ MatcherUsesBody(rules[i].match)
          /\ EvalMatcher(rules[i].match, "request", whole, NoResponse)
               = EvalMatcher(rules[i].match, "request", whole, NoResponse)
               \/ (streaming /\ MatcherUsesBody(rules[i].match))
    BY <2>4, Zenon
  <2> HIDE DEF never
  <2>6. EvaluateRequest(rules, counters, "http", whole, streaming)
          = EvaluateRequest(rules, counters, "http", whole, never)
    BY ONLY <2>5, SameEvaluation
  <2> QED  BY <1>1, <2>2, <2>3, <2>6 DEF never
<1>2. CASE t.protocol = "grpc"
  <2> DEFINE shown == RequestShown(rules, t)
             sample == Sampled(t)
             never == FALSE
  <2>1. Unary(t)  BY <1>2 DEF Foreseeable, GrpcForeseeable, Relayed
  <2>2. DifferIn({"rawBodyBase64", "grpc.messages"}, shown, sample)
        /\ shown["metadata.x"] = sample["metadata.x"]
    BY <1>2, <2>1, GrpcSample
  <2>3. Streaming(rules, t) = FALSE  BY <1>2, <2>1 DEF Streaming
  <2> HIDE DEF shown, sample
  <2>4. ASSUME NEW i \in Active(rules, "grpc")
        PROVE  EvalMatcher(rules[i].match, "request", shown, NoResponse)
                 = EvalMatcher(rules[i].match, "request", sample, NoResponse)
    <3> DEFINE m == rules[i].match
               sights == LooksAt(m, "request")
    <3>1. m \in Matchers /\ MatcherIsValid(m, "request", rules[i].protocol)
      BY StoredRules, StoredRule DEF Active
    <3>2. \A sight \in sights : IsPair(sight)  BY <3>1, SightsArePairs
    <3>3. sights \cap Unsampled = {}  BY <1>2 DEF Foreseeable, GrpcForeseeable
    <3>4. sights \cap ({"request"} \X {"rawBodyBase64", "grpc.messages"}) = {}
      <4>1. {"request"} \X {"rawBodyBase64", "grpc.messages"} \subseteq {"request", "response"} \X NotSampled
        BY DEF NotSampled
      <4> QED  BY <3>3, <4>1, UnsampledFields
    <3> HIDE DEF sights
    <3>5. SameAt(sights, shown, NoResponse, sample, NoResponse)
      BY <2>2, <3>2, <3>4, SameElsewhere
    <3>6. SameMetadata(shown, sample)
      BY <2>2 DEF SameMetadata, DifferIn, RequestFields, HeaderFields
    <3> HIDE DEF m
    <3>7. EvalMatcher(m, "request", shown, NoResponse) = EvalMatcher(m, "request", sample, NoResponse)
      BY <3>1, <3>5, <3>6, VerdictOnSights DEF sights
    <3> QED  BY <3>7 DEF m
  <2>5. \A i \in Active(rules, "grpc") :
          /\ Exhausted(rules[i], counters[i]) <=> Exhausted(rules[i], counters[i])
          /\ never /\ MatcherUsesBody(rules[i].match)
               <=> never /\ MatcherUsesBody(rules[i].match)
          /\ EvalMatcher(rules[i].match, "request", shown, NoResponse)
               = EvalMatcher(rules[i].match, "request", sample, NoResponse)
               \/ (never /\ MatcherUsesBody(rules[i].match))
    BY <2>4, Zenon
  <2> HIDE DEF never
  <2>6. EvaluateRequest(rules, counters, "grpc", shown, never)
          = EvaluateRequest(rules, counters, "grpc", sample, never)
    BY ONLY <2>5, SameEvaluation
  <2> QED  BY <1>2, <2>3, <2>6 DEF never, shown, sample
<1> QED  BY <1>1, <1>2 DEF Protocols

LEMMA SampleRequestEffect ==
  ASSUME AreStored(rules), NEW t, t.protocol \in Protocols, Foreseeable(t),
         NEW i \in Active(rules, t.protocol)
  PROVE  LiveRequestEffect(rules[i], t, RequestShown(rules, t)) = RequestEffect(rules[i], Sampled(t))
<1>1. RequestEffect(rules[i], RequestShown(rules, t)) = RequestEffect(rules[i], Sampled(t))
  <2>1. CASE t.protocol = "http"
    <3>1. ~ Refused(rules, t)  BY DEF Foreseeable
    <3>2. Sampled(t) = WholeRequest(t)  BY <2>1, HttpSample
    <3> QED  BY <2>1, <3>1, <3>2, HttpRequestEffect
  <2>2. CASE t.protocol = "grpc"
    <3>1. Unary(t)  BY <2>2 DEF Foreseeable, GrpcForeseeable, Relayed
    <3>2. DifferIn({"rawBodyBase64", "grpc.messages"}, RequestShown(rules, t), Sampled(t))
      BY <2>2, <3>1, GrpcSample
    <3>3. RuleIsValid(rules[i]) /\ IsTyped(rules[i])  BY StoredRules DEF Active
    <3>4. {"rawBodyBase64", "grpc.messages"} \subseteq BodyFields \cup {"grpc.messages"}
          /\ "body" \notin {"rawBodyBase64", "grpc.messages"}
      BY DEF BodyFields
    <3> QED  BY <3>2, <3>3, <3>4, EffectWithoutFields
  <2> QED  BY <2>1, <2>2 DEF Protocols
<1>2. ~ Relayed(t)  BY DEF Foreseeable, GrpcForeseeable, Relayed
<1>3. Messages(rules[i]) # "misfit"
  <2>1. rules[i].protocol = t.protocol  BY DEF Active
  <2>2. t.protocol = "grpc" => Messages(rules[i]) # "misfit"
    BY DEF Foreseeable, GrpcForeseeable
  <2> QED  BY <2>1, <2>2 DEF Messages, Protocols
<1> QED  BY <1>1, <1>2, <1>3 DEF LiveRequestEffect

(* What of a reply is told by the sample of a call.                        *)
LEMMA GrpcSampledReply ==
  ASSUME NEW t, t.protocol = "grpc", t.grpcStatus # {}
  PROVE  /\ DOMAIN WholeReply(t) = ResponseFields /\ DOMAIN SampledReply(t) = ResponseFields
         /\ \A f \in ResponseFields \ NotSampled : SampledReply(t)[f] = WholeReply(t)[f]
<1> DEFINE reply == WholeReply(t)
<1>1. SampledReply(t) = [Without(MessageFields, reply) EXCEPT !["rawBodyBase64"] = Encoded(t.replyBody)]
  BY DEF SampledReply
<1>2. DOMAIN reply = ResponseFields  BY DEF WholeReply
<1> HIDE DEF reply
<1>3. DOMAIN SampledReply(t) = ResponseFields  BY <1>1 DEF Without
<1>4. \A f \in ResponseFields \ NotSampled : SampledReply(t)[f] = reply[f]
  BY <1>1 DEF Without, NotSampled, MessageFields
<1> QED  BY <1>2, <1>3, <1>4 DEF reply

LEMMA SampleResponseStage ==
  ASSUME AreStored(rules), NEW t, t.protocol \in Protocols, Foreseeable(t),
         NEW i \in Active(rules, t.protocol), rules[i].response # Nil
  PROVE  /\ ResponseVerdict(rules[i], RequestShown(rules, t), WholeReply(t))
              = ResponseVerdict(rules[i], Sampled(t), SampledReply(t))
         /\ LiveResponseEffect(rules[i], t, RequestShown(rules, t))
              = SimulatedResponseEffect(rules[i].response.action, Sampled(t), SampledReply(t), FALSE)
<1> DEFINE rule == rules[i]
           action == rules[i].response.action
           shown == RequestShown(rules, t)
           sample == Sampled(t)
           reply == WholeReply(t)
           sampled == SampledReply(t)
<1>1. ~ Relayed(t) /\ (t.protocol = "http" => ~ t.unbuffered)
  BY DEF Foreseeable, HttpForeseeable, GrpcForeseeable, Relayed
<1>2. RuleIsValid(rule) /\ IsTyped(rule)  BY StoredRules DEF Active
<1>3. ReplyShown(rule, t) = reply  BY <1>1 DEF ReplyShown
<1>4. action = Nil \/ action.type \in {"fault", "response_replace", "script_manipulator"}
  BY <1>2, StoredRule
<1>5. LiveResponseEffect(rule, t, shown) = ResponseEffect(action, t.protocol, shown, reply, Outgoing(t, reply))
  <2> HIDE DEF shown, reply
  <2> QED  BY <1>1, <1>3 DEF LiveResponseEffect
<1>6. SimulatedResponseEffect(action, sample, sampled, FALSE)
        = ResponseEffect(action, "http", sample, sampled, sampled)
  BY DEF SimulatedResponseEffect
<1>7. CASE t.protocol = "http"
  <2>1. sample = WholeRequest(t) /\ sampled = reply  BY <1>7, HttpSample
  <2>2. Outgoing(t, reply) = reply  BY <1>7 DEF Outgoing
  <2>3. shown = Snapshot(t, t.host, BodyShown(rules, t), Raw("http", BodyShown(rules, t)), FALSE)
    BY <1>7 DEF RequestShown
  <2>4. /\ ResponseVerdict(rule, shown, reply) = ResponseVerdict(rule, sample, reply)
        /\ \A protocol, outgoing : ResponseEffect(action, protocol, shown, reply, outgoing)
                                    = ResponseEffect(action, protocol, sample, reply, outgoing)
    <3>1. CASE BodyShown(rules, t) = t.body
      BY <2>1, <2>3, <3>1 DEF WholeRequest
    <3>2. CASE BodyShown(rules, t) # t.body
      <4>1. BodyHandling(rules, t) # "read"  BY <1>7, <3>2 DEF BodyShown
      <4>2. i \in Active(rules, "http") /\ ~ IsObservation(rules[i])
        BY <1>7 DEF IsObservation
      <4>3. t.large  BY <4>1, <4>2 DEF BodyHandling
      <4>4. LooksLateAt(rule) \cap ({"request"} \X BodyFields) = {}
        BY <1>7, <4>2, <4>3 DEF Foreseeable, HttpForeseeable, ReadsBodyLate
      <4>5. DifferIn(BodyFields, shown, sample)
        BY <2>1, <2>3, SnapshotsDifferInBody DEF WholeRequest
      <4>6. rule.response # Nil  OBVIOUS
      <4> HIDE DEF shown, sample, reply, rule
      <4>7. /\ ResponseVerdict(rule, shown, reply) = ResponseVerdict(rule, sample, reply)
            /\ \A protocol, outgoing :
                 ResponseEffect(rule.response.action, protocol, shown, reply, outgoing)
                   = ResponseEffect(rule.response.action, protocol, sample, reply, outgoing)
        BY <1>2, <4>4, <4>5, <4>6, SameResponseStage
      <4> QED  BY <4>7 DEF rule
    <3> QED  BY <3>1, <3>2
  <2>5. LiveResponseEffect(rule, t, shown) = SimulatedResponseEffect(action, sample, sampled, FALSE)
    <3> HIDE DEF shown, sample, reply, sampled, action, rule
    <3> QED  BY <1>5, <1>6, <1>7, <2>1, <2>2, <2>4
  <2> QED  BY <2>1, <2>4, <2>5
<1>8. CASE t.protocol = "grpc"
  <2>1. /\ Unary(t) /\ t.grpcStatus # {}
        /\ LooksLateAt(rule) \cap Unsampled = {}
        /\ ~ Manipulates(rule) /\ ~ ReplacesReserved(rule)
    BY <1>8 DEF Foreseeable, GrpcForeseeable, Relayed
  <2>2. /\ DOMAIN reply = ResponseFields /\ DOMAIN sampled = ResponseFields
        /\ \A f \in ResponseFields \ NotSampled : sampled[f] = reply[f]
    BY <1>8, <2>1, GrpcSampledReply
  <2>3. DifferIn({"rawBodyBase64", "grpc.messages"}, shown, sample)  BY <1>8, <2>1, GrpcSample
  <2> DEFINE late == LooksLateAt(rule)
  <2>4. SameAt(late, shown, reply, sample, sampled)
    <3>1. ASSUME NEW sight \in late
          PROVE  SeenAt(sight, shown, reply) = SeenAt(sight, sample, sampled)
      <4>1. IsPair(sight)  BY <1>2, LateSightsArePairs
      <4>2. sight \notin {"request", "response"} \X NotSampled  BY <2>1, UnsampledFields
      <4> HIDE DEF shown, sample, reply, sampled, late
      <4>3. sight[2] \notin NotSampled  BY <4>1, <4>2 DEF IsPair
      <4>4. Candidates(shown, sight[2]) = Candidates(sample, sight[2])
        BY <2>3, <4>3 DEF NotSampled, DifferIn, Candidates
      <4>5. Candidates(reply, sight[2]) = Candidates(sampled, sight[2])
        BY <2>2, <4>3 DEF Candidates
      <4> QED  BY <4>4, <4>5 DEF SeenAt
    <3> QED  BY <3>1 DEF SameAt
  <2>5. ResponseVerdict(rule, shown, reply) = ResponseVerdict(rule, sample, sampled)
    <3> DEFINE m == rule.response.match
    <3>1. m = Nil \/ (m \in Matchers /\ LooksAt(m, "response") \subseteq late)
      BY <1>2, StoredRule DEF LooksLateAt
    <3> HIDE DEF shown, sample, reply, sampled, late
    <3>2. CASE m = Nil
      BY <3>2 DEF ResponseVerdict
    <3>3. CASE m # Nil
      <4> HIDE DEF m
      <4>1. SameAt(LooksAt(m, "response"), shown, reply, sample, sampled)
        BY <2>4, <3>1, <3>3 DEF SameAt
      <4>2. EvalMatcher(m, "response", shown, reply) = EvalMatcher(m, "response", sample, sampled)
        BY <3>1, <3>3, <4>1, VerdictOnSights
      <4> QED  BY <3>3, <4>2 DEF ResponseVerdict, m
    <3> QED  BY <3>2, <3>3
  <2>6. ResponseEffect(action, "grpc", shown, reply, Outgoing(t, reply))
          = ResponseEffect(action, "http", sample, sampled, sampled)
    <3>1. CASE action # Nil /\ action.type = "response_replace"
      <4>1. action.target \in HeaderFields /\ action.target # "header.reserved"
        BY <1>2, <2>1, <3>1, StoredRule DEF ResponseActionIsValid, ReplacesReserved
      <4>2. action.target \in ResponseFields \ NotSampled
        BY <4>1 DEF ResponseFields, NotSampled, HeaderFields
      <4>3. Outgoing(t, reply)[action.target] = reply[action.target]
        BY <1>8, <4>1, <4>2 DEF Outgoing, HeaderFields
      <4>4. Outgoing(t, reply)[action.target] = sampled[action.target]
        BY <2>2, <4>2, <4>3
      <4> DEFINE outgoing == Outgoing(t, reply)
      <4>5. outgoing[action.target] = sampled[action.target]  BY <4>4
      <4> HIDE DEF shown, sample, reply, sampled, action, outgoing
      <4>6. ReplaceChanges(outgoing, action) <=> ReplaceChanges(sampled, action)
        BY <4>5 DEF ReplaceChanges
      <4>7. \A protocol, request, response, sent :
              ResponseEffect(action, protocol, request, response, sent)
                = IF ReplaceChanges(sent, action) THEN "modified" ELSE "none"
        BY <3>1 DEF ResponseEffect
      <4>8. ResponseEffect(action, "grpc", shown, reply, outgoing)
              = ResponseEffect(action, "http", sample, sampled, sampled)
        BY <4>6, <4>7
      <4> QED  BY <4>8 DEF outgoing
    <3>2. CASE action = Nil \/ action.type = "fault"
      <4> HIDE DEF shown, sample, reply, sampled, action
      <4> QED  BY <3>2 DEF ResponseEffect
    <3>3. action = Nil \/ action.type # "script_manipulator"
      BY <2>1 DEF Manipulates
    <3> QED  BY <1>4, <3>1, <3>2, <3>3
  <2> HIDE DEF shown, sample, reply, sampled, action, rule
  <2>7. LiveResponseEffect(rule, t, shown) = SimulatedResponseEffect(action, sample, sampled, FALSE)
    BY <1>5, <1>6, <1>8, <2>6
  <2> QED  BY <2>5, <2>7 DEF shown, sample, reply, sampled, action, rule
<1> QED  BY <1>7, <1>8 DEF Protocols

LEMMA SampleIsLive ==
  ASSUME AreStored(rules), NEW t, t.protocol \in Protocols, Foreseeable(t), NEW counters,
         SampledReply(t) # Nil
  PROVE  Simulated(counters, t.protocol, Sampled(t), SampledReply(t), FALSE) = Live(rules, counters, t)
<1> DEFINE shown == RequestShown(rules, t)
           sample == Sampled(t)
           sampled == SampledReply(t)
           e == EvaluateRequest(rules, counters, t.protocol, shown, Streaming(rules, t))
           rule == rules[e.intercept]
           first1 == IF e.intercept = 0 THEN "none" ELSE LiveRequestEffect(rule, t, shown)
           first2 == IF e.intercept = 0 THEN "none" ELSE RequestEffect(rule, sample)
           asked1 == e.intercept # 0 /\ first1 \notin Ends /\ rule.response # Nil
           asked2 == e.intercept # 0 /\ first2 \notin Ends /\ rule.response # Nil /\ sampled # Nil
           verdict1 == IF asked1 THEN ResponseVerdict(rule, shown, ReplyShown(rule, t)) ELSE "unasked"
           verdict2 == IF asked2 THEN ResponseVerdict(rule, sample, sampled) ELSE "unasked"
           second1 == IF verdict1 = "yes" THEN LiveResponseEffect(rule, t, shown) ELSE "none"
           second2 == IF verdict2 = "yes"
                      THEN SimulatedResponseEffect(rule.response.action, sample, sampled, FALSE)
                      ELSE "none"
<1>1. e = EvaluateRequest(rules, counters, t.protocol, sample, FALSE)
  BY SampleEvaluation
<1>2. e.intercept # 0 => e.intercept \in Active(rules, t.protocol)
  BY InterceptIsActive DEF AreStored
<1>3. ReplyShown(rule, t) = WholeReply(t)
  BY DEF ReplyShown, Foreseeable, HttpForeseeable, GrpcForeseeable, Relayed
<1>4. e.intercept # 0 => LiveRequestEffect(rule, t, shown) = RequestEffect(rule, sample)
  BY <1>2, SampleRequestEffect
<1>5. e.intercept # 0 /\ rule.response # Nil =>
        /\ ResponseVerdict(rule, shown, WholeReply(t)) = ResponseVerdict(rule, sample, sampled)
        /\ LiveResponseEffect(rule, t, shown)
             = SimulatedResponseEffect(rule.response.action, sample, sampled, FALSE)
  <2> HIDE DEF e
  <2> QED  BY <1>2, SampleResponseStage
<1>6. Live(rules, counters, t) = Outcome(e, first1, verdict1, second1)
  BY DEF Live, LiveOn, LiveOf
<1>7. Simulated(counters, t.protocol, sample, sampled, FALSE) = Outcome(e, first2, verdict2, second2)
  <2> HIDE DEF e
  <2> QED  BY <1>1 DEF Simulated, SimulatedOf
<1>8. sampled # Nil  OBVIOUS
<1> HIDE DEF e, rule, shown, sample, sampled
<1>9. first1 = first2  BY <1>4
<1>10. asked1 <=> asked2  BY <1>8, <1>9
<1> HIDE DEF first1, first2
<1>11. asked1 => e.intercept # 0 /\ rule.response # Nil  OBVIOUS
<1> HIDE DEF asked1, asked2
<1>12. verdict1 = verdict2  BY <1>3, <1>5, <1>10, <1>11
<1>13. second1 = second2
  <2>1. "unasked" # "yes"  OBVIOUS
  <2>2. verdict1 = "yes" => asked1  BY <2>1
  <2> HIDE DEF verdict1, verdict2
  <2> QED  BY <1>5, <1>11, <1>12, <2>2
<1> HIDE DEF verdict1, verdict2, second1, second2
<1> QED  BY <1>6, <1>7, <1>9, <1>12, <1>13 DEF sample, sampled


LEMMA InvImpliesSample == SimulationInv => SampleForetells
<1> SUFFICES ASSUME SimulationInv, step.kind = "sample", step.whole, Foreseeable(step.traffic)
             PROVE  step.came = Live(rules, consumed, step.traffic)
  BY DEF SampleForetells
<1> DEFINE t == step.traffic
<1>1. /\ AreStored(rules)
      /\ t \in Traffic
      /\ SampledReply(t) # Nil
      /\ step.came = Simulated(consumed, t.protocol, Sampled(t), SampledReply(t), FALSE)
  BY DEF SimulationInv, SampleIsReal
<1>2. t.protocol \in Protocols  BY <1>1, SimulationConstants
<1> QED  BY <1>1, <1>2, SampleIsLive

(* The simulation of a sample that tells all of an exchange comes to what  *)
(* the exchange would come to, in every point, as far as can be known.     *)
THEOREM SamplesForetell == Spec => []SampleForetells
<1> QED  BY StepsAreReal, InvImpliesSample, PTL

----------------------------------------------------------------------------
(* Simulations of logged exchanges                                         *)

(* The fields of a request, and of its reply, that an entry has as they    *)
(* were, if it has this text of them.                                      *)
LoggedText(t, text) ==
  IF text = {} THEN {} ELSE IF t.protocol = "http" THEN BodyFields ELSE {"body"}

LoggedFields(t, text) ==
  {"method", "path", "query", "header.x", "header.reserved"} \cup LoggedText(t, text)

LoggedReplyFields(t, text) ==
  LoggedText(t, text) \cup {"header.x"} \cup
  IF t.protocol = "http" THEN {"header.reserved", "status"}
  ELSE {"grpc.trailer.x"} \cup
       IF LoggedReply(t, text)["grpc.status"] = {"0"} THEN {} ELSE {"grpc.status"}

(* What a reply is judged by, in the end.                                  *)
JudgedReply(t) ==
  IF Relayed(t) \/ (t.protocol = "http" /\ t.unbuffered) THEN WithoutBody(WholeReply(t))
  ELSE WholeReply(t)

LEMMA RequestInLog ==
  ASSUME NEW t, t.protocol \in Protocols, NEW text \in {{}, BodyShown(rules, t)}
  PROVE  /\ SameMetadata(RequestShown(rules, t), LoggedRequest(t, text))
         /\ LoggedRequest(t, text)["body"] = text
         /\ \A field \in LoggedFields(t, text) :
              Candidates(RequestShown(rules, t), field) = Candidates(LoggedRequest(t, text), field)
<1> DEFINE body == BodyShown(rules, t)
           shown == Snapshot(t, t.host, body, Raw(t.protocol, body), t.protocol = "grpc")
           told == Snapshot(t, {}, text, Encoded(text), FALSE)
           logged == LoggedRequest(t, text)
<1>1. RequestShown(rules, t) = shown  BY DEF RequestShown
<1>2. DOMAIN shown = RequestFields /\ DOMAIN told = RequestFields  BY DEF Snapshot
<1>3. /\ DOMAIN logged = RequestFields
      /\ \A field \in RequestFields \ {"header.masked"} : logged[field] = told[field]
  <2> HIDE DEF told
  <2>1. logged = Masked(told)  BY DEF LoggedRequest, told
  <2>2. \A field \in RequestFields : field # "grpc.trailer.masked"
    BY DEF RequestFields, BodyFields, HeaderFields
  <2> QED  BY <1>2, <2>1, <2>2 DEF Masked
<1>4. \A field \in {"method", "path", "query", "header.x", "header.reserved"} :
        field \in RequestFields \ {"header.masked"} /\ shown[field] = told[field]
  BY DEF Snapshot, RequestFields, HeaderFields, BodyFields
<1>5. /\ "body" \in RequestFields /\ "rawBodyBase64" \in RequestFields /\ "metadata.x" \in RequestFields
      /\ shown["body"] = body /\ told["body"] = text
      /\ shown["rawBodyBase64"] = Raw(t.protocol, body) /\ told["rawBodyBase64"] = Encoded(text)
      /\ shown["metadata.x"] \in {shown["header.x"], {}} /\ told["metadata.x"] = {}
  BY DEF Snapshot, RequestFields, HeaderFields, BodyFields
<1>6. ASSUME NEW field \in LoggedText(t, text)
      PROVE  field \in RequestFields \ {"header.masked"} /\ shown[field] = told[field]
  <2>1. text # {} /\ text = body  BY <1>6 DEF LoggedText
  <2>2. field = "body" \/ (field = "rawBodyBase64" /\ t.protocol = "http")
    BY <1>6 DEF LoggedText, BodyFields
  <2>3. CASE field = "body"
    BY <1>5, <2>1, <2>3
  <2>4. CASE field = "rawBodyBase64" /\ t.protocol = "http"
    <3>1. Raw(t.protocol, body) = Encoded(text)  BY <2>1, <2>4 DEF Raw
    <3> QED  BY <1>5, <2>4, <3>1
  <2> QED  BY <2>2, <2>3, <2>4
<1> HIDE DEF shown, told, logged, body
<1>7. \A field \in LoggedFields(t, text) :
        field \in RequestFields /\ shown[field] = logged[field]
  BY <1>3, <1>4, <1>6 DEF LoggedFields
<1>8. SameMetadata(shown, logged)
  <2>1. logged["metadata.x"] = {} /\ "header.x" \in RequestFields  BY <1>3, <1>4, <1>5
  <2> QED  BY <1>2, <1>3, <1>5, <2>1 DEF SameMetadata
<1>9. logged["body"] = text  BY <1>3, <1>5
<1> QED  BY <1>1, <1>2, <1>3, <1>7, <1>8, <1>9 DEF Candidates, logged

LEMMA ReplyInLog ==
  ASSUME NEW t, t.protocol \in Protocols, NEW text \in {{}, t.replyBody},
         text = {} \/ (~ Relayed(t) /\ ~ t.unbuffered)
  PROVE  /\ LoggedReply(t, text)["body"] = text
         /\ \A field \in LoggedReplyFields(t, text) :
              Candidates(JudgedReply(t), field) = Candidates(LoggedReply(t, text), field)
<1> DEFINE reply == JudgedReply(t)
           whole == WholeReply(t)
           sent == Outgoing(t, whole)
           logged == LoggedReply(t, text)
<1>1. /\ DOMAIN whole = ResponseFields /\ DOMAIN reply = ResponseFields
      /\ DOMAIN logged = ResponseFields
  BY DEF JudgedReply, WholeReply, WithoutBody, Without, LoggedReply, Masked
<1>2. \A field \in ResponseFields \ (BodyFields \cup {"grpc.messages"}) : reply[field] = whole[field]
  <2> HIDE DEF whole
  <2> QED  BY DEF JudgedReply, WithoutBody, Without, whole
<1>3. \A field \in ResponseFields \ {"header.masked", "grpc.trailer.masked"} :
        logged[field] = CASE field = "body"                          -> text
                          [] field = "rawBodyBase64"                 -> Encoded(text)
                          [] field \in MessageFields                 -> {}
                          [] field = "status" /\ t.protocol = "grpc" -> {"200"}
                          [] OTHER                                   -> sent[field]
  <2> HIDE DEF sent
  <2> QED  BY DEF LoggedReply, Masked, sent
<1>4. {"body", "rawBodyBase64", "header.x", "header.reserved", "status", "grpc.trailer.x", "grpc.status"}
        \subseteq ResponseFields \ {"header.masked", "grpc.trailer.masked"}
  BY DEF ResponseFields, BodyFields, HeaderFields, TrailerFields
<1>5. logged["body"] = text /\ logged["rawBodyBase64"] = Encoded(text)
  <2> HIDE DEF logged, sent
  <2>1. "body" \notin MessageFields /\ "rawBodyBase64" \notin MessageFields  BY DEF MessageFields
  <2> QED  BY <1>3, <1>4, <2>1
<1>6. \A field \in {"header.x", "header.reserved", "grpc.trailer.x", "grpc.status"} :
        logged[field] = sent[field]
  BY <1>3, <1>4 DEF MessageFields
<1>7. ASSUME NEW field \in LoggedText(t, text)
      PROVE  field \in ResponseFields /\ reply[field] = logged[field]
  <2>1. text # {} /\ text = t.replyBody /\ ~ Relayed(t) /\ ~ t.unbuffered
    BY <1>7 DEF LoggedText
  <2>2. reply = whole  BY <2>1 DEF JudgedReply
  <2>3. whole["body"] = text /\ whole["rawBodyBase64"] = Raw(t.protocol, text)
    BY <1>4, <2>1 DEF WholeReply, HeaderFields
  <2>4. field = "body" \/ (field = "rawBodyBase64" /\ t.protocol = "http")
    BY <1>7 DEF LoggedText, BodyFields
  <2> HIDE DEF reply, whole, logged
  <2>5. CASE field = "body"
    BY <1>4, <1>5, <2>2, <2>3, <2>5
  <2>6. CASE field = "rawBodyBase64" /\ t.protocol = "http"
    <3>1. Raw(t.protocol, text) = Encoded(text)  BY <2>6 DEF Raw
    <3> QED  BY <1>4, <1>5, <2>2, <2>3, <2>6, <3>1
  <2> QED  BY <2>4, <2>5, <2>6
<1>8. ASSUME NEW field \in {"header.x", "header.reserved", "status", "grpc.trailer.x", "grpc.status"}
      PROVE  field \in ResponseFields /\ reply[field] = whole[field]
  <2>1. field \notin BodyFields \cup {"grpc.messages"}  BY DEF BodyFields
  <2> HIDE DEF reply, whole
  <2> QED  BY <1>2, <1>4, <2>1
<1>9. CASE t.protocol = "http"
  <2>1. sent = whole  BY <1>9 DEF Outgoing
  <2>2. logged["status"] = sent["status"]  BY <1>3, <1>4, <1>9 DEF MessageFields
  <2> HIDE DEF reply, whole, sent, logged
  <2>3. \A field \in {"header.x", "header.reserved", "status"} :
          field \in ResponseFields /\ reply[field] = logged[field]
    BY <1>6, <1>8, <2>1, <2>2
  <2>4. \A field \in LoggedReplyFields(t, text) : field \in ResponseFields /\ reply[field] = logged[field]
    BY <1>7, <1>9, <2>3 DEF LoggedReplyFields
  <2> QED  BY <1>1, <1>5, <2>4 DEF Candidates, reply, logged
<1>10. CASE t.protocol = "grpc"
  <2>1. /\ sent["header.x"] = whole["header.x"]
        /\ sent["grpc.trailer.x"] = whole["grpc.trailer.x"]
        /\ sent["grpc.status"] = IF whole["grpc.status"] = {} THEN {"0"} ELSE whole["grpc.status"]
    <3> HIDE DEF whole
    <3> QED  BY <1>4, <1>10 DEF Outgoing, sent
  <2> HIDE DEF reply, whole, sent
  <2>2. logged["grpc.status"] # {"0"} => reply["grpc.status"] = logged["grpc.status"]
    BY <1>6, <1>8, <2>1
  <2>3. \A field \in {"header.x", "grpc.trailer.x"} :
          field \in ResponseFields /\ reply[field] = logged[field]
    BY <1>6, <1>8, <2>1
  <2>4. LoggedReplyFields(t, text) = LoggedText(t, text) \cup {"header.x", "grpc.trailer.x"} \cup
          IF logged["grpc.status"] = {"0"} THEN {} ELSE {"grpc.status"}
    BY <1>10 DEF LoggedReplyFields
  <2> HIDE DEF logged
  <2>5. \A field \in LoggedReplyFields(t, text) : field \in ResponseFields /\ reply[field] = logged[field]
    BY <1>7, <1>8, <2>2, <2>3, <2>4
  <2> QED  BY <1>1, <1>5, <2>5 DEF Candidates, reply, logged
<1> QED  BY <1>9, <1>10 DEF Protocols

LEMMA LogEvaluation ==
  ASSUME AreStored(rules), \A i \in DOMAIN rules : rules[i].times = Nil,
         NEW t, t.protocol \in Protocols, NEW text \in {{}, BodyShown(rules, t)},
         LookOnlyAt({"request"} \X LoggedFields(t, text)),
         NEW counters1, NEW counters2
  PROVE  EvaluateRequest(rules, counters1, t.protocol, RequestShown(rules, t), Streaming(rules, t))
           = EvaluateRequest(rules, counters2, t.protocol, LoggedRequest(t, text), FALSE)
<1> DEFINE shown == RequestShown(rules, t)
           logged == LoggedRequest(t, text)
           streaming == Streaming(rules, t)
           never == FALSE
<1>1. /\ SameMetadata(shown, logged)
      /\ \A field \in LoggedFields(t, text) : Candidates(shown, field) = Candidates(logged, field)
  BY RequestInLog
<1> HIDE DEF shown, logged
<1>2. ASSUME NEW i \in Active(rules, t.protocol)
      PROVE  EvalMatcher(rules[i].match, "request", shown, NoResponse)
               = EvalMatcher(rules[i].match, "request", logged, NoResponse)
  <2>1. i \in DOMAIN rules  BY DEF Active
  <2> DEFINE m == rules[i].match
  <2>2. m \in Matchers  BY <2>1, StoredRules, StoredRule
  <2>3. LooksAt(m, "request") \subseteq {"request"} \X LoggedFields(t, text)
    BY <2>1 DEF LookOnlyAt
  <2> HIDE DEF m
  <2>4. SameAt(LooksAt(m, "request"), shown, NoResponse, logged, NoResponse)
    <3>1. ASSUME NEW sight \in LooksAt(m, "request")
          PROVE  SeenAt(sight, shown, NoResponse) = SeenAt(sight, logged, NoResponse)
      <4>1. sight[1] = "request" /\ sight[2] \in LoggedFields(t, text)  BY <2>3, <3>1
      <4> QED  BY <1>1, <4>1 DEF SeenAt
    <3> QED  BY <3>1 DEF SameAt
  <2>5. EvalMatcher(m, "request", shown, NoResponse) = EvalMatcher(m, "request", logged, NoResponse)
    BY <1>1, <2>2, <2>4, VerdictOnSights
  <2> QED  BY <2>5 DEF m
<1>3. ASSUME NEW i \in Active(rules, t.protocol), MatcherUsesBody(rules[i].match)
      PROVE  ~ streaming
  <2>1. i \in DOMAIN rules  BY DEF Active
  <2> DEFINE m == rules[i].match
  <2>2. LooksAt(m, "request") \subseteq {"request"} \X LoggedFields(t, text)
    BY <2>1 DEF LookOnlyAt
  <2>3. PICK field \in BodyFields : field \in MatcherFields(m)
    BY <1>3 DEF MatcherUsesBody
  <2>4. <<"request", field>> \in LooksAt(m, "request")
    BY <2>3, FieldsAreSights
  <2>5. field \in LoggedFields(t, text)  BY <2>2, <2>4
  <2>6. text # {}
    BY <2>3, <2>5 DEF LoggedFields, LoggedText, BodyFields
  <2>7. BodyShown(rules, t) # {}  BY <2>6
  <2> QED  BY <2>7 DEF Streaming, BodyShown, Protocols
<1>4. \A i \in Active(rules, t.protocol) :
        /\ Exhausted(rules[i], counters1[i]) <=> Exhausted(rules[i], counters2[i])
        /\ streaming /\ MatcherUsesBody(rules[i].match)
             <=> never /\ MatcherUsesBody(rules[i].match)
        /\ EvalMatcher(rules[i].match, "request", shown, NoResponse)
             = EvalMatcher(rules[i].match, "request", logged, NoResponse)
             \/ (streaming /\ MatcherUsesBody(rules[i].match))
  <2>1. \A i \in Active(rules, t.protocol) :
          ~ Exhausted(rules[i], counters1[i]) /\ ~ Exhausted(rules[i], counters2[i])
    BY DEF Exhausted, Active
  <2> HIDE DEF streaming
  <2> QED  BY <1>2, <1>3, <2>1, Zenon
<1> HIDE DEF streaming, never
<1>5. EvaluateRequest(rules, counters1, t.protocol, shown, streaming)
        = EvaluateRequest(rules, counters2, t.protocol, logged, never)
  BY ONLY <1>4, SameEvaluation
<1> QED  BY <1>5 DEF shown, streaming, logged, never

LEMMA LogVerdict ==
  ASSUME AreStored(rules), NEW t, t.protocol \in Protocols,
         NEW text \in {{}, BodyShown(rules, t)}, NEW replyText \in {{}, t.replyBody},
         replyText = {} \/ (~ Relayed(t) /\ ~ t.unbuffered),
         NEW i \in DOMAIN rules, rules[i].response # Nil,
         JudgeOnlyBy(({"request"} \X LoggedFields(t, text))
                       \cup ({"response"} \X LoggedReplyFields(t, replyText)))
  PROVE  ResponseVerdict(rules[i], RequestShown(rules, t), ReplyShown(rules[i], t))
           = ResponseVerdict(rules[i], LoggedRequest(t, text), LoggedReply(t, replyText))
<1> DEFINE rule == rules[i]
           m == rule.response.match
           shown == RequestShown(rules, t)
           judged == JudgedReply(t)
           request == LoggedRequest(t, text)
           reply == LoggedReply(t, replyText)
<1>1. ResponseVerdict(rule, shown, ReplyShown(rule, t)) = ResponseVerdict(rule, shown, judged)
  <2>1. CASE Relayed(t)
    BY <2>1, RelayedVerdict DEF JudgedReply
  <2>2. CASE ~ Relayed(t)
    BY <2>2 DEF ReplyShown, JudgedReply
  <2> QED  BY <2>1, <2>2
<1>2. \A field \in LoggedFields(t, text) : Candidates(shown, field) = Candidates(request, field)
  BY RequestInLog
<1>3. \A field \in LoggedReplyFields(t, replyText) :
        Candidates(judged, field) = Candidates(reply, field)
  BY ReplyInLog
<1>4. m # Nil => m \in Matchers
  BY StoredRules, StoredRule
<1>5. m # Nil => LooksAt(m, "response") \subseteq ({"request"} \X LoggedFields(t, text))
                    \cup ({"response"} \X LoggedReplyFields(t, replyText))
  BY DEF JudgeOnlyBy
<1> HIDE DEF shown, judged, request, reply, m
<1>6. CASE m = Nil
  BY <1>1, <1>6 DEF ResponseVerdict, m, shown, request, reply
<1>7. CASE m # Nil
  <2>1. SameAt(LooksAt(m, "response"), shown, judged, request, reply)
    <3>1. ASSUME NEW sight \in LooksAt(m, "response")
          PROVE  SeenAt(sight, shown, judged) = SeenAt(sight, request, reply)
      <4>1. \/ sight[1] = "request" /\ sight[2] \in LoggedFields(t, text)
            \/ sight[1] = "response" /\ sight[2] \in LoggedReplyFields(t, replyText)
        BY <1>5, <1>7, <3>1
      <4> QED  BY <1>2, <1>3, <4>1 DEF SeenAt
    <3> QED  BY <3>1 DEF SameAt
  <2>2. EvalMatcher(m, "response", shown, judged) = EvalMatcher(m, "response", request, reply)
    BY <1>4, <1>7, <2>1, VerdictOnSights
  <2>3. ResponseVerdict(rule, shown, judged) = ResponseVerdict(rule, request, reply)
    BY <1>7, <2>2 DEF ResponseVerdict, m
  <2> QED  BY <1>1, <2>3 DEF shown, request, reply
<1> QED  BY <1>6, <1>7

(* The simulation asks for a verdict when the exchange asked for one.      *)
LEMMA LogAsks ==
  ASSUME AreStored(rules), NEW t, NEW counters1, NEW counters2, NEW request, NEW reply, reply # Nil,
         NEW missing,
         EvaluateRequest(rules, counters1, t.protocol, RequestShown(rules, t), Streaming(rules, t))
           = EvaluateRequest(rules, counters2, t.protocol, request, FALSE),
         Live(rules, counters1, t).effect \notin Ends,
         LET i == Live(rules, counters1, t).intercept IN i = 0 \/ ~ Mocks(rules[i]),
         \A i \in DOMAIN rules : rules[i].response # Nil =>
           ResponseVerdict(rules[i], RequestShown(rules, t), ReplyShown(rules[i], t))
             = ResponseVerdict(rules[i], request, reply)
  PROVE  Simulated(counters2, t.protocol, request, reply, missing).verdict
           = Live(rules, counters1, t).verdict
<1> DEFINE shown == RequestShown(rules, t)
           e == EvaluateRequest(rules, counters1, t.protocol, shown, Streaming(rules, t))
           rule == rules[e.intercept]
           first1 == IF e.intercept = 0 THEN "none" ELSE LiveRequestEffect(rule, t, shown)
           first2 == IF e.intercept = 0 THEN "none" ELSE RequestEffect(rule, request)
           asked1 == e.intercept # 0 /\ first1 \notin Ends /\ rule.response # Nil
           asked2 == e.intercept # 0 /\ first2 \notin Ends /\ rule.response # Nil /\ reply # Nil
           verdict1 == IF asked1 THEN ResponseVerdict(rule, shown, ReplyShown(rule, t)) ELSE "unasked"
           verdict2 == IF asked2 THEN ResponseVerdict(rule, request, reply) ELSE "unasked"
           second1 == IF verdict1 = "yes" THEN LiveResponseEffect(rule, t, shown) ELSE "none"
<1>1. /\ Live(rules, counters1, t).intercept = e.intercept
      /\ Live(rules, counters1, t).verdict = verdict1
      /\ Live(rules, counters1, t).effect = IF second1 = "none" THEN first1 ELSE second1
  BY DEF Live, LiveOn, LiveOf, Outcome
<1>2. Simulated(counters2, t.protocol, request, reply, missing).verdict = verdict2
  <2> HIDE DEF e
  <2>1. EvaluateRequest(rules, counters2, t.protocol, request, FALSE) = e  BY DEF e
  <2> QED  BY <2>1 DEF Simulated, SimulatedOf, Outcome
<1>3. e.intercept # 0 => e.intercept \in DOMAIN rules
  <2>1. e.intercept # 0 => e.intercept \in Active(rules, t.protocol)
    BY InterceptIsActive DEF AreStored
  <2> HIDE DEF e
  <2> QED  BY <2>1 DEF Active
<1>4. e.intercept # 0 /\ rule.response # Nil =>
        ResponseVerdict(rule, shown, ReplyShown(rule, t)) = ResponseVerdict(rule, request, reply)
  <2> HIDE DEF e
  <2> QED  BY <1>3
<1> HIDE DEF e, rule, shown
<1>5. first1 \notin Ends
  <2>1. ASSUME first1 \in Ends  PROVE FALSE
    <3>1. ~ asked1  BY <2>1
    <3>2. verdict1 = "unasked"  BY <3>1
    <3> HIDE DEF asked1, verdict1, first1
    <3>3. second1 = "none"  BY <3>2
    <3> QED  BY <1>1, <2>1, <3>3
  <2> QED  BY <2>1
<1>6. first2 \notin Ends
  <2>1. CASE e.intercept = 0
    BY <2>1 DEF Ends
  <2>2. CASE e.intercept # 0
    <3>1. ~ Mocks(rule)  BY <1>1, <2>2 DEF rule
    <3>2. RequestEffect(rule, shown) # "mock"
      BY <3>1 DEF RequestEffect, Mocks
    <3>3. RequestEffect(rule, shown) # "fault"
      BY <1>5, <2>2, <3>2 DEF LiveRequestEffect, Ends
    <3>4. RequestEffect(rule, request) \notin Ends
      BY <3>1, <3>3 DEF RequestEffect, Mocks, Ends
    <3> QED  BY <2>2, <3>4
  <2> QED  BY <2>1, <2>2
<1> HIDE DEF first1, first2
<1>7. asked1 <=> asked2  BY <1>5, <1>6
<1>8. asked1 => e.intercept # 0 /\ rule.response # Nil  OBVIOUS
<1> HIDE DEF asked1, asked2
<1>9. verdict1 = verdict2  BY <1>4, <1>7, <1>8
<1> QED  BY <1>1, <1>2, <1>9

LEMMA InvImpliesLog == SimulationInv => PlainLogForetells
<1> SUFFICES ASSUME SimulationInv, step.kind = "log", SameRules, LookOnlyAt(InTheLog)
             PROVE  /\ step.came.intercept = entry.intercept
                    /\ entry.reply # Nil /\ JudgeOnlyBy(InTheLog \cup ReplyInTheLog)
                         /\ (entry.intercept = 0 \/ ~ Mocks(rules[entry.intercept])) =>
                         step.came.verdict = entry.verdict
  BY DEF PlainLogForetells
<1>1. AreStored(rules) /\ rules = entry.rules /\ \A i \in DOMAIN rules : rules[i].times = Nil
  BY DEF SimulationInv, SameRules
<1>2. entry # Nil /\ EntryIsReal /\ LogIsReal  BY DEF SimulationInv, SameRules
<1>3. PICK t \in Traffic : \E counters : EntryTells(t, counters)  BY <1>2 DEF EntryIsReal
<1>4. PICK counters : EntryTells(t, counters)  BY <1>3
<1>5. PICK reply \in RepliesOf(entry) :
        step.came = Simulated(consumed, entry.protocol, entry.request, reply, reply["body"] = {})
  BY <1>2 DEF LogIsReal
<1>6. t.protocol \in Protocols  BY SimulationConstants
<1> DEFINE came == Live(rules, counters, t)
<1>7. /\ entry.intercept = came.intercept
      /\ entry.protocol = t.protocol
      /\ entry.verdict = came.verdict
  BY <1>1, <1>4 DEF EntryTells
<1>8. PICK text \in {{}, BodyShown(rules, t)} : entry.request = LoggedRequest(t, text)
  BY <1>1, <1>4 DEF EntryTells
<1>9. InTheLog = {"request"} \X LoggedFields(t, text)
  <2>1. entry.request["body"] = text  BY <1>6, <1>8, RequestInLog
  <2> QED  BY <1>7, <2>1 DEF InTheLog, LoggedBody, LoggedFields, LoggedText
<1>10. EvaluateRequest(rules, counters, t.protocol, RequestShown(rules, t), Streaming(rules, t))
         = EvaluateRequest(rules, consumed, t.protocol, entry.request, FALSE)
  <2>1. LookOnlyAt({"request"} \X LoggedFields(t, text))  BY <1>9
  <2>2. AreStored(rules) /\ \A i \in DOMAIN rules : rules[i].times = Nil  BY <1>1
  <2>3. text \in {{}, BodyShown(rules, t)}  OBVIOUS
  <2>4. EvaluateRequest(rules, counters, t.protocol, RequestShown(rules, t), Streaming(rules, t))
          = EvaluateRequest(rules, consumed, t.protocol, LoggedRequest(t, text), FALSE)
    BY ONLY <1>6, <2>1, <2>2, <2>3, LogEvaluation
  <2> QED  BY <1>8, <2>4
<1> HIDE DEF came
<1>11. step.came.intercept = entry.intercept
  <2>1. step.came.intercept = EvaluateRequest(rules, consumed, t.protocol, entry.request, FALSE).intercept
    BY <1>5, <1>7 DEF Simulated, SimulatedOf, Outcome
  <2>2. came.intercept
          = EvaluateRequest(rules, counters, t.protocol, RequestShown(rules, t), Streaming(rules, t)).intercept
    BY DEF came, Live, LiveOn, LiveOf, Outcome
  <2> QED  BY <1>7, <1>10, <2>1, <2>2
<1>12. ASSUME entry.reply # Nil, JudgeOnlyBy(InTheLog \cup ReplyInTheLog),
              entry.intercept = 0 \/ ~ Mocks(rules[entry.intercept])
       PROVE  step.came.verdict = entry.verdict
  <2>1. /\ came.effect \notin Ends
        /\ \E replyText \in {{}, t.replyBody} :
             /\ entry.reply = LoggedReply(t, replyText)
             /\ replyText = {} \/ (~ Relayed(t) /\ ~ t.unbuffered)
    BY <1>1, <1>4, <1>12 DEF EntryTells, came
  <2>2. PICK replyText \in {{}, t.replyBody} :
          /\ entry.reply = LoggedReply(t, replyText)
          /\ replyText = {} \/ (~ Relayed(t) /\ ~ t.unbuffered)
    BY <2>1
  <2>3. ReplyInTheLog = {"response"} \X LoggedReplyFields(t, replyText)
    <3>1. entry.reply["body"] = replyText  BY <1>6, <2>2, ReplyInLog
    <3> QED  BY <1>7, <2>2, <3>1 DEF ReplyInTheLog, LoggedBody, LoggedReplyFields, LoggedText
  <2>4. \A i \in DOMAIN rules : rules[i].response # Nil =>
          ResponseVerdict(rules[i], RequestShown(rules, t), ReplyShown(rules[i], t))
            = ResponseVerdict(rules[i], entry.request, entry.reply)
    <3>1. JudgeOnlyBy(({"request"} \X LoggedFields(t, text))
                        \cup ({"response"} \X LoggedReplyFields(t, replyText)))
      BY <1>9, <1>12, <2>3
    <3>2. text \in {{}, BodyShown(rules, t)} /\ replyText \in {{}, t.replyBody}  OBVIOUS
    <3>3. AreStored(rules)  BY <1>1
    <3>4. \A i \in DOMAIN rules : rules[i].response # Nil =>
            ResponseVerdict(rules[i], RequestShown(rules, t), ReplyShown(rules[i], t))
              = ResponseVerdict(rules[i], LoggedRequest(t, text), LoggedReply(t, replyText))
      BY ONLY <1>6, <2>2, <3>1, <3>2, <3>3, LogVerdict
    <3> QED  BY <1>8, <2>2, <3>4
  <2>5. reply = entry.reply  BY <1>12 DEF RepliesOf
  <2> DEFINE missing == reply["body"] = {}
  <2>6. step.came = Simulated(consumed, t.protocol, entry.request, entry.reply, missing)
    BY <1>5, <1>7, <2>5
  <2> HIDE DEF missing
  <2>7. Simulated(consumed, t.protocol, entry.request, entry.reply, missing).verdict = came.verdict
    <3>1. /\ Live(rules, counters, t).effect \notin Ends
          /\ LET i == Live(rules, counters, t).intercept IN i = 0 \/ ~ Mocks(rules[i])
      BY <1>7, <1>12, <2>1 DEF came
    <3> DEFINE request == entry.request  given == entry.reply
    <3>2. AreStored(rules) /\ given # Nil  BY <1>1, <1>12
    <3>3. EvaluateRequest(rules, counters, t.protocol, RequestShown(rules, t), Streaming(rules, t))
            = EvaluateRequest(rules, consumed, t.protocol, request, FALSE)
      BY <1>10
    <3>4. \A i \in DOMAIN rules : rules[i].response # Nil =>
            ResponseVerdict(rules[i], RequestShown(rules, t), ReplyShown(rules[i], t))
              = ResponseVerdict(rules[i], request, given)
      BY <2>4
    <3> HIDE DEF request, given
    <3>5. Simulated(consumed, t.protocol, request, given, missing).verdict
            = Live(rules, counters, t).verdict
      BY ONLY <3>1, <3>2, <3>3, <3>4, LogAsks
    <3> QED  BY <3>5 DEF request, given, came
  <2> QED  BY <1>7, <2>6, <2>7
<1> QED  BY <1>11, <1>12

(* Simulating a logged exchange under the rules it met finds the rule that *)
(* applied, and its verdict on a reply nobody changed, as long as no rule  *)
(* looks at what the log does not have as the listener saw it.             *)
THEOREM PlainLogsForetell == Spec => []PlainLogForetells
<1> QED  BY StepsAreReal, InvImpliesLog, PTL
=============================================================================
