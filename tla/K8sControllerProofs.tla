-------------------------- MODULE K8sControllerProofs --------------------------
(***************************************************************************)
(* Proofs about K8sController for every number of calls, whatever sets of  *)
(* deployments, services and ingresses they are given and whatever         *)
(* migrations they run first, and every bound on overlaps and faults.      *)
(***************************************************************************)
EXTENDS K8sController, SequenceTheorems, FiniteSetTheorems, TLAPS

-------------------------------------------------------------------------------
(* Sequences of API calls: what is in them, and what comes before what.    *)

Within(s) == {s[i] : i \in 1 .. Len(s)}
Ordered(s, a, b) == \A i \in 1 .. Len(s) : s[i] = b => \E k \in 1 .. i - 1 : s[k] = a

\* A call made leaves the rest of the list (Succeeds, for the round of a loop).
LEMMA TailWithin ==
    ASSUME NEW S, NEW s \in Seq(S), s # <<>>
    PROVE  /\ Head(s) \in S /\ Tail(s) \in Seq(S)
           /\ Within(s) = {Head(s)} \cup Within(Tail(s))
<1>1. /\ Head(s) \in S /\ Tail(s) \in Seq(S) /\ Len(Tail(s)) = Len(s) - 1
      /\ \A i \in 1 .. Len(Tail(s)) : Tail(s)[i] = s[i + 1]
  BY HeadTailProperties
<1>2. Len(s) \in Nat /\ Len(s) # 0 /\ Head(s) = s[1]
  BY EmptySeq, LenProperties
<1>3. ASSUME NEW x \in Within(s) PROVE x \in {Head(s)} \cup Within(Tail(s))
  <2>1. PICK i \in 1 .. Len(s) : x = s[i]
    BY <1>3 DEF Within
  <2>2. CASE i = 1
    BY <1>2, <2>1, <2>2
  <2>3. CASE i # 1
    <3>1. i - 1 \in 1 .. Len(Tail(s)) /\ (i - 1) + 1 = i
      BY <1>1, <1>2, <2>1, <2>3
    <3>2. Tail(s)[i - 1] = s[(i - 1) + 1]
      BY <1>1, <3>1
    <3> QED  BY <2>1, <3>1, <3>2 DEF Within
  <2> QED  BY <2>2, <2>3
<1>4. ASSUME NEW i \in 1 .. Len(Tail(s)) PROVE Tail(s)[i] \in Within(s)
  <2>1. i + 1 \in 1 .. Len(s)
    BY <1>1, <1>2
  <2> QED  BY <1>1, <2>1 DEF Within
<1>5. Head(s) \in Within(s)
  BY <1>2 DEF Within
<1> QED  BY <1>1, <1>3, <1>4, <1>5 DEF Within

\* What must come after another call is not made first, and still comes after it when
\* a third is made.
LEMMA TailOrdered ==
    ASSUME NEW S, NEW s \in Seq(S), s # <<>>, NEW a, NEW b, Ordered(s, a, b)
    PROVE  Head(s) # b /\ (Head(s) # a => Ordered(Tail(s), a, b))
<1>1. /\ Len(Tail(s)) = Len(s) - 1
      /\ \A i \in 1 .. Len(Tail(s)) : Tail(s)[i] = s[i + 1]
  BY HeadTailProperties
<1>2. Len(s) \in Nat /\ Len(s) # 0 /\ Head(s) = s[1]
  BY EmptySeq, LenProperties
<1>3. Head(s) # b
  BY <1>2 DEF Ordered
<1>4. ASSUME Head(s) # a, NEW i \in 1 .. Len(Tail(s)), Tail(s)[i] = b
      PROVE  \E k \in 1 .. i - 1 : Tail(s)[k] = a
  <2>1. i + 1 \in 1 .. Len(s) /\ s[i + 1] = b
    BY <1>1, <1>2, <1>4
  <2>2. PICK k \in 1 .. (i + 1) - 1 : s[k] = a
    BY <2>1 DEF Ordered
  <2>3. k # 1
    BY <1>2, <1>4, <2>2
  <2>4. k - 1 \in 1 .. i - 1 /\ k - 1 \in 1 .. Len(Tail(s)) /\ (k - 1) + 1 = k
    BY <1>1, <1>2, <2>2, <2>3
  <2>5. Tail(s)[k - 1] = s[(k - 1) + 1]
    BY <1>1, <2>4
  <2> QED  BY <2>2, <2>4, <2>5
<1> QED  BY <1>3, <1>4 DEF Ordered

\* The calls for an item are those for its deployment, its service and its ingress.
LEMMA ConcatWithin ==
    ASSUME NEW S, NEW s \in Seq(S), NEW t \in Seq(S)
    PROVE  /\ s \o t \in Seq(S)
           /\ Within(s \o t) = Within(s) \cup Within(t)
           /\ \A a, b : Ordered(s, a, b) /\ b \notin Within(t) => Ordered(s \o t, a, b)
<1>1. /\ s \o t \in Seq(S) /\ Len(s \o t) = Len(s) + Len(t)
      /\ \A i \in 1 .. Len(s) + Len(t) : (s \o t)[i] = IF i <= Len(s) THEN s[i] ELSE t[i - Len(s)]
  BY ConcatProperties
<1>2. Len(s) \in Nat /\ Len(t) \in Nat
  BY LenProperties
<1>3. \A i \in 1 .. Len(s) : i \in 1 .. Len(s \o t) /\ (s \o t)[i] = s[i]
  BY <1>1, <1>2
<1>4. ASSUME NEW i \in 1 .. Len(t)
      PROVE  Len(s) + i \in 1 .. Len(s \o t) /\ (s \o t)[Len(s) + i] = t[i]
  <2>1. Len(s) + i \in 1 .. Len(s) + Len(t) /\ ~(Len(s) + i <= Len(s)) /\ (Len(s) + i) - Len(s) = i
    BY <1>2
  <2> QED  BY <1>1, <2>1
<1>5. \A i \in 1 .. Len(s \o t) : \/ i \in 1 .. Len(s) /\ (s \o t)[i] = s[i]
                                  \/ i - Len(s) \in 1 .. Len(t) /\ (s \o t)[i] = t[i - Len(s)]
  BY <1>1, <1>2
<1>6. Within(s \o t) = Within(s) \cup Within(t)
  <2>1. Within(s \o t) \subseteq Within(s) \cup Within(t)
    BY <1>5 DEF Within
  <2>2. Within(s) \subseteq Within(s \o t)
    BY <1>3 DEF Within
  <2>3. Within(t) \subseteq Within(s \o t)
    BY <1>4 DEF Within
  <2> QED  BY <2>1, <2>2, <2>3
<1>7. ASSUME NEW a, NEW b, Ordered(s, a, b), b \notin Within(t), NEW i \in 1 .. Len(s \o t),
             (s \o t)[i] = b
      PROVE  \E k \in 1 .. i - 1 : (s \o t)[k] = a
  <2>1. i \in 1 .. Len(s) /\ s[i] = b
    BY <1>5, <1>7 DEF Within
  <2>2. PICK k \in 1 .. i - 1 : s[k] = a
    BY <1>7, <2>1 DEF Ordered
  <2>3. k \in 1 .. Len(s)
    BY <1>2, <2>1, <2>2
  <2> QED  BY <1>3, <2>2, <2>3
<1> QED  BY <1>1, <1>6, <1>7 DEF Ordered

\* The jobs of a call are created one by one (RunMigrations).
LEMMA SetToSeqWithin ==
    ASSUME NEW S, IsFiniteSet(S)
    PROVE  SetToSeq(S) \in Seq(S) /\ Within(SetToSeq(S)) \subseteq S
<1>1. Cardinality(S) \in Nat /\ ExistsBijection(1 .. Cardinality(S), S)
  BY FS_CardinalityType
<1>2. \E f \in [1 .. Cardinality(S) -> S] : IsInjective(f)
  BY <1>1 DEF ExistsBijection, Bijection, Injection
<1>3. SetToSeq(S) \in [1 .. Cardinality(S) -> S]
  BY <1>2 DEF SetToSeq
<1>4. SetToSeq(S) \in Seq(S)
  BY <1>1, <1>3, IsASeq
<1> QED  BY <1>4, ElementOfSeq DEF Within

-------------------------------------------------------------------------------
(* The calls for an item of a set, and for a deletion                      *)

\* Sequences of calls, written out (ForItem, Deletion).
LEMMA OneCall ==
    ASSUME NEW S, NEW w \in S
    PROVE  <<w>> \in Seq(S) /\ Within(<<w>>) = {w}
<1>1. <<w>> \in Seq(S) /\ Len(<<w>>) = 1 /\ <<w>>[1] = w
  OBVIOUS
<1>2. 1 .. 1 = {1}
  OBVIOUS
<1> QED  BY <1>1, <1>2 DEF Within

\* A list of three API calls holds those three.
LEMMA ThreeCalls ==
    ASSUME NEW S, NEW w \in S, NEW x \in S, NEW y \in S
    PROVE  <<w, x, y>> \in Seq(S) /\ Within(<<w, x, y>>) = {w, x, y}
<1>1. /\ <<w, x, y>> \in Seq(S) /\ Len(<<w, x, y>>) = 3
      /\ <<w, x, y>>[1] = w /\ <<w, x, y>>[2] = x /\ <<w, x, y>>[3] = y
  OBVIOUS
<1>2. 1 .. 3 = {1, 2, 3}
  OBVIOUS
<1> QED  BY <1>1, <1>2 DEF Within

\* A list of four holds those four.
LEMMA FourCalls ==
    ASSUME NEW S, NEW w \in S, NEW x \in S, NEW y \in S, NEW z \in S
    PROVE  <<w, x, y, z>> \in Seq(S) /\ Within(<<w, x, y, z>>) = {w, x, y, z}
<1>1. /\ <<w, x, y, z>> \in Seq(S) /\ Len(<<w, x, y, z>>) = 4
      /\ <<w, x, y, z>>[1] = w /\ <<w, x, y, z>>[2] = x
      /\ <<w, x, y, z>>[3] = y /\ <<w, x, y, z>>[4] = z
  OBVIOUS
<1>2. 1 .. 4 = {1, 2, 3, 4}
  OBVIOUS
<1> QED  BY <1>1, <1>2 DEF Within

\* What is created or updated by the API calls of w, the item p asks for.
OnlyFor(p, w) ==
    \A m : /\ <<"create", m>> \in w \/ <<"update", m>> \in w => m = p.name
           /\ <<"create_service", m>> \in w \/ <<"update_service", m>> \in w =>
                  p.service # None /\ m = p.service
           /\ <<"create_ingress", m>> \in w \/ <<"update_ingress", m>> \in w =>
                  p.ingress /\ m = p.name

\* What processDeploymentSet does for an item: the key and the account come before the
\* deployment is created, what is updated was listed, and each object that the item asks
\* for is created or updated.
LEMMA ForItemCalls ==
    ASSUME NEW listed \in Listing, NEW p \in Item
    PROVE  LET s == ForItem(listed, p) n == p.name IN
           /\ s \in Seq(APICalls)
           /\ Within(s) \subseteq ItemCalls \X (Names \cup Services)
           /\ \A m : Ordered(s, <<"key", m>>, <<"create", m>>)
           /\ \A m : Ordered(s, <<"account", m>>, <<"create", m>>)
           /\ \A m : <<"update", m>> \in Within(s) => listed.deployments[m] # None
           /\ <<"create", n>> \in Within(s) \/ <<"update", n>> \in Within(s)
           /\ <<"account", n>> \in Within(s) \/ <<"get_account", n>> \in Within(s)
           /\ <<"key", n>> \in Within(s)
           /\ p.service # None => \/ <<"create_service", p.service>> \in Within(s)
                                  \/ <<"update_service", p.service>> \in Within(s)
           /\ p.ingress => \/ <<"create_ingress", n>> \in Within(s)
                           \/ <<"update_ingress", n>> \in Within(s)
           /\ OnlyFor(p, Within(s))
<1> DEFINE n == p.name
           d == ForDeployment(listed, p)
           v == ForService(listed, p)
           g == ForIngress(listed, p)
<1>n. n \in Names /\ p.service \in Services \cup {None} /\ p.ingress \in BOOLEAN
  BY DEF Item
<1>d. /\ d \in Seq(APICalls)
      /\ \/ listed.deployments[n] # None
                /\ Within(d) = {<<"key", n>>, <<"get_account", n>>, <<"update", n>>}
         \/ Within(d) = {<<"check", n>>, <<"account", n>>, <<"key", n>>, <<"create", n>>}
      /\ \A m : Ordered(d, <<"key", m>>, <<"create", m>>)
      /\ \A m : Ordered(d, <<"account", m>>, <<"create", m>>)
  <2> DEFINE w == <<"check", n>>
             x == <<"account", n>>
             y == <<"key", n>>
             z == <<"create", n>>
             a == <<"get_account", n>>
             u == <<"update", n>>
  <2>1. w \in APICalls /\ x \in APICalls /\ y \in APICalls /\ z \in APICalls /\ a \in APICalls
            /\ u \in APICalls
    BY <1>n DEF APICalls, ItemCalls
  <2>2. CASE listed.deployments[n] # None
    <3>1. d = <<y, a, u>>
      BY <2>2 DEF ForDeployment
    <3>2. d \in Seq(APICalls) /\ Within(d) = {y, a, u}
      <4> HIDE DEF d, y, a, u
      <4> QED  BY <2>1, <3>1, ThreeCalls
    <3>3. \A m : <<"create", m>> \notin Within(d)
      BY <3>2
    <3>4. \A b, m : Ordered(d, b, <<"create", m>>)
      BY <3>3 DEF Ordered, Within
    <3> QED  BY <2>2, <3>2, <3>4
  <2>3. CASE listed.deployments[n] = None
    <3>1. d = <<w, x, y, z>>
      BY <2>3 DEF ForDeployment
    <3>2. d \in Seq(APICalls) /\ Within(d) = {w, x, y, z}
      <4> HIDE DEF d, w, x, y, z
      <4> QED  BY <2>1, <3>1, FourCalls
    <3>3. \A m : /\ w # <<"create", m>> /\ x # <<"create", m>> /\ y # <<"create", m>>
                 /\ z = <<"create", m>> => x = <<"account", m>> /\ y = <<"key", m>>
      OBVIOUS
    <3>4. Len(d) = 4 /\ d[1] = w /\ d[2] = x /\ d[3] = y /\ d[4] = z
      BY <3>1
    <3>5. \A i \in 1 .. Len(d) : i = 1 \/ i = 2 \/ i = 3 \/ i = 4
      BY <3>4
    <3> HIDE DEF d, w, x, y, z
    <3>6. ASSUME NEW m, NEW i \in 1 .. Len(d), d[i] = <<"create", m>>
          PROVE  /\ \E k \in 1 .. i - 1 : d[k] = <<"key", m>>
                 /\ \E k \in 1 .. i - 1 : d[k] = <<"account", m>>
      <4>1. i = 4
        BY <3>3, <3>4, <3>5, <3>6
      <4>2. 2 \in 1 .. i - 1 /\ 3 \in 1 .. i - 1
        BY <4>1
      <4> QED  BY <3>3, <3>4, <3>6, <4>1, <4>2
    <3> QED  BY <3>2, <3>6 DEF Ordered, w, x, y, z
  <2> QED  BY <2>2, <2>3
<1>v. /\ v \in Seq(APICalls)
      /\ \/ p.service = None /\ Within(v) = {}
         \/ p.service \in Services /\ Within(v) = {<<"update_service", p.service>>}
         \/ p.service \in Services /\ Within(v) = {<<"create_service", p.service>>}
  <2>1. CASE p.service = None
    BY <2>1, EmptySeq DEF ForService, Within
  <2>2. CASE p.service \in Services
    <3>1. <<"update_service", p.service>> \in APICalls
              /\ <<"create_service", p.service>> \in APICalls
      BY <2>2 DEF APICalls, ItemCalls, Deletions
    <3>2. \/ v = <<<<"update_service", p.service>>>> \/ v = <<<<"create_service", p.service>>>>
      BY <2>2, NoneAssumption DEF ForService
    <3> QED  BY <2>2, <3>1, <3>2, OneCall
  <2> QED  BY <1>n, <2>1, <2>2
<1>g. /\ g \in Seq(APICalls)
      /\ \/ ~p.ingress /\ Within(g) = {}
         \/ p.ingress /\ Within(g) = {<<"update_ingress", n>>}
         \/ p.ingress /\ Within(g) = {<<"create_ingress", n>>}
  <2>1. CASE ~p.ingress
    BY <2>1, EmptySeq DEF ForIngress, Within
  <2>2. CASE p.ingress
    <3>1. <<"update_ingress", n>> \in APICalls /\ <<"create_ingress", n>> \in APICalls
      BY <1>n DEF APICalls, ItemCalls, Deletions
    <3>2. \/ g = <<<<"update_ingress", n>>>> \/ g = <<<<"create_ingress", n>>>>
      BY <2>2 DEF ForIngress
    <3> QED  BY <2>2, <3>1, <3>2, OneCall
  <2> QED  BY <2>1, <2>2
<1> HIDE DEF n, d, v, g
<1>1. /\ d \o v \in Seq(APICalls) /\ Within(d \o v) = Within(d) \cup Within(v)
      /\ \A a, b : Ordered(d, a, b) /\ b \notin Within(v) => Ordered(d \o v, a, b)
  BY <1>d, <1>v, ConcatWithin
<1>2. /\ (d \o v) \o g \in Seq(APICalls)
      /\ Within((d \o v) \o g) = Within(d) \cup Within(v) \cup Within(g)
      /\ \A a, b : Ordered(d, a, b) /\ b \notin Within(v) /\ b \notin Within(g)
                   => Ordered((d \o v) \o g, a, b)
  <2> DEFINE e == d \o v
  <2>1. e \in Seq(APICalls) /\ Within(e) = Within(d) \cup Within(v)
    BY <1>1
  <2>2. \A a, b : Ordered(d, a, b) /\ b \notin Within(v) => Ordered(e, a, b)
    BY <1>1
  <2> HIDE DEF e
  <2>3. /\ e \o g \in Seq(APICalls) /\ Within(e \o g) = Within(e) \cup Within(g)
        /\ \A a, b : Ordered(e, a, b) /\ b \notin Within(g) => Ordered(e \o g, a, b)
    BY <1>g, <2>1, ConcatWithin
  <2>4. \A a, b : Ordered(d, a, b) /\ b \notin Within(v) /\ b \notin Within(g)
            => Ordered(e \o g, a, b)
    BY <2>2, <2>3
  <2> QED  BY <2>1, <2>3, <2>4 DEF e
<1>3. ForItem(listed, p) = (d \o v) \o g
  BY DEF ForItem, d, v, g
<1>4. \A m : <<"create", m>> \notin Within(v) /\ <<"create", m>> \notin Within(g)
  BY <1>v, <1>g
<1>5. /\ Within(d) \subseteq ItemCalls \X (Names \cup Services)
      /\ Within(v) \subseteq ItemCalls \X (Names \cup Services)
      /\ Within(g) \subseteq ItemCalls \X (Names \cup Services)
  <2>1. Within(d) \subseteq ItemCalls \X (Names \cup Services)
    BY <1>n, <1>d DEF ItemCalls
  <2>2. Within(v) \subseteq ItemCalls \X (Names \cup Services)
    BY <1>v DEF ItemCalls
  <2>3. Within(g) \subseteq ItemCalls \X (Names \cup Services)
    BY <1>n, <1>g DEF ItemCalls
  <2> QED  BY <2>1, <2>2, <2>3
<1>6. \A m : <<"update", m>> \in Within(d) \cup Within(v) \cup Within(g)
          => listed.deployments[m] # None
  BY <1>d, <1>v, <1>g
<1>7. <<"create", n>> \in Within(d) \/ <<"update", n>> \in Within(d)
  BY <1>d
<1>8. <<"account", n>> \in Within(d) \/ <<"get_account", n>> \in Within(d)
  BY <1>d
<1>9. <<"key", n>> \in Within(d)
  BY <1>d
<1>10. p.service # None => \/ <<"create_service", p.service>> \in Within(v)
                           \/ <<"update_service", p.service>> \in Within(v)
  BY <1>v
<1>11. p.ingress => \/ <<"create_ingress", n>> \in Within(g)
                    \/ <<"update_ingress", n>> \in Within(g)
  BY <1>g
<1>14. OnlyFor(p, Within(d) \cup Within(v) \cup Within(g))
  <2>1. OnlyFor(p, Within(d))
    <3> DEFINE w == Within(d)
    <3>1. \/ w = {<<"key", n>>, <<"get_account", n>>, <<"update", n>>}
          \/ w = {<<"check", n>>, <<"account", n>>, <<"key", n>>, <<"create", n>>}
      BY <1>d
    <3> HIDE DEF w
    <3>2. \A m : /\ <<"create", m>> \in w => m = n
                 /\ <<"update", m>> \in w => m = n
      BY <3>1
    <3>3. \A m : /\ <<"create_service", m>> \notin w /\ <<"update_service", m>> \notin w
                 /\ <<"create_ingress", m>> \notin w /\ <<"update_ingress", m>> \notin w
      BY <3>1
    <3> QED  BY <3>2, <3>3 DEF OnlyFor, n, w
  <2>2. OnlyFor(p, Within(v))
    BY <1>v, NoneAssumption DEF OnlyFor
  <2>3. OnlyFor(p, Within(g))
    BY <1>g DEF OnlyFor, n
  <2> QED  BY <2>1, <2>2, <2>3 DEF OnlyFor
<1> DEFINE s == ForItem(listed, p)
<1>12. s \in Seq(APICalls) /\ Within(s) = Within(d) \cup Within(v) \cup Within(g)
  BY <1>2, <1>3
<1>13. \A m : Ordered(s, <<"key", m>>, <<"create", m>>)
           /\ Ordered(s, <<"account", m>>, <<"create", m>>)
  <2>1. \A a, b : Ordered(d, a, b) /\ b \notin Within(v) /\ b \notin Within(g) => Ordered(s, a, b)
    BY <1>2, <1>3
  <2> HIDE DEF s
  <2> QED  BY <1>4, <1>d, <2>1
<1> HIDE DEF s
<1> QED  BY <1>5, <1>6, <1>7, <1>8, <1>9, <1>10, <1>11, <1>12, <1>13, <1>14 DEF s, n

\* The calls of a deletion: the secret and the account go after the deployment.
LEMMA DeletionCalls ==
    ASSUME NEW n \in Names
    PROVE  /\ Deletion(n) \in Seq(APICalls)
           /\ Within(Deletion(n)) = {<<"delete", n>>, <<"delete_key", n>>, <<"delete_account", n>>}
           /\ \A m : Ordered(Deletion(n), <<"delete", m>>, <<"delete_key", m>>)
           /\ \A m : Ordered(Deletion(n), <<"delete", m>>, <<"delete_account", m>>)
<1> DEFINE x == <<"delete", n>>
           y == <<"delete_key", n>>
           z == <<"delete_account", n>>
           s == Deletion(n)
<1>1. x \in APICalls /\ y \in APICalls /\ z \in APICalls
  BY DEF APICalls, ItemCalls, Deletions
<1>2. s = <<x, y, z>>
  BY DEF Deletion
<1>4. Len(s) = 3 /\ s[1] = x /\ s[2] = y /\ s[3] = z
  BY <1>2
<1>5. \A i \in 1 .. Len(s) : i = 1 \/ i = 2 \/ i = 3
  BY <1>4
<1>6. \A m : /\ x # <<"delete_key", m>> /\ x # <<"delete_account", m>>
             /\ y = <<"delete_key", m>> \/ z = <<"delete_account", m>> => x = <<"delete", m>>
             /\ y # <<"delete_account", m>> /\ z # <<"delete_key", m>>
  OBVIOUS
<1> HIDE DEF x, y, z, s
<1>3. s \in Seq(APICalls) /\ Within(s) = {x, y, z}
  BY <1>1, <1>2, ThreeCalls
<1>7. ASSUME NEW m, NEW i \in 1 .. Len(s),
             s[i] = <<"delete_key", m>> \/ s[i] = <<"delete_account", m>>
      PROVE  \E k \in 1 .. i - 1 : s[k] = <<"delete", m>>
  <2>1. (i = 2 \/ i = 3) /\ x = <<"delete", m>>
    BY <1>4, <1>5, <1>6, <1>7
  <2>2. 1 \in 1 .. i - 1
    BY <2>1
  <2> QED  BY <1>4, <2>1, <2>2
<1> QED  BY <1>3, <1>7 DEF Ordered, x, y, z, s

-------------------------------------------------------------------------------
(* What a step does to the call that takes it                              *)

Others(c) == \A d \in Calls : d # c => call'[d] = call[d]

CallType == call \in [Calls -> Call]

\* An API call is made (Succeeds), ends the call (Errs), or is only logged (Skips).
LEMMA SucceedsFields ==
    ASSUME CallType, NEW c \in Calls, call[c].todo # <<>>, Succeeds(c)
    PROVE  /\ CallType' /\ Others(c)
           /\ call'[c].todo = Tail(call[c].todo)
           /\ UNCHANGED <<call[c].phase, call[c].waits, call[c].failures, call[c].item,
                          call[c].obsolete, call[c].listed, call[c].skipped, call[c].result>>
<1>1. call[c] \in Call
  BY DEF CallType
<1>2. Tail(call[c].todo) \in Seq(APICalls)
  BY <1>1, TailWithin DEF Call
<1>3. call' = [call EXCEPT ![c] = [call[c] EXCEPT !.todo = Tail(call[c].todo)]]
  BY DEF Succeeds
<1> DEFINE r == [call[c] EXCEPT !.todo = Tail(call[c].todo)]
<1>4. /\ r \in Call /\ r.todo = Tail(call[c].todo)
      /\ r.phase = call[c].phase /\ r.waits = call[c].waits /\ r.failures = call[c].failures
      /\ r.item = call[c].item /\ r.obsolete = call[c].obsolete /\ r.listed = call[c].listed
      /\ r.skipped = call[c].skipped /\ r.result = call[c].result
  BY <1>1, <1>2 DEF Call
<1> HIDE DEF r
<1> QED  BY <1>3, <1>4 DEF Others, CallType, r

\* An API call that fails ends the call with an error, and nothing more is to do.
LEMMA ErrsFields ==
    ASSUME CallType, NEW c \in Calls, Errs(c)
    PROVE  /\ CallType' /\ Others(c)
           /\ call'[c].phase = "done" /\ call'[c].result = "error" /\ call'[c].todo = <<>>
           /\ UNCHANGED <<call[c].waits, call[c].failures, call[c].item,
                          call[c].obsolete, call[c].listed, call[c].skipped>>
<1>1. call[c] \in Call
  BY DEF CallType
<1> DEFINE r == [call[c] EXCEPT !.phase = "done", !.result = "error", !.todo = <<>>]
<1>2. call' = [call EXCEPT ![c] = r]
  BY <1>1 DEF Errs, CallType
<1>3. <<>> \in Seq(APICalls)
  BY EmptySeq
<1>4. /\ r \in Call /\ r.phase = "done" /\ r.result = "error" /\ r.todo = <<>>
      /\ r.waits = call[c].waits /\ r.failures = call[c].failures
      /\ r.item = call[c].item /\ r.obsolete = call[c].obsolete /\ r.listed = call[c].listed
      /\ r.skipped = call[c].skipped
  BY <1>1, <1>3 DEF Call, Phase
<1> HIDE DEF r
<1> QED  BY <1>2, <1>4 DEF Others, CallType

\* An API call that fails with an error that is only logged ends the work on its item.
LEMMA SkipsFields ==
    ASSUME CallType, NEW c \in Calls, Skips(c)
    PROVE  /\ CallType' /\ Others(c)
           /\ call'[c].todo = <<>> /\ call'[c].skipped
           /\ UNCHANGED <<call[c].phase, call[c].waits, call[c].failures, call[c].item,
                          call[c].obsolete, call[c].listed, call[c].result>>
<1>1. call[c] \in Call
  BY DEF CallType
<1> DEFINE r == [call[c] EXCEPT !.todo = <<>>, !.skipped = TRUE]
<1>2. call' = [call EXCEPT ![c] = r]
  BY <1>1 DEF Skips, CallType
<1>3. <<>> \in Seq(APICalls)
  BY EmptySeq
<1>4. /\ r \in Call /\ r.todo = <<>> /\ r.skipped
      /\ r.phase = call[c].phase /\ r.waits = call[c].waits /\ r.failures = call[c].failures
      /\ r.item = call[c].item /\ r.obsolete = call[c].obsolete /\ r.listed = call[c].listed
      /\ r.result = call[c].result
  BY <1>1, <1>3 DEF Call
<1> HIDE DEF r
<1> QED  BY <1>2, <1>4 DEF Others, CallType

\* A call begins, polls its jobs, and goes on to the listing.
LEMMA BeginFields ==
    ASSUME CallType, NEW c \in Calls, Begin(c)
    PROVE  /\ CallType' /\ Others(c) /\ call[c].phase = "idle"
           /\ call'[c].phase = "migrate" /\ call'[c].waits = Migrations[c]
           /\ Within(call'[c].todo) \subseteq {"job"} \X Migrations[c]
           /\ UNCHANGED <<call[c].failures, call[c].item, call[c].obsolete, call[c].listed,
                          call[c].skipped, call[c].result>>
<1> DEFINE todo == SetToSeq({<<"job", j>> : j \in Migrations[c]})
           r == [call[c] EXCEPT !.phase = "migrate", !.waits = Migrations[c], !.todo = todo]
<1>1. call[c] \in Call /\ Migrations[c] \subseteq Jobs
  BY WantsAssumption DEF CallType
<1>2. call' = [call EXCEPT ![c] = r]
  BY <1>1 DEF Begin, CallType
<1>3. todo \in Seq(APICalls) /\ Within(todo) \subseteq {"job"} \X Migrations[c]
  <2> DEFINE S == {<<"job", j>> : j \in Migrations[c]}
  <2>1. IsFiniteSet(S)
    <3>1. IsFiniteSet(Migrations[c])
      BY FiniteAssumption
    <3> DEFINE f == [j \in Migrations[c] |-> <<"job", j>>]
    <3>2. f \in Surjection(Migrations[c], S)
      BY DEF Surjection
    <3> QED  BY <3>1, <3>2, FS_Surjection
  <2>2. S \subseteq APICalls /\ S \subseteq {"job"} \X Migrations[c]
    BY <1>1 DEF APICalls
  <2> HIDE DEF S
  <2>3. SetToSeq(S) \in Seq(S) /\ Within(SetToSeq(S)) \subseteq S
    BY <2>1, SetToSeqWithin
  <2>4. SetToSeq(S) \in Seq(APICalls)
    BY <2>2, <2>3
  <2> QED  BY <2>2, <2>3, <2>4 DEF S
<1> HIDE DEF todo
<1>4. /\ r \in Call /\ r.phase = "migrate" /\ r.waits = Migrations[c] /\ r.todo = todo
      /\ r.failures = call[c].failures
      /\ r.item = call[c].item /\ r.obsolete = call[c].obsolete /\ r.listed = call[c].listed
      /\ r.skipped = call[c].skipped /\ r.result = call[c].result
  BY <1>1, <1>3 DEF Call, Phase
<1>5. call[c].phase = "idle"
  BY DEF Begin, In
<1> HIDE DEF r
<1> QED  BY <1>2, <1>3, <1>4, <1>5 DEF Others, CallType

\* A poll that finds a job settled waits for it no more, and remembers whether it failed.
LEMMA PollFields ==
    ASSUME CallType, NEW c \in Calls, NEW j \in Jobs, Poll(c, j)
    PROVE  /\ CallType' /\ Others(c) /\ call[c].phase = "migrate" /\ Settled(j)
           /\ call'[c].waits = call[c].waits \ {j}
           /\ ~call'[c].failures => ~call[c].failures /\ jobs[j] \notin {"retrying", "failed"}
           /\ UNCHANGED <<call[c].phase, call[c].todo, call[c].item, call[c].obsolete,
                          call[c].listed, call[c].skipped, call[c].result>>
<1> DEFINE w == call[c].waits \ {j}
           f == call[c].failures \/ jobs[j] \in {"retrying", "failed"}
           r == [call[c] EXCEPT !.waits = w, !.failures = f]
<1>1. call[c] \in Call
  BY DEF CallType
<1>2. call' = [call EXCEPT ![c] = r]
  BY <1>1 DEF Poll, CallType
<1>3. w \in SUBSET Jobs
  BY <1>1 DEF Call
<1>4. f \in BOOLEAN /\ (~f => ~call[c].failures /\ jobs[j] \notin {"retrying", "failed"})
  BY <1>1 DEF Call
<1> HIDE DEF w, f
<1>5. /\ r \in Call /\ r.waits = w /\ r.failures = f
      /\ r.phase = call[c].phase /\ r.todo = call[c].todo
      /\ r.item = call[c].item /\ r.obsolete = call[c].obsolete /\ r.listed = call[c].listed
      /\ r.skipped = call[c].skipped /\ r.result = call[c].result
  BY <1>1, <1>3, <1>4 DEF Call
<1>6. call[c].phase = "migrate" /\ Settled(j)
  BY DEF Poll, Polling, In
<1> HIDE DEF r
<1>7. /\ CallType' /\ Others(c) /\ call'[c] = r
  BY <1>2, <1>5 DEF Others, CallType
<1> QED  BY <1>4, <1>5, <1>6, <1>7 DEF w

\* When the jobs are settled, the call goes on to list the deployments.
LEMMA MigrationsDoneFields ==
    ASSUME CallType, NEW c \in Calls, call' = [call EXCEPT ![c].phase = "list"]
    PROVE  /\ CallType' /\ Others(c)
           /\ call'[c].phase = "list"
           /\ UNCHANGED <<call[c].todo, call[c].waits, call[c].failures, call[c].item,
                          call[c].obsolete, call[c].listed, call[c].skipped, call[c].result>>
<1> DEFINE r == [call[c] EXCEPT !.phase = "list"]
<1>1. call[c] \in Call
  BY DEF CallType
<1>2. call' = [call EXCEPT ![c] = r]
  BY <1>1 DEF CallType
<1>3. /\ r \in Call /\ r.phase = "list" /\ r.todo = call[c].todo
      /\ r.waits = call[c].waits /\ r.failures = call[c].failures
      /\ r.item = call[c].item /\ r.obsolete = call[c].obsolete /\ r.listed = call[c].listed
      /\ r.skipped = call[c].skipped /\ r.result = call[c].result
  BY <1>1 DEF Call, Phase
<1> HIDE DEF r
<1> QED  BY <1>2, <1>3 DEF Others, CallType

\* What is obsolete was listed, and the set does not ask for it (processDeploymentSet).
LEMMA ObsoleteIsNotWanted ==
    ASSUME NEW c \in Calls, deployments \in Objects(Names), services \in Objects(Services),
           ingresses \in Objects(Names)
    PROVE  /\ Obsolete(c) \subseteq Kinds \X (Names \cup Services)
           /\ \A n : <<"deployment", n>> \in Obsolete(c) <=>
                         n \in Present(deployments) \ NamesOf(c)
           /\ \A s : <<"service", s>> \in Obsolete(c) <=> s \in Present(services) \ ServicesOf(c)
           /\ \A n : <<"ingress", n>> \in Obsolete(c) <=>
                         n \in Present(ingresses) \ IngressesOf(c)
<1>1. /\ Present(deployments) \subseteq Names /\ Present(services) \subseteq Services
      /\ Present(ingresses) \subseteq Names
  BY DEF Present, Objects
<1> DEFINE D == Present(deployments) \ NamesOf(c)
           S == Present(services) \ ServicesOf(c)
           G == Present(ingresses) \ IngressesOf(c)
<1>2. D \subseteq Names /\ S \subseteq Services /\ G \subseteq Names
  BY <1>1
<1>3. Obsolete(c) = {<<"deployment", n>> : n \in D} \cup {<<"service", s>> : s \in S}
                    \cup {<<"ingress", n>> : n \in G}
  BY DEF Obsolete
<1> HIDE DEF D, S, G
<1>4. Obsolete(c) \subseteq Kinds \X (Names \cup Services)
  BY <1>2, <1>3 DEF Kinds
<1>5. \A n : <<"deployment", n>> \in Obsolete(c) <=> n \in D
  BY <1>3
<1>6. \A n : <<"service", n>> \in Obsolete(c) <=> n \in S
  BY <1>3
<1>7. \A n : <<"ingress", n>> \in Obsolete(c) <=> n \in G
  BY <1>3
<1> QED  BY <1>4, <1>5, <1>6, <1>7 DEF D, S, G

\* A call lists what exists (listExistingResources).
LEMMA ListFields ==
    ASSUME CallType, deployments \in Objects(Names), services \in Objects(Services),
           ingresses \in Objects(Names), NEW c \in Calls, ListExistingResources(c)
    PROVE  /\ CallType' /\ Others(c) /\ call[c].phase = "list"
           /\ call'[c].phase = "update" /\ call'[c].obsolete = Obsolete(c)
           /\ call'[c].listed.deployments = deployments
           /\ UNCHANGED <<call[c].todo, call[c].waits, call[c].failures, call[c].item,
                          call[c].skipped, call[c].result>>
<1> DEFINE l == [deployments |-> deployments, services |-> services, ingresses |-> ingresses]
           o == Obsolete(c)
           r == [call[c] EXCEPT !.phase = "update", !.listed = l, !.obsolete = o]
<1>1. call[c] \in Call
  BY DEF CallType
<1>2. call' = [call EXCEPT ![c] = r]
  BY <1>1 DEF ListExistingResources, CallType
<1>3. l \in Listing /\ l.deployments = deployments
  BY DEF Listing
<1>4. o \subseteq Kinds \X (Names \cup Services)
  BY ObsoleteIsNotWanted
<1>5. call[c].phase = "list"
  BY DEF ListExistingResources, In
<1> HIDE DEF l, o
<1>6. /\ r \in Call /\ r.phase = "update" /\ r.obsolete = o /\ r.listed = l /\ r.todo = call[c].todo
      /\ r.waits = call[c].waits /\ r.failures = call[c].failures
      /\ r.item = call[c].item /\ r.skipped = call[c].skipped /\ r.result = call[c].result
  BY <1>1, <1>3, <1>4 DEF Call, Phase
<1> HIDE DEF r
<1>7. CallType' /\ Others(c) /\ call'[c] = r
  BY <1>2, <1>6 DEF Others, CallType
<1> QED  BY <1>3, <1>5, <1>6, <1>7 DEF o

\* A call takes the next item of its set (processDeploymentSet).
LEMMA ProcessItemFields ==
    ASSUME CallType, NEW c \in Calls, ProcessItem(c)
    PROVE  /\ CallType' /\ Others(c) /\ call[c].phase = "update" /\ call[c].todo = <<>>
           /\ call[c].item \in DOMAIN Wants[c] /\ Wants[c][call[c].item] \in Item
           /\ call[c].listed \in Listing
           /\ call'[c].todo = ForItem(call[c].listed, Wants[c][call[c].item])
           /\ call'[c].item = call[c].item + 1
           /\ UNCHANGED <<call[c].phase, call[c].waits, call[c].failures, call[c].obsolete,
                          call[c].listed, call[c].skipped, call[c].result>>
<1> DEFINE i == call[c].item + 1
           todo == ForItem(call[c].listed, Wants[c][call[c].item])
           r == [call[c] EXCEPT !.item = i, !.todo = todo]
<1>1. call[c] \in Call /\ call[c].item \in Nat \ {0} /\ call[c].listed \in Listing
  BY DEF CallType, Call
<1>2. call' = [call EXCEPT ![c] = r]
  BY <1>1 DEF ProcessItem, CallType
<1>3. call[c].phase = "update" /\ call[c].todo = <<>> /\ call[c].item <= Len(Wants[c])
  BY DEF ProcessItem, In
<1>4. Wants[c] \in Seq(Item) /\ Len(Wants[c]) \in Nat /\ DOMAIN Wants[c] = 1 .. Len(Wants[c])
  BY WantsAssumption, LenProperties
<1>5. call[c].item \in DOMAIN Wants[c] /\ i \in Nat \ {0}
  BY <1>1, <1>3, <1>4
<1>6. Wants[c][call[c].item] \in Item
  BY <1>4, <1>5, ElementOfSeq
<1>7. todo \in Seq(APICalls)
  BY <1>1, <1>6, ForItemCalls
<1> HIDE DEF i, todo
<1>8. /\ r \in Call /\ r.item = i /\ r.todo = todo
      /\ r.phase = call[c].phase /\ r.waits = call[c].waits /\ r.failures = call[c].failures
      /\ r.obsolete = call[c].obsolete /\ r.listed = call[c].listed
      /\ r.skipped = call[c].skipped /\ r.result = call[c].result
  BY <1>1, <1>5, <1>7 DEF Call
<1> HIDE DEF r
<1>9. CallType' /\ Others(c) /\ call'[c] = r
  BY <1>2, <1>8 DEF Others, CallType
<1> QED  BY <1>1, <1>3, <1>5, <1>6, <1>8, <1>9 DEF i, todo

\* A call takes an obsolete object to delete (deleteObsoleteResources).
LEMMA TakesFields ==
    ASSUME CallType, NEW c \in Calls, NEW kind, NEW n, NEW todo \in Seq(APICalls),
           Takes(c, kind, n, todo)
    PROVE  /\ CallType' /\ Others(c) /\ call[c].phase = "update" /\ call[c].todo = <<>>
           /\ call[c].item > Len(Wants[c]) /\ <<kind, n>> \in call[c].obsolete
           /\ call'[c].todo = todo /\ call'[c].obsolete = call[c].obsolete \ {<<kind, n>>}
           /\ UNCHANGED <<call[c].phase, call[c].waits, call[c].failures, call[c].item,
                          call[c].listed, call[c].skipped, call[c].result>>
<1> DEFINE o == call[c].obsolete \ {<<kind, n>>}
           r == [call[c] EXCEPT !.todo = todo, !.obsolete = o]
<1>1. call[c] \in Call /\ call[c].obsolete \subseteq Kinds \X (Names \cup Services)
  BY DEF CallType, Call
<1>2. call' = [call EXCEPT ![c] = r]
  BY <1>1 DEF Takes, CallType
<1>3. call[c].phase = "update" /\ call[c].todo = <<>> /\ call[c].item > Len(Wants[c])
  BY DEF Takes, Processed, In
<1>4. o \subseteq Kinds \X (Names \cup Services)
  BY <1>1
<1>5. <<kind, n>> \in call[c].obsolete
  <2>1. PICK x \in call[c].obsolete : x[1] = kind /\ n = x[2]
    BY DEF Takes, ToDelete
  <2>2. x \in Kinds \X (Names \cup Services)
    BY <1>1, <2>1
  <2> QED  BY <2>1, <2>2
<1> HIDE DEF o
<1>6. /\ r \in Call /\ r.todo = todo /\ r.obsolete = o
      /\ r.phase = call[c].phase /\ r.waits = call[c].waits /\ r.failures = call[c].failures
      /\ r.item = call[c].item /\ r.listed = call[c].listed
      /\ r.skipped = call[c].skipped /\ r.result = call[c].result
  BY <1>1, <1>4 DEF Call
<1> HIDE DEF r
<1>7. CallType' /\ Others(c) /\ call'[c] = r
  BY <1>2, <1>6 DEF Others, CallType
<1> QED  BY <1>3, <1>5, <1>6, <1>7 DEF o

\* A call returns nil (UpdateDeploymentSet).
LEMMA ReturnsFields ==
    ASSUME CallType, NEW c \in Calls, UpdateDeploymentSetReturns(c)
    PROVE  /\ CallType' /\ Others(c) /\ call[c].phase = "update" /\ call[c].todo = <<>>
           /\ call[c].item > Len(Wants[c]) /\ call[c].obsolete = {}
           /\ call'[c].phase = "done" /\ call'[c].result = "ok"
           /\ UNCHANGED <<call[c].todo, call[c].waits, call[c].failures, call[c].item,
                          call[c].obsolete, call[c].listed, call[c].skipped>>
<1> DEFINE r == [call[c] EXCEPT !.phase = "done", !.result = "ok"]
<1>1. call[c] \in Call
  BY DEF CallType
<1>2. call' = [call EXCEPT ![c] = r]
  BY <1>1 DEF UpdateDeploymentSetReturns, CallType
<1>3. /\ call[c].phase = "update" /\ call[c].todo = <<>> /\ call[c].item > Len(Wants[c])
      /\ call[c].obsolete = {}
  BY DEF UpdateDeploymentSetReturns, Processed, In
<1>4. /\ r \in Call /\ r.phase = "done" /\ r.result = "ok" /\ r.todo = call[c].todo
      /\ r.waits = call[c].waits /\ r.failures = call[c].failures
      /\ r.item = call[c].item /\ r.obsolete = call[c].obsolete /\ r.listed = call[c].listed
      /\ r.skipped = call[c].skipped
  BY <1>1 DEF Call, Phase
<1> HIDE DEF r
<1>5. CallType' /\ Others(c) /\ call'[c] = r
  BY <1>2, <1>4 DEF Others, CallType
<1> QED  BY <1>3, <1>4, <1>5

-------------------------------------------------------------------------------
(* The steps, by what they do: an API call is made and the objects change  *)
(* by it, a call ends with an error, a deletion is logged, or only the     *)
(* state of a call moves on                                                *)

MadeDeployments(c, op, n) ==
    \/ /\ op = "create" /\ n \in Names /\ deployments[n] = None
       /\ deployments' = [deployments EXCEPT ![n] = c]
    \/ /\ op = "update" /\ n \in Names /\ deployments[n] = call[c].listed.deployments[n]
       /\ deployments' = [deployments EXCEPT ![n] = c]
    \/ op = "delete" /\ n \in Names /\ deployments' = [deployments EXCEPT ![n] = None]
    \/ op \notin {"create", "update", "delete"} /\ UNCHANGED deployments
MadeServices(c, op, n) ==
    \/ /\ op \in {"create_service", "update_service"} /\ n \in Services
       /\ services' = [services EXCEPT ![n] = c]
    \/ op = "delete_service" /\ n \in Services /\ services' = [services EXCEPT ![n] = None]
    \/ op \notin {"create_service", "update_service", "delete_service"} /\ UNCHANGED services
MadeIngresses(c, op, n) ==
    \/ /\ op \in {"create_ingress", "update_ingress"} /\ n \in Names
       /\ ingresses' = [ingresses EXCEPT ![n] = c]
    \/ op = "delete_ingress" /\ n \in Names /\ ingresses' = [ingresses EXCEPT ![n] = None]
    \/ op \notin {"create_ingress", "update_ingress", "delete_ingress"} /\ UNCHANGED ingresses
MadeKeys(c, op, n) ==
    \/ op = "key" /\ n \in Names /\ keys' = [keys EXCEPT ![n] = c]
    \/ op = "delete_key" /\ n \in Names /\ keys' = [keys EXCEPT ![n] = None]
    \/ op \notin {"key", "delete_key"} /\ UNCHANGED keys
MadeAccounts(op, n) ==
    \/ op = "account" /\ n \in Names /\ accounts' = accounts \cup {n}
    \/ op = "delete_account" /\ n \in Names /\ accounts' = accounts \ {n}
    \/ op = "get_account" /\ n \in accounts /\ UNCHANGED accounts
    \/ op \notin {"account", "delete_account", "get_account"} /\ UNCHANGED accounts
MadeJobs(op, n) ==
    \/ op = "job" /\ n \in Jobs /\ jobs' = [jobs EXCEPT ![n] = "running"]
    \/ op # "job" /\ UNCHANGED jobs

Ops == {"job"} \cup ItemCalls \cup Deletions
Made(c, op, n) ==
    /\ Making(c, op, n) /\ Succeeds(c)
    /\ op = "job" => call[c].phase = "migrate"
    /\ op # "job" => call[c].phase = "update"
    /\ MadeDeployments(c, op, n) /\ MadeServices(c, op, n) /\ MadeIngresses(c, op, n)
    /\ MadeKeys(c, op, n) /\ MadeAccounts(op, n) /\ MadeJobs(op, n)
    /\ UNCHANGED <<ran, alone, latest, meddled, faults>>

NoChange == UNCHANGED <<deployments, services, ingresses, keys, accounts, jobs, ran, alone,
                        latest, meddled>>

MayFault == UNCHANGED faults \/ (faults < MaxFaults /\ faults' = faults + 1)

Failed(c) == call[c].phase \in Busy /\ Errs(c) /\ NoChange /\ MayFault
Logged(c) == /\ call[c].todo # <<>> /\ Head(call[c].todo)[1] \in Deletions
             /\ Skips(c) /\ NoChange /\ MayFault
Listed(c) == /\ Polling(c) /\ call[c].waits = {} /\ ~call[c].failures
             /\ call' = [call EXCEPT ![c].phase = "list"] /\ NoChange /\ UNCHANGED faults
Taken(c, kind, n) ==
    \/ kind = "deployment" /\ n \in Names /\ Takes(c, kind, n, Deletion(n))
    \/ kind = "service" /\ n \in Services /\ Takes(c, kind, n, <<<<"delete_service", n>>>>)
    \/ kind = "ingress" /\ n \in Names /\ Takes(c, kind, n, <<<<"delete_ingress", n>>>>)

\* A call has something to do only while it is under way, and what that is goes with its
\* phase: jobs, the calls for an item, or those for a deletion once every item is done.
TodoInv ==
    \A c \in Calls :
        /\ call[c].phase \in {"idle", "list", "done"} => call[c].todo = <<>>
        /\ call[c].phase = "migrate" => Within(call[c].todo) \subseteq {"job"} \X Migrations[c]
        /\ call[c].phase = "update" =>
               \/ Within(call[c].todo) \subseteq ItemCalls \X (Names \cup Services)
               \/ /\ Within(call[c].todo) \subseteq Deletions \X (Names \cup Services)
                  /\ call[c].item > Len(Wants[c])

\* The API calls of RunMigrations and processDeploymentSet.
LEMMA ProcessingKinds ==
    ASSUME NEW c \in Calls,
           \/ \E j \in Jobs : CreateMigrationJob(c, j)
           \/ \E n \in Names :
                  \/ CheckDeploymentExists(c, n) \/ CreateServiceAccount(c, n)
                  \/ CreateOrUpdateApiKey(c, n) \/ GetServiceAccount(c, n)
                  \/ CreateDeployment(c, n) \/ UpdateDeployment(c, n)
                  \/ CreateIngress(c, n) \/ UpdateIngress(c, n)
           \/ \E s \in Services : CreateService(c, s) \/ UpdateService(c, s)
    PROVE  Failed(c) \/ \E op \in Ops, n \in Names \cup Services \cup Jobs : Made(c, op, n)
<1> USE DEF In, Updating, Rest, objects, Failed, NoChange, MayFault, Busy, Phase, Writes
<1>m. ASSUME NEW op \in Ops, NEW n \in Names \cup Services \cup Jobs, Made(c, op, n)
      PROVE  \E o \in Ops, m \in Names \cup Services \cup Jobs : Made(c, o, m)
  BY <1>m
<1>o. {"job", "check", "account", "key", "get_account", "create", "update", "create_ingress",
       "update_ingress", "create_service", "update_service"} \subseteq Ops
  BY DEF Ops, ItemCalls
<1>1. ASSUME NEW j \in Jobs, CreateMigrationJob(c, j) PROVE Failed(c) \/ Made(c, "job", j)
  BY <1>1 DEF CreateMigrationJob, Made, MadeDeployments, MadeServices, MadeIngresses, MadeKeys,
     MadeAccounts, MadeJobs
<1>2. ASSUME NEW n \in Names, CheckDeploymentExists(c, n) PROVE Failed(c) \/ Made(c, "check", n)
  BY <1>2 DEF CheckDeploymentExists, Made, MadeDeployments, MadeServices, MadeIngresses, MadeKeys,
     MadeAccounts, MadeJobs
<1>3. ASSUME NEW n \in Names, CreateServiceAccount(c, n) PROVE Made(c, "account", n)
  BY <1>3 DEF CreateServiceAccount, Made, MadeDeployments, MadeServices, MadeIngresses, MadeKeys,
     MadeAccounts, MadeJobs
<1>4. ASSUME NEW n \in Names, CreateOrUpdateApiKey(c, n) PROVE Made(c, "key", n)
  BY <1>4 DEF CreateOrUpdateApiKey, Made, MadeDeployments, MadeServices, MadeIngresses, MadeKeys,
     MadeAccounts, MadeJobs
<1>5. ASSUME NEW n \in Names, GetServiceAccount(c, n) PROVE Failed(c) \/ Made(c, "get_account", n)
  BY <1>5 DEF GetServiceAccount, Made, MadeDeployments, MadeServices, MadeIngresses, MadeKeys,
     MadeAccounts, MadeJobs
<1>6. ASSUME NEW n \in Names, CreateDeployment(c, n) PROVE Failed(c) \/ Made(c, "create", n)
  BY <1>6 DEF CreateDeployment, Made, MadeDeployments, MadeServices, MadeIngresses, MadeKeys,
     MadeAccounts, MadeJobs
<1>7. ASSUME NEW n \in Names, UpdateDeployment(c, n) PROVE Failed(c) \/ Made(c, "update", n)
  BY <1>7 DEF UpdateDeployment, Made, MadeDeployments, MadeServices, MadeIngresses, MadeKeys,
     MadeAccounts, MadeJobs
<1>8. ASSUME NEW n \in Names, CreateIngress(c, n) PROVE Failed(c) \/ Made(c, "create_ingress", n)
  BY <1>8 DEF CreateIngress, Made, MadeDeployments, MadeServices, MadeIngresses, MadeKeys,
     MadeAccounts, MadeJobs
<1>9. ASSUME NEW n \in Names, UpdateIngress(c, n) PROVE Failed(c) \/ Made(c, "update_ingress", n)
  BY <1>9 DEF UpdateIngress, Made, MadeDeployments, MadeServices, MadeIngresses, MadeKeys,
     MadeAccounts, MadeJobs
<1>10. ASSUME NEW n \in Services, CreateService(c, n)
       PROVE  Failed(c) \/ Made(c, "create_service", n)
  BY <1>10 DEF CreateService, Made, MadeDeployments, MadeServices, MadeIngresses, MadeKeys,
     MadeAccounts, MadeJobs
<1>11. ASSUME NEW n \in Services, UpdateService(c, n)
       PROVE  Failed(c) \/ Made(c, "update_service", n)
  BY <1>11 DEF UpdateService, Made, MadeDeployments, MadeServices, MadeIngresses, MadeKeys,
     MadeAccounts, MadeJobs
<1> HIDE DEF In, Updating, Rest, objects, Failed, NoChange, MayFault, Busy, Phase, Writes
<1>12. CASE \E j \in Jobs : CreateMigrationJob(c, j)
  BY <1>m, <1>o, <1>1, <1>12
<1>13. ASSUME NEW n \in Names,
              \/ CheckDeploymentExists(c, n) \/ CreateServiceAccount(c, n)
              \/ CreateOrUpdateApiKey(c, n) \/ GetServiceAccount(c, n)
              \/ CreateDeployment(c, n) \/ UpdateDeployment(c, n)
              \/ CreateIngress(c, n) \/ UpdateIngress(c, n)
       PROVE  Failed(c) \/ \E op \in Ops, m \in Names \cup Services \cup Jobs : Made(c, op, m)
  <2>1. \/ Failed(c) \/ Made(c, "check", n) \/ Made(c, "account", n) \/ Made(c, "key", n)
        \/ Made(c, "get_account", n) \/ Made(c, "create", n) \/ Made(c, "update", n)
        \/ Made(c, "create_ingress", n) \/ Made(c, "update_ingress", n)
    BY <1>2, <1>3, <1>4, <1>5, <1>6, <1>7, <1>8, <1>9, <1>13
  <2> QED  BY <1>m, <1>o, <2>1
<1>14. ASSUME NEW n \in Services, CreateService(c, n) \/ UpdateService(c, n)
       PROVE  Failed(c) \/ \E op \in Ops, m \in Names \cup Services \cup Jobs : Made(c, op, m)
  BY <1>m, <1>o, <1>10, <1>11, <1>14
<1> QED  BY <1>12, <1>13, <1>14

\* The API calls of deleteObsoleteResources: a deployment that is gone is only logged.
LEMMA ObsoletingKinds ==
    ASSUME deployments \in Objects(Names), NEW c \in Calls,
           \/ \E n \in Names :
                  \/ DeleteDeployment(c, n) \/ DeleteApiKey(c, n) \/ DeleteServiceAccount(c, n)
                  \/ DeleteIngress(c, n)
           \/ \E s \in Services : DeleteService(c, s)
    PROVE  Logged(c) \/ \E op \in Ops, n \in Names \cup Services \cup Jobs : Made(c, op, n)
<1> USE DEF In, Updating, Rest, objects, Logged, NoChange, MayFault
<1>m. ASSUME NEW op \in Ops, NEW n \in Names \cup Services \cup Jobs, Made(c, op, n)
      PROVE  \E o \in Ops, m \in Names \cup Services \cup Jobs : Made(c, o, m)
  BY <1>m
<1>o. {"delete", "delete_key", "delete_account", "delete_ingress", "delete_service"} \subseteq Ops
  BY DEF Ops, Deletions
<1>1. ASSUME NEW n \in Names, DeleteDeployment(c, n) PROVE Logged(c) \/ Made(c, "delete", n)
  <2>1. CASE deployments[n] = None
    <3>1. deployments' = deployments
      BY <1>1, <2>1 DEF DeleteDeployment, Objects
    <3>2. call[c].todo # <<>> /\ Head(call[c].todo)[1] \in Deletions
      BY <1>1 DEF DeleteDeployment, Making, Deletions
    <3> QED  BY <1>1, <2>1, <3>1, <3>2 DEF DeleteDeployment
  <2>2. CASE deployments[n] # None
    BY <1>1, <2>2 DEF DeleteDeployment, Made, MadeDeployments, MadeServices, MadeIngresses,
       MadeKeys, MadeAccounts, MadeJobs
  <2> QED  BY <2>1, <2>2
<1>2. ASSUME NEW n \in Names, DeleteApiKey(c, n) PROVE Made(c, "delete_key", n)
  BY <1>2 DEF DeleteApiKey, Made, MadeDeployments, MadeServices, MadeIngresses, MadeKeys,
     MadeAccounts, MadeJobs
<1>3. ASSUME NEW n \in Names, DeleteServiceAccount(c, n) PROVE Made(c, "delete_account", n)
  BY <1>3 DEF DeleteServiceAccount, Made, MadeDeployments, MadeServices, MadeIngresses, MadeKeys,
     MadeAccounts, MadeJobs
<1>4. ASSUME NEW n \in Names, DeleteIngress(c, n) PROVE Made(c, "delete_ingress", n)
  BY <1>4 DEF DeleteIngress, Made, MadeDeployments, MadeServices, MadeIngresses, MadeKeys,
     MadeAccounts, MadeJobs
<1>5. ASSUME NEW n \in Services, DeleteService(c, n) PROVE Made(c, "delete_service", n)
  BY <1>5 DEF DeleteService, Made, MadeDeployments, MadeServices, MadeIngresses, MadeKeys,
     MadeAccounts, MadeJobs
<1> HIDE DEF In, Updating, Rest, objects, Logged, NoChange, MayFault
<1> QED  BY <1>m, <1>o, <1>1, <1>2, <1>3, <1>4, <1>5

\* Every step is one of these.
LEMMA StepKinds ==
    ASSUME CallType, TodoInv, deployments \in Objects(Names), Next
    PROVE  \/ \E c \in Calls, op \in Ops, n \in Names \cup Services \cup Jobs : Made(c, op, n)
           \/ \E c \in Calls : Failed(c) \/ Logged(c) \/ Begin(c) \/ Listed(c)
                               \/ ListExistingResources(c) \/ ProcessItem(c)
                               \/ UpdateDeploymentSetReturns(c)
           \/ \E c \in Calls, j \in Jobs : Poll(c, j)
           \/ \E c \in Calls, kind \in Kinds, n \in Names \cup Services : Taken(c, kind, n)
           \/ \E n \in Names : UpdateSecret(n) \/ DeleteSecret(n)
           \/ \E j \in Jobs : PodFails(j) \/ JobSucceeds(j) \/ JobFails(j) \/ JobIsRemoved(j)
<1>1. ASSUME NEW c \in Calls, MigrationsDone(c) \/ ContextEnds(c) PROVE Failed(c) \/ Listed(c)
  BY <1>1 DEF MigrationsDone, ContextEnds, Failed, Listed, NoChange, MayFault, Polling, In,
     Busy, Phase, objects, Rest
<1>2. ASSUME NEW c \in Calls, ApiFails(c) \/ Crash(c) PROVE Failed(c) \/ Logged(c)
  <2>1. call[c].phase \in Phase
    BY DEF CallType, Call
  <2>2. call[c].todo # <<>> => call[c].phase \in Busy
    BY <2>1 DEF TodoInv, Phase, Busy
  <2>3. NoChange /\ MayFault
    BY <1>2 DEF ApiFails, Crash, NoChange, MayFault, objects
  <2>4. "list" \in Busy
    BY DEF Busy, Phase
  <2> QED  BY <1>2, <2>2, <2>3, <2>4 DEF ApiFails, Crash, Failed, Logged, In
<1>3. ASSUME NEW c \in Calls, Migrating(c)
      PROVE  \/ Failed(c) \/ Listed(c) \/ \E j \in Jobs : Poll(c, j)
             \/ \E op \in Ops, n \in Names \cup Services \cup Jobs : Made(c, op, n)
  BY <1>1, <1>3, ProcessingKinds DEF Migrating
<1>4. ASSUME NEW c \in Calls, Processing(c)
      PROVE  \/ Failed(c) \/ ListExistingResources(c) \/ ProcessItem(c)
             \/ \E op \in Ops, n \in Names \cup Services \cup Jobs : Made(c, op, n)
  BY <1>4, ProcessingKinds DEF Processing
<1>5. ASSUME NEW c \in Calls, Obsoleting(c)
      PROVE  \/ Logged(c) \/ UpdateDeploymentSetReturns(c)
             \/ \E kind \in Kinds, n \in Names \cup Services : Taken(c, kind, n)
             \/ \E op \in Ops, n \in Names \cup Services \cup Jobs : Made(c, op, n)
  <2>1. "deployment" \in Kinds /\ "service" \in Kinds /\ "ingress" \in Kinds
    BY DEF Kinds
  <2>2. ASSUME NEW n \in Names, DeleteDeploymentResources(c, n) PROVE Taken(c, "deployment", n)
    BY <2>2 DEF DeleteDeploymentResources, Taken
  <2>3. ASSUME NEW n \in Names, DeleteObsoleteIngress(c, n) PROVE Taken(c, "ingress", n)
    BY <2>3 DEF DeleteObsoleteIngress, Taken
  <2>4. ASSUME NEW n \in Services, DeleteObsoleteService(c, n) PROVE Taken(c, "service", n)
    BY <2>4 DEF DeleteObsoleteService, Taken
  <2>5. CASE \/ \E n \in Names : DeleteDeploymentResources(c, n) \/ DeleteObsoleteIngress(c, n)
             \/ \E s \in Services : DeleteObsoleteService(c, s)
    <3>1. \E kind \in Kinds, n \in Names \cup Services : Taken(c, kind, n)
      BY <2>1, <2>2, <2>3, <2>4, <2>5
    <3> QED  BY <3>1
  <2> QED  BY <1>5, <2>5, ObsoletingKinds DEF Obsoleting
<1> QED  BY <1>2, <1>3, <1>4, <1>5 DEF Next

-------------------------------------------------------------------------------
(* The inductive invariant *)

\* A call has no result before it is done, and no item before it has listed what exists.
FreshInv ==
    \A c \in Calls :
        /\ call[c].result # "none" => call[c].phase = "done"
        /\ call[c].phase \in {"idle", "migrate", "list"} => call[c].item = 1

\* A job that shows success has succeeded, a call that has seen no failure waits for the
\* jobs that have not, and has written nothing before every one has.
MigratedInv ==
    /\ \A j \in Jobs : jobs[j] = "succeeded" => j \in ran
    /\ \A c \in Calls :
           /\ call[c].phase = "migrate" /\ ~call[c].failures =>
                  Migrations[c] \ call[c].waits \subseteq ran
           /\ call[c].phase \in {"list", "update"} => Migrations[c] \subseteq ran
           /\ \A n \in Names : c \in {deployments[n], keys[n]} =>
                  call[c].phase \in {"update", "done"} /\ Migrations[c] \subseteq ran

\* Calls that nobody overlaps run one at a time, the last of them after all others.
LoneInv ==
    /\ \A c \in Calls : call[c].phase = "idle" => c \notin alone
    /\ \A c, d \in Running : c # d => c \notin alone
    /\ latest \in alone => Running \subseteq {latest}

\* What is still to be updated was listed, and what is to be deleted is not asked for.
ToDo(c, op, n)  == <<op, n>> \in Within(call[c].todo)
Obsoleted(c, kind, n) == <<kind, n>> \in call[c].obsolete
Doomed(c, n) == \/ Obsoleted(c, "deployment", n) \/ ToDo(c, "delete", n)
                \/ ToDo(c, "delete_key", n) \/ ToDo(c, "delete_account", n)
DoomedService(c, s) == Obsoleted(c, "service", s) \/ ToDo(c, "delete_service", s)
DoomedIngress(c, n) == Obsoleted(c, "ingress", n) \/ ToDo(c, "delete_ingress", n)
ListedInv ==
    \A c \in Calls, n \in Names \cup Services :
        /\ ToDo(c, "update", n) => call[c].listed.deployments[n] # None
        /\ Doomed(c, n) => n \notin NamesOf(c)
        /\ DoomedService(c, n) => n \notin ServicesOf(c)
        /\ DoomedIngress(c, n) => n \notin IngressesOf(c)

\* What a call creates or updates, its set asks for.
AskedInv ==
    \A c \in Calls, n \in Names \cup Services :
        /\ ToDo(c, "create", n) \/ ToDo(c, "update", n) => n \in NamesOf(c)
        /\ ToDo(c, "create_service", n) \/ ToDo(c, "update_service", n) => n \in ServicesOf(c)
        /\ ToDo(c, "create_ingress", n) \/ ToDo(c, "update_ingress", n) => n \in IngressesOf(c)

\* As long as calls do not overlap and nobody deletes a key secret, a deployment that
\* exists has its key and account, one that is yet to be created has them or gets them
\* first, and a key or account that is yet to be deleted has no deployment or loses it
\* first.
Quiet == alone = {c \in Calls : ~In(c, "idle")} /\ ~meddled
PodsInv ==
    Quiet =>
        /\ \A n \in Names : deployments[n] # None => keys[n] # None /\ n \in accounts
        /\ \A c \in Calls, n \in Names : call[c].phase = "update" =>
               /\ keys[n] # None \/ Ordered(call[c].todo, <<"key", n>>, <<"create", n>>)
               /\ n \in accounts \/ Ordered(call[c].todo, <<"account", n>>, <<"create", n>>)
               /\ \/ deployments[n] = None
                  \/ /\ Ordered(call[c].todo, <<"delete", n>>, <<"delete_key", n>>)
                     /\ Ordered(call[c].todo, <<"delete", n>>, <<"delete_account", n>>)

\* What a call that nobody overlapped has gone through is applied or among what is left
\* of the present round, and what exists is asked for, obsolete or about to be deleted.
ItemApplied(c, p) ==
    /\ deployments[p.name] = c \/ ToDo(c, "create", p.name) \/ ToDo(c, "update", p.name)
    /\ p.name \in accounts \/ ToDo(c, "account", p.name) \/ ToDo(c, "get_account", p.name)
    /\ meddled \/ keys[p.name] = c \/ ToDo(c, "key", p.name)
    /\ p.service # None => \/ services[p.service] = c
                           \/ ToDo(c, "create_service", p.service)
                           \/ ToDo(c, "update_service", p.service)
    /\ p.ingress => \/ ingresses[p.name] = c
                    \/ ToDo(c, "create_ingress", p.name)
                    \/ ToDo(c, "update_ingress", p.name)
NothingElse(c) ==
    /\ \A n \in Present(deployments) \ NamesOf(c) :
           Obsoleted(c, "deployment", n) \/ ToDo(c, "delete", n)
    /\ \A s \in Present(services) \ ServicesOf(c) :
           Obsoleted(c, "service", s) \/ ToDo(c, "delete_service", s)
    /\ \A n \in Present(ingresses) \ IngressesOf(c) :
           Obsoleted(c, "ingress", n) \/ ToDo(c, "delete_ingress", n)
Applied(c) ==
    /\ \A i \in DOMAIN Wants[c] : i < call[c].item => ItemApplied(c, Wants[c][i])
    /\ ~call[c].skipped => NothingElse(c)
AppliedInv == \A c \in alone : c = latest /\ call[c].phase = "update" => Applied(c)

IInv == /\ TypeOK /\ TodoInv /\ FreshInv /\ MigratedInv /\ LoneInv /\ ListedInv /\ AskedInv
        /\ PodsInv /\ AppliedInv /\ SetIsApplied

-------------------------------------------------------------------------------
(* What each kind of step leaves of the invariants' terms                  *)

\* An empty list of API calls holds none of them and orders any two.
LEMMA IdleHasNothing == Within(<<>>) = {} /\ \A a, b : Ordered(<<>>, a, b)
<1>1. Len(<<>>) = 0 /\ 1 .. 0 = {}
  OBVIOUS
<1> QED  BY <1>1 DEF Within, Ordered

\* An API call is made: it was at the head of the list and is no longer in it.
LEMMA MadeFields ==
    ASSUME CallType, NEW c \in Calls, NEW op, NEW n, Made(c, op, n)
    PROVE  /\ CallType' /\ Others(c)
           /\ call[c].todo \in Seq(APICalls) /\ call[c].todo # <<>>
                  /\ Head(call[c].todo) = <<op, n>>
           /\ Within(call[c].todo) = {<<op, n>>} \cup Within(call'[c].todo)
           /\ call'[c].todo = Tail(call[c].todo)
           /\ UNCHANGED <<call[c].phase, call[c].waits, call[c].failures, call[c].item,
                          call[c].obsolete, call[c].listed, call[c].skipped, call[c].result>>
<1>1. call[c].todo \in Seq(APICalls)
  BY DEF CallType, Call
<1>2. call[c].todo # <<>> /\ Head(call[c].todo) = <<op, n>> /\ Succeeds(c)
  BY DEF Made, Making
<1>3. call'[c].todo = Tail(call[c].todo)
  BY <1>2, SucceedsFields
<1>4. Within(call[c].todo) = {<<op, n>>} \cup Within(call'[c].todo)
  BY <1>1, <1>2, <1>3, TailWithin
<1> QED  BY <1>1, <1>2, <1>3, <1>4, SucceedsFields

\* A deletion is taken: its API calls are all that is to be done, and none is for a job.
LEMMA TakenFields ==
    ASSUME CallType, NEW c \in Calls, NEW kind, NEW n, Taken(c, kind, n)
    PROVE  /\ CallType' /\ Others(c) /\ call[c].phase = "update" /\ call[c].todo = <<>>
           /\ call[c].item > Len(Wants[c]) /\ <<kind, n>> \in call[c].obsolete
           /\ call'[c].obsolete = call[c].obsolete \ {<<kind, n>>}
           /\ UNCHANGED <<call[c].phase, call[c].waits, call[c].failures, call[c].item,
                          call[c].listed, call[c].skipped, call[c].result>>
           /\ NoChange /\ UNCHANGED faults
           /\ \/ kind = "deployment" /\ n \in Names /\ call'[c].todo = Deletion(n)
              \/ /\ kind = "service" /\ n \in Services
                 /\ Within(call'[c].todo) = {<<"delete_service", n>>}
              \/ /\ kind = "ingress" /\ n \in Names
                 /\ Within(call'[c].todo) = {<<"delete_ingress", n>>}
<1>1. Takes(c, kind, n, call'[c].todo) => NoChange /\ UNCHANGED faults
  BY DEF Takes, NoChange, objects, Rest
<1>2. CASE kind = "deployment" /\ n \in Names /\ Takes(c, kind, n, Deletion(n))
  <2>1. Deletion(n) \in Seq(APICalls)
    BY <1>2, DeletionCalls
  <2>2. call'[c].todo = Deletion(n)
    BY <1>2, <2>1, TakesFields
  <2> QED  BY <1>1, <1>2, <2>1, <2>2, TakesFields
<1>3. CASE kind = "service" /\ n \in Services /\ Takes(c, kind, n, <<<<"delete_service", n>>>>)
  <2> DEFINE w == <<"delete_service", n>>
  <2>1. w \in APICalls
    BY <1>3 DEF APICalls, Deletions
  <2>2. Takes(c, kind, n, <<w>>)
    BY <1>3
  <2> HIDE DEF w
  <2>3. <<w>> \in Seq(APICalls) /\ Within(<<w>>) = {w}
    BY <2>1, OneCall
  <2>4. call'[c].todo = <<w>>
    BY <2>2, <2>3, TakesFields
  <2>5. Within(call'[c].todo) = {<<"delete_service", n>>}
    BY <2>3, <2>4 DEF w
  <2> QED  BY <1>1, <1>3, <2>2, <2>3, <2>4, <2>5, TakesFields
<1>4. CASE kind = "ingress" /\ n \in Names /\ Takes(c, kind, n, <<<<"delete_ingress", n>>>>)
  <2> DEFINE w == <<"delete_ingress", n>>
  <2>1. w \in APICalls
    BY <1>4 DEF APICalls, Deletions
  <2>2. Takes(c, kind, n, <<w>>)
    BY <1>4
  <2> HIDE DEF w
  <2>3. <<w>> \in Seq(APICalls) /\ Within(<<w>>) = {w}
    BY <2>1, OneCall
  <2>4. call'[c].todo = <<w>>
    BY <2>2, <2>3, TakesFields
  <2>5. Within(call'[c].todo) = {<<"delete_ingress", n>>}
    BY <2>3, <2>4 DEF w
  <2> QED  BY <1>1, <1>4, <2>2, <2>3, <2>4, <2>5, TakesFields
<1> QED  BY <1>2, <1>3, <1>4 DEF Taken

\* A deletion that is taken is all that is to be done (deleteObsoleteResources).
LEMMA TakenTodo ==
    ASSUME CallType, NEW c \in Calls, NEW kind, NEW m, Taken(c, kind, m)
    PROVE  \/ kind = "deployment" /\ m \in Names /\ call'[c].todo = Deletion(m)
           \/ /\ kind = "service" /\ m \in Services
              /\ Within(call'[c].todo) = {<<"delete_service", m>>}
           \/ /\ kind = "ingress" /\ m \in Names
              /\ Within(call'[c].todo) = {<<"delete_ingress", m>>}
  BY TakenFields

\* It changes nothing else, and comes when every item is processed.
LEMMA TakenStays ==
    ASSUME CallType, NEW c \in Calls, NEW kind, NEW m, Taken(c, kind, m)
    PROVE  /\ Others(c) /\ NoChange
           /\ call[c].phase = "update" /\ call'[c].phase = "update"
           /\ call[c].todo = <<>> /\ call[c].item > Len(Wants[c])
           /\ call'[c].item = call[c].item /\ call'[c].skipped = call[c].skipped
           /\ <<kind, m>> \in call[c].obsolete
           /\ call'[c].obsolete = call[c].obsolete \ {<<kind, m>>}
<1>1. NoChange
  BY TakenFields
<1>2. Others(c)
  BY TakenFields
<1>3. /\ call[c].phase = "update" /\ call[c].todo = <<>> /\ call[c].item > Len(Wants[c])
      /\ <<kind, m>> \in call[c].obsolete
  BY TakenFields
<1>4. call'[c].phase = call[c].phase
  BY TakenFields
<1>5. call'[c].item = call[c].item
  BY TakenFields
<1>6. call'[c].skipped = call[c].skipped
  BY TakenFields
<1>7. call'[c].obsolete = call[c].obsolete \ {<<kind, m>>}
  BY TakenFields
<1> QED  BY <1>1, <1>2, <1>3, <1>4, <1>5, <1>6, <1>7

\* The state of the calls keeps its type.
LEMMA CallTypeStep ==
    ASSUME TypeOK, TodoInv, Next
    PROVE  CallType'
<1>1. /\ CallType /\ deployments \in Objects(Names) /\ services \in Objects(Services)
      /\ ingresses \in Objects(Names)
  BY DEF TypeOK, CallType
<1>2. ASSUME NEW c \in Calls, NEW op \in Ops, NEW n \in Names \cup Services \cup Jobs,
             Made(c, op, n)
      PROVE  CallType'
  BY <1>1, <1>2, MadeFields
<1>3. ASSUME NEW c \in Calls, \/ Failed(c) \/ Logged(c) \/ Begin(c) \/ Listed(c)
                              \/ ListExistingResources(c) \/ ProcessItem(c)
                              \/ UpdateDeploymentSetReturns(c)
      PROVE  CallType'
  <2>1. Failed(c) \/ Logged(c) \/ Listed(c) => CallType'
    BY <1>1, ErrsFields, SkipsFields, MigrationsDoneFields DEF Failed, Logged, Listed
  <2> QED  BY <1>1, <1>3, <2>1, BeginFields, ListFields, ProcessItemFields, ReturnsFields
<1>4. ASSUME NEW c \in Calls, NEW j \in Jobs, Poll(c, j) PROVE CallType'
  BY <1>1, <1>4, PollFields
<1>5. ASSUME NEW c \in Calls, NEW kind \in Kinds, NEW n \in Names \cup Services, Taken(c, kind, n)
      PROVE  CallType'
  BY <1>1, <1>5, TakenFields
<1>6. ASSUME \/ \E n \in Names : UpdateSecret(n) \/ DeleteSecret(n)
             \/ \E j \in Jobs : PodFails(j) \/ JobSucceeds(j) \/ JobFails(j) \/ JobIsRemoved(j)
      PROVE  CallType'
  <2>1. call' = call
    BY <1>6 DEF UpdateSecret, DeleteSecret, PodFails, JobSucceeds, JobFails, JobIsRemoved, JobStep
  <2> QED  BY <1>1, <2>1 DEF CallType
<1> QED  BY <1>1, <1>2, <1>3, <1>4, <1>5, <1>6, StepKinds

\* The objects, the jobs and the histories keep their types.
LEMMA ObjectTypeStep ==
    ASSUME TypeOK, TodoInv, Next
    PROVE  /\ deployments' \in Objects(Names) /\ services' \in Objects(Services)
           /\ ingresses' \in Objects(Names)
           /\ keys' \in [Names -> Calls \cup {None, "edited"}] /\ accounts' \subseteq Names
           /\ jobs' \in [Jobs -> JobState] /\ ran' \subseteq Jobs
           /\ alone' \subseteq Calls /\ latest' \in Calls \cup {None} /\ meddled' \in BOOLEAN
           /\ faults' \in 0 .. MaxFaults
<1> DEFINE Goal == /\ deployments' \in Objects(Names) /\ services' \in Objects(Services)
                   /\ ingresses' \in Objects(Names)
                   /\ keys' \in [Names -> Calls \cup {None, "edited"}] /\ accounts' \subseteq Names
                   /\ jobs' \in [Jobs -> JobState] /\ ran' \subseteq Jobs
                   /\ alone' \subseteq Calls /\ latest' \in Calls \cup {None}
                   /\ meddled' \in BOOLEAN /\ faults' \in 0 .. MaxFaults
<1>a. deployments \in Objects(Names) /\ services \in Objects(Services)
          /\ ingresses \in Objects(Names)
  BY DEF TypeOK
<1>b. keys \in [Names -> Calls \cup {None, "edited"}] /\ accounts \subseteq Names
  BY DEF TypeOK
<1>c. jobs \in [Jobs -> JobState] /\ ran \subseteq Jobs
  BY DEF TypeOK
<1>d. alone \subseteq Calls /\ latest \in Calls \cup {None} /\ meddled \in BOOLEAN
  BY DEF TypeOK
<1>e. faults \in 0 .. MaxFaults /\ MaxFaults \in Nat /\ CallType
  BY BoundsAssumption DEF TypeOK, CallType
<1>1. NoChange /\ UNCHANGED faults => Goal
  BY <1>a, <1>b, <1>c, <1>d, <1>e DEF NoChange
<1>2. NoChange /\ MayFault => Goal
  <2>1. MayFault => faults' \in 0 .. MaxFaults
    BY <1>e DEF MayFault
  <2> QED  BY <1>a, <1>b, <1>c, <1>d, <2>1 DEF NoChange
<1>3. ASSUME NEW c \in Calls, NEW op \in Ops, NEW n \in Names \cup Services \cup Jobs,
             Made(c, op, n)
      PROVE  Goal
  <2>1. deployments' \in Objects(Names)
    BY <1>a, <1>3 DEF Made, MadeDeployments, Objects
  <2>2. services' \in Objects(Services)
    BY <1>a, <1>3 DEF Made, MadeServices, Objects
  <2>3. ingresses' \in Objects(Names)
    BY <1>a, <1>3 DEF Made, MadeIngresses, Objects
  <2>4. keys' \in [Names -> Calls \cup {None, "edited"}]
    BY <1>b, <1>3 DEF Made, MadeKeys
  <2>5. accounts' \subseteq Names
    BY <1>b, <1>3 DEF Made, MadeAccounts
  <2>6. jobs' \in [Jobs -> JobState]
    BY <1>c, <1>3 DEF Made, MadeJobs, JobState
  <2>7. UNCHANGED <<ran, alone, latest, meddled, faults>>
    BY <1>3 DEF Made
  <2> QED  BY <1>c, <1>d, <1>e, <2>1, <2>2, <2>3, <2>4, <2>5, <2>6, <2>7
<1>4. ASSUME NEW c \in Calls, Begin(c) PROVE Goal
  <2>1. /\ UNCHANGED <<deployments, services, ingresses, keys, accounts, jobs, ran, meddled, faults>>
        /\ latest' = c /\ alone' \subseteq alone \cup {c}
    BY <1>4 DEF Begin, objects
  <2> QED  BY <1>a, <1>b, <1>c, <1>d, <1>e, <2>1
<1>5. ASSUME NEW c \in Calls, \/ ListExistingResources(c) \/ ProcessItem(c)
                              \/ UpdateDeploymentSetReturns(c) \/ \E j \in Jobs : Poll(c, j)
                              \/ \E kind \in Kinds, n \in Names \cup Services : Taken(c, kind, n)
      PROVE  NoChange /\ UNCHANGED faults
  <2>1. ASSUME NEW kind, NEW n, Taken(c, kind, n) PROVE NoChange /\ UNCHANGED faults
    BY <1>e, <2>1, TakenFields
  <2> QED  BY <1>5, <2>1 DEF ListExistingResources, ProcessItem, UpdateDeploymentSetReturns, Poll,
           NoChange, objects, Rest
<1>6. ASSUME NEW n \in Names, UpdateSecret(n) \/ DeleteSecret(n) PROVE Goal
  <2>1. /\ UNCHANGED <<deployments, services, ingresses, accounts, jobs, ran, alone, latest, faults>>
        /\ meddled' = TRUE
        /\ keys' = [keys EXCEPT ![n] = "edited"] \/ keys' = [keys EXCEPT ![n] = None]
    BY <1>6 DEF UpdateSecret, DeleteSecret
  <2>2. keys' \in [Names -> Calls \cup {None, "edited"}]
    BY <1>b, <2>1
  <2> QED  BY <1>a, <1>b, <1>c, <1>d, <1>e, <2>1, <2>2
<1>7. ASSUME NEW j \in Jobs, PodFails(j) \/ JobSucceeds(j) \/ JobFails(j) \/ JobIsRemoved(j)
      PROVE  Goal
  <2>1. /\ UNCHANGED <<deployments, services, ingresses, keys, accounts, alone, latest, meddled, faults>>
        /\ ran' \subseteq ran \cup {j}
        /\ \E to \in JobState : jobs' = [jobs EXCEPT ![j] = to]
    BY <1>7 DEF PodFails, JobSucceeds, JobFails, JobIsRemoved, JobStep, objects, Rest, JobState
  <2>2. jobs' \in [Jobs -> JobState]
    BY <1>c, <2>1
  <2> QED  BY <1>a, <1>b, <1>c, <1>d, <1>e, <2>1, <2>2
<1>8. ASSUME NEW c \in Calls, Failed(c) \/ Logged(c) \/ Listed(c) PROVE Goal
  <2>1. NoChange /\ (MayFault \/ UNCHANGED faults)
    BY <1>8 DEF Failed, Logged, Listed
  <2> HIDE DEF Goal
  <2> QED  BY <1>1, <1>2, <2>1
<1> HIDE DEF Goal
<1>9. Goal
  BY <1>a, <1>e, <1>1, <1>3, <1>4, <1>5, <1>6, <1>7, <1>8, StepKinds
<1> QED  BY <1>9 DEF Goal

Moves(c) == \/ \E op \in Ops, n \in Names \cup Services \cup Jobs : Made(c, op, n)
            \/ Failed(c) \/ Logged(c) \/ Begin(c) \/ Listed(c) \/ ListExistingResources(c)
            \/ ProcessItem(c) \/ UpdateDeploymentSetReturns(c)
            \/ \E j \in Jobs : Poll(c, j)
            \/ \E kind \in Kinds, n \in Names \cup Services : Taken(c, kind, n)

\* A step of one call leaves the others where they are.
LEMMA OthersStay ==
    ASSUME TypeOK, TodoInv, NEW c \in Calls, Moves(c)
    PROVE  Others(c)
<1>1. /\ CallType /\ deployments \in Objects(Names) /\ services \in Objects(Services)
      /\ ingresses \in Objects(Names)
  BY DEF TypeOK, CallType
<1>2. ASSUME NEW op, NEW n, Made(c, op, n) PROVE Others(c)
  BY <1>1, <1>2, MadeFields
<1>3. Failed(c) \/ Logged(c) \/ Listed(c) => Others(c)
  BY <1>1, ErrsFields, SkipsFields, MigrationsDoneFields DEF Failed, Logged, Listed
<1>4. ASSUME NEW kind, NEW n, Taken(c, kind, n) PROVE Others(c)
  BY <1>1, <1>4, TakenFields
<1>5. ASSUME NEW j \in Jobs, Poll(c, j) PROVE Others(c)
  BY <1>1, <1>5, PollFields
<1> QED  BY <1>1, <1>2, <1>3, <1>4, <1>5, BeginFields, ListFields, ProcessItemFields, ReturnsFields
         DEF Moves

\* Every step moves a call along UpdateDeploymentSet or leaves it alone.
LEMMA CallGoes ==
    ASSUME TypeOK, TodoInv, Next, NEW d \in Calls
    PROVE  call'[d] = call[d] \/ Moves(d)
<1>1. CallType /\ deployments \in Objects(Names)
  BY DEF TypeOK, CallType
<1>2. CASE \E n \in Names : UpdateSecret(n) \/ DeleteSecret(n)
  BY <1>2 DEF UpdateSecret, DeleteSecret
<1>3. CASE \E j \in Jobs : PodFails(j) \/ JobSucceeds(j) \/ JobFails(j) \/ JobIsRemoved(j)
  BY <1>3 DEF PodFails, JobSucceeds, JobFails, JobIsRemoved, JobStep
<1>4. CASE \E c \in Calls : Moves(c)
  <2>1. PICK c \in Calls : Moves(c)
    BY <1>4
  <2>2. Others(c)
    BY <2>1, OthersStay
  <2> QED  BY <2>1, <2>2 DEF Others
<1> QED  BY <1>1, <1>2, <1>3, <1>4, StepKinds DEF Moves

-------------------------------------------------------------------------------
(* Each part of the invariant is preserved                                 *)

\* What a call has to do goes with its phase (RunMigrations, UpdateDeploymentSet).
LEMMA TodoInvStep ==
    ASSUME TypeOK, TodoInv, Next
    PROVE  TodoInv'
<1> SUFFICES ASSUME NEW c \in Calls
             PROVE  /\ call'[c].phase \in {"idle", "list", "done"} => call'[c].todo = <<>>
                    /\ call'[c].phase = "migrate" =>
                           Within(call'[c].todo) \subseteq {"job"} \X Migrations[c]
                    /\ call'[c].phase = "update" =>
                           \/ Within(call'[c].todo) \subseteq ItemCalls \X (Names \cup Services)
                           \/ /\ Within(call'[c].todo) \subseteq Deletions \X (Names \cup Services)
                              /\ call'[c].item > Len(Wants[c])
  BY DEF TodoInv, Within
<1>t. /\ CallType /\ deployments \in Objects(Names) /\ services \in Objects(Services)
      /\ ingresses \in Objects(Names)
  BY DEF TypeOK, CallType
<1>i. /\ call[c].phase \in {"idle", "list", "done"} => call[c].todo = <<>>
      /\ call[c].phase = "migrate" => Within(call[c].todo) \subseteq {"job"} \X Migrations[c]
      /\ call[c].phase = "update" =>
             \/ Within(call[c].todo) \subseteq ItemCalls \X (Names \cup Services)
             \/ /\ Within(call[c].todo) \subseteq Deletions \X (Names \cup Services)
                /\ call[c].item > Len(Wants[c])
  BY DEF TodoInv
<1>e. Within(<<>>) = {}
  BY IdleHasNothing
<1>1. CASE call'[c] = call[c]
  BY <1>i, <1>1
<1> DEFINE Goal == /\ call'[c].phase \in {"idle", "list", "done"} => call'[c].todo = <<>>
                   /\ call'[c].phase = "migrate" =>
                          Within(call'[c].todo) \subseteq {"job"} \X Migrations[c]
                   /\ call'[c].phase = "update" =>
                          \/ Within(call'[c].todo) \subseteq ItemCalls \X (Names \cup Services)
                          \/ /\ Within(call'[c].todo) \subseteq Deletions \X (Names \cup Services)
                             /\ call'[c].item > Len(Wants[c])
<1>2. ASSUME NEW op, NEW n, Made(c, op, n) PROVE Goal
  <2>1. /\ call[c].todo # <<>> /\ UNCHANGED <<call[c].phase, call[c].item>>
        /\ Within(call'[c].todo) \subseteq Within(call[c].todo)
    BY <1>t, <1>2, MadeFields
  <2> QED  BY <1>i, <2>1
<1>3. CASE Failed(c) \/ Logged(c)
  <2>1. call'[c].todo = <<>>
            /\ (call'[c].phase = "done" \/ UNCHANGED <<call[c].phase, call[c].item>>)
    BY <1>t, <1>3, ErrsFields, SkipsFields DEF Failed, Logged
  <2> QED  BY <1>e, <1>i, <2>1
<1>4. CASE Begin(c)
  <2>1. call'[c].phase = "migrate" /\ Within(call'[c].todo) \subseteq {"job"} \X Migrations[c]
    BY <1>t, <1>4, BeginFields
  <2> QED  BY <2>1
<1>5. CASE Listed(c)
  <2>1. call[c].todo = <<>> /\ call'[c].phase = "list" /\ UNCHANGED call[c].todo
    BY <1>t, <1>5, MigrationsDoneFields DEF Listed, Polling
  <2> QED  BY <2>1
<1>6. CASE ListExistingResources(c)
  <2>1. call[c].phase = "list" /\ call'[c].phase = "update" /\ UNCHANGED call[c].todo
    BY <1>t, <1>6, ListFields
  <2> QED  BY <1>e, <1>i, <2>1
<1>7. CASE ProcessItem(c)
  <2>1. /\ call'[c].phase = "update" /\ call[c].listed \in Listing
        /\ Wants[c][call[c].item] \in Item
        /\ call'[c].todo = ForItem(call[c].listed, Wants[c][call[c].item])
    BY <1>t, <1>7, ProcessItemFields
  <2>2. Within(call'[c].todo) \subseteq ItemCalls \X (Names \cup Services)
    BY <2>1, ForItemCalls
  <2> QED  BY <2>1, <2>2
<1>8. CASE UpdateDeploymentSetReturns(c)
  <2>1. call[c].todo = <<>> /\ call'[c].phase = "done" /\ UNCHANGED call[c].todo
    BY <1>t, <1>8, ReturnsFields
  <2> QED  BY <2>1
<1>9. ASSUME NEW j \in Jobs, Poll(c, j) PROVE Goal
  <2>1. UNCHANGED <<call[c].phase, call[c].item, call[c].todo>>
    BY <1>t, <1>9, PollFields
  <2> QED  BY <1>i, <2>1
<1>10. ASSUME NEW kind, NEW n, Taken(c, kind, n) PROVE Goal
  <2>1. /\ call'[c].phase = "update" /\ call'[c].item > Len(Wants[c])
    BY <1>t, <1>10, TakenStays
  <2>t. \/ kind = "deployment" /\ n \in Names /\ call'[c].todo = Deletion(n)
        \/ /\ kind = "service" /\ n \in Services
           /\ Within(call'[c].todo) = {<<"delete_service", n>>}
        \/ /\ kind = "ingress" /\ n \in Names
           /\ Within(call'[c].todo) = {<<"delete_ingress", n>>}
    BY <1>t, <1>10, TakenTodo
  <2>2. n \in Names => Within(Deletion(n)) \subseteq Deletions \X (Names \cup Services)
    BY DeletionCalls DEF Deletions
  <2>3. Within(call'[c].todo) \subseteq Deletions \X (Names \cup Services)
    BY <2>2, <2>t DEF Deletions
  <2> QED  BY <2>1, <2>3
<1> QED  BY <1>1, <1>2, <1>3, <1>4, <1>5, <1>6, <1>7, <1>8, <1>9, <1>10, CallGoes DEF Moves

\* A call has no result before it is done, and no item before it has listed.
LEMMA FreshInvStep ==
    ASSUME TypeOK, TodoInv, FreshInv, Next
    PROVE  FreshInv'
<1> SUFFICES ASSUME NEW c \in Calls
             PROVE  /\ call'[c].result # "none" => call'[c].phase = "done"
                    /\ call'[c].phase \in {"idle", "migrate", "list"} => call'[c].item = 1
  BY DEF FreshInv
<1>t. /\ CallType /\ deployments \in Objects(Names) /\ services \in Objects(Services)
      /\ ingresses \in Objects(Names)
  BY DEF TypeOK, CallType
<1>i. /\ call[c].result # "none" => call[c].phase = "done"
      /\ call[c].phase \in {"idle", "migrate", "list"} => call[c].item = 1
  BY DEF FreshInv
<1> DEFINE Goal == /\ call'[c].result # "none" => call'[c].phase = "done"
                   /\ call'[c].phase \in {"idle", "migrate", "list"} => call'[c].item = 1
<1>1. CASE UNCHANGED <<call[c].phase, call[c].result, call[c].item>>
  BY <1>i, <1>1
<1>2. ASSUME NEW op, NEW n, Made(c, op, n)
      PROVE  UNCHANGED <<call[c].phase, call[c].result, call[c].item>>
  BY <1>t, <1>2, MadeFields
<1>3. Failed(c) \/ UpdateDeploymentSetReturns(c) => call'[c].phase = "done"
  BY <1>t, ErrsFields, ReturnsFields DEF Failed
<1>4. Logged(c) => UNCHANGED <<call[c].phase, call[c].result, call[c].item>>
  BY <1>t, SkipsFields DEF Logged
<1>5. CASE Begin(c)
  <2>1. call[c].phase = "idle" /\ UNCHANGED <<call[c].result, call[c].item>>
    BY <1>t, <1>5, BeginFields
  <2> QED  BY <1>i, <2>1
<1>6. CASE Listed(c)
  <2>1. call[c].phase = "migrate" /\ UNCHANGED <<call[c].result, call[c].item>>
    BY <1>t, <1>6, MigrationsDoneFields DEF Listed, Polling, In
  <2> QED  BY <1>i, <2>1
<1>7. CASE ListExistingResources(c)
  <2>1. call[c].phase = "list" /\ call'[c].phase = "update" /\ UNCHANGED call[c].result
    BY <1>t, <1>7, ListFields
  <2> QED  BY <1>i, <2>1
<1>8. CASE ProcessItem(c)
  <2>1. call[c].phase = "update" /\ call'[c].phase = "update" /\ UNCHANGED call[c].result
    BY <1>t, <1>8, ProcessItemFields
  <2> QED  BY <1>i, <2>1
<1>9. ASSUME NEW j \in Jobs, Poll(c, j)
      PROVE  UNCHANGED <<call[c].phase, call[c].result, call[c].item>>
  BY <1>t, <1>9, PollFields
<1>10. ASSUME NEW kind, NEW n, Taken(c, kind, n)
       PROVE  UNCHANGED <<call[c].phase, call[c].result, call[c].item>>
  BY <1>t, <1>10, TakenFields
<1>11. CASE call'[c].phase = "done"
  BY <1>11
<1>12. call'[c] = call[c] => UNCHANGED <<call[c].phase, call[c].result, call[c].item>>
  OBVIOUS
<1> QED  BY <1>1, <1>2, <1>3, <1>4, <1>5, <1>6, <1>7, <1>8, <1>9, <1>10, <1>11, <1>12,
            CallGoes DEF Moves

\* A job that shows success has succeeded, and what has succeeded stays so, even when the
\* job is removed (the status that RunMigrations polls).
LEMMA JobsStep ==
    ASSUME TypeOK, TodoInv, MigratedInv, Next
    PROVE  ran \subseteq ran' /\ \A j \in Jobs : jobs'[j] = "succeeded" => j \in ran'
<1>t. CallType /\ deployments \in Objects(Names) /\ jobs \in [Jobs -> JobState]
  BY DEF TypeOK, CallType
<1>i. \A j \in Jobs : jobs[j] = "succeeded" => j \in ran
  BY DEF MigratedInv
<1>1. CASE UNCHANGED <<jobs, ran>>
  BY <1>i, <1>1
<1>2. CASE \E j \in Jobs : PodFails(j) \/ JobSucceeds(j) \/ JobFails(j) \/ JobIsRemoved(j)
  BY <1>t, <1>i, <1>2 DEF PodFails, JobSucceeds, JobFails, JobIsRemoved, JobStep
<1>3. ASSUME NEW c, NEW op, NEW n, Made(c, op, n)
      PROVE  ran' = ran /\ \A j \in Jobs : jobs'[j] = "succeeded" => jobs[j] = "succeeded"
  BY <1>t, <1>3 DEF Made, MadeJobs
<1>4. ASSUME NEW c \in Calls, \/ Failed(c) \/ Logged(c) \/ Begin(c) \/ Listed(c)
                              \/ ListExistingResources(c) \/ ProcessItem(c)
                              \/ UpdateDeploymentSetReturns(c) \/ \E j \in Jobs : Poll(c, j)
      PROVE  UNCHANGED <<jobs, ran>>
  BY <1>4 DEF Failed, Logged, Begin, Listed, ListExistingResources, ProcessItem,
     UpdateDeploymentSetReturns, Poll, NoChange
<1>5. ASSUME NEW c \in Calls, NEW kind, NEW n, Taken(c, kind, n) PROVE UNCHANGED <<jobs, ran>>
  BY <1>t, <1>5, TakenFields DEF NoChange
<1>6. CASE \E n \in Names : UpdateSecret(n) \/ DeleteSecret(n)
  BY <1>1, <1>6 DEF UpdateSecret, DeleteSecret
<1> QED  BY <1>i, <1>t, <1>1, <1>2, <1>3, <1>4, <1>5, <1>6, StepKinds

\* What a call writes, it writes while it updates (createDeployment, updateDeployment,
\* createOrUpdateApiKey).
LEMMA WritersUpdate ==
    ASSUME TypeOK, TodoInv, Next, NEW c \in Calls, NEW n \in Names,
           c \in {deployments'[n], keys'[n]}, c \notin {deployments[n], keys[n]}
    PROVE  call[c].phase = "update" /\ call'[c].phase = "update"
<1>t. /\ CallType /\ deployments \in Objects(Names)
             /\ keys \in [Names -> Calls \cup {None, "edited"}]
  BY DEF TypeOK, CallType
<1>1. PICK d \in Calls, op \in Ops, m \in Names \cup Services \cup Jobs : Made(d, op, m)
  <2>1. ~UNCHANGED <<deployments, keys>>
    OBVIOUS
  <2>2. ASSUME NEW d \in Calls, \/ Failed(d) \/ Logged(d) \/ Begin(d) \/ Listed(d)
                                \/ ListExistingResources(d) \/ ProcessItem(d)
                                \/ UpdateDeploymentSetReturns(d) \/ \E j \in Jobs : Poll(d, j)
        PROVE  FALSE
    BY <2>1, <2>2 DEF Failed, Logged, Begin, Listed, ListExistingResources, ProcessItem,
       UpdateDeploymentSetReturns, Poll, NoChange, objects
  <2>3. ASSUME NEW d \in Calls, NEW kind, NEW m, Taken(d, kind, m) PROVE FALSE
    BY <1>t, <2>1, <2>3, TakenFields DEF NoChange
  <2>4. ASSUME NEW m \in Names, UpdateSecret(m) \/ DeleteSecret(m) PROVE FALSE
    <3>1. /\ deployments' = deployments
          /\ keys' = [keys EXCEPT ![m] = "edited"] \/ keys' = [keys EXCEPT ![m] = None]
      BY <2>4 DEF UpdateSecret, DeleteSecret
    <3>2. c # "edited" /\ c # None
      BY NoneAssumption
    <3> QED  BY <1>t, <3>1, <3>2
  <2>5. ASSUME NEW j \in Jobs, PodFails(j) \/ JobSucceeds(j) \/ JobFails(j) \/ JobIsRemoved(j)
        PROVE  FALSE
    BY <2>1, <2>5 DEF PodFails, JobSucceeds, JobFails, JobIsRemoved, JobStep, objects
  <2> QED  BY <1>t, <2>2, <2>3, <2>4, <2>5, StepKinds
<1>2. c # None
  BY NoneAssumption
<1>3. d = c /\ op # "job"
  <2>1. CASE deployments'[n] = c /\ deployments[n] # c
    <3>1. \/ /\ op \in {"create", "update"} /\ m \in Names
             /\ deployments' = [deployments EXCEPT ![m] = d]
          \/ deployments' = [deployments EXCEPT ![m] = None]
          \/ UNCHANGED deployments
      BY <1>1 DEF Made, MadeDeployments
    <3> QED  BY <1>t, <1>2, <2>1, <3>1 DEF Objects
  <2>2. CASE keys'[n] = c /\ keys[n] # c
    <3>1. \/ op = "key" /\ keys' = [keys EXCEPT ![m] = d]
          \/ keys' = [keys EXCEPT ![m] = None]
          \/ UNCHANGED keys
      BY <1>1 DEF Made, MadeKeys
    <3> QED  BY <1>t, <1>2, <2>2, <3>1
  <2> QED  BY <2>1, <2>2
<1>4. call[c].phase = "update"
  BY <1>1, <1>3 DEF Made
<1>5. Made(c, op, m)
  BY <1>1, <1>3
<1> QED  BY <1>t, <1>4, <1>5, MadeFields

\* A call goes on to the listing when every job it waited for has succeeded (RunMigrations).
LEMMA MigratedInvStep ==
    ASSUME TypeOK, TodoInv, FreshInv, MigratedInv, Next
    PROVE  MigratedInv'
<1>t. /\ CallType /\ deployments \in Objects(Names) /\ services \in Objects(Services)
      /\ ingresses \in Objects(Names)
  BY DEF TypeOK, CallType
<1>j. ran \subseteq ran' /\ (\A j \in Jobs : jobs'[j] = "succeeded" => j \in ran')
  BY JobsStep
<1>1. ASSUME NEW c \in Calls
      PROVE  /\ call'[c].phase = "migrate" /\ ~call'[c].failures =>
                    Migrations[c] \ call'[c].waits \subseteq ran'
             /\ call'[c].phase \in {"list", "update"} => Migrations[c] \subseteq ran'
             /\ call[c].phase \in {"update", "done"} => call'[c].phase \in {"update", "done"}
  <2> DEFINE Goal == /\ call'[c].phase = "migrate" /\ ~call'[c].failures =>
                            Migrations[c] \ call'[c].waits \subseteq ran'
                     /\ call'[c].phase \in {"list", "update"} => Migrations[c] \subseteq ran'
                     /\ call[c].phase \in {"update", "done"}
                            => call'[c].phase \in {"update", "done"}
  <2>i. /\ call[c].phase = "migrate" /\ ~call[c].failures
               => Migrations[c] \ call[c].waits \subseteq ran
        /\ call[c].phase \in {"list", "update"} => Migrations[c] \subseteq ran
    BY DEF MigratedInv
  <2>1. CASE UNCHANGED <<call[c].phase, call[c].waits, call[c].failures>>
    BY <1>j, <2>i, <2>1
  <2>2. ASSUME NEW op, NEW n, Made(c, op, n)
        PROVE  UNCHANGED <<call[c].phase, call[c].waits, call[c].failures>>
    BY <1>t, <2>2, MadeFields
  <2>3. Failed(c) \/ UpdateDeploymentSetReturns(c) => call'[c].phase = "done"
    BY <1>t, ErrsFields, ReturnsFields DEF Failed
  <2>4. Logged(c) => UNCHANGED <<call[c].phase, call[c].waits, call[c].failures>>
    BY <1>t, SkipsFields DEF Logged
  <2>5. CASE Begin(c)
    <3>1. call[c].phase = "idle" /\ call'[c].phase = "migrate" /\ call'[c].waits = Migrations[c]
      BY <1>t, <2>5, BeginFields
    <3> QED  BY <3>1
  <2>6. CASE Listed(c)
    <3>1. /\ call[c].phase = "migrate" /\ call[c].waits = {} /\ ~call[c].failures
          /\ call'[c].phase = "list"
      BY <1>t, <2>6, MigrationsDoneFields DEF Listed, Polling, In
    <3> QED  BY <1>j, <2>i, <3>1
  <2>7. CASE ListExistingResources(c)
    <3>1. call[c].phase = "list" /\ call'[c].phase = "update"
      BY <1>t, <2>7, ListFields
    <3> QED  BY <1>j, <2>i, <3>1
  <2>8. CASE ProcessItem(c)
    <3>1. UNCHANGED <<call[c].phase, call[c].waits, call[c].failures>>
      BY <1>t, <2>8, ProcessItemFields
    <3> QED  BY <2>1, <3>1
  <2>9. ASSUME NEW j \in Jobs, Poll(c, j) PROVE Goal
    <3>1. /\ call[c].phase = "migrate" /\ UNCHANGED call[c].phase /\ Settled(j)
          /\ call'[c].waits = call[c].waits \ {j}
          /\ ~call'[c].failures => ~call[c].failures /\ jobs[j] \notin {"retrying", "failed"}
      BY <1>t, <2>9, PollFields
    <3>2. ~call'[c].failures => j \in ran
      BY <3>1 DEF Settled, MigratedInv
    <3> QED  BY <1>j, <2>i, <3>1, <3>2
  <2>10. ASSUME NEW kind, NEW n, Taken(c, kind, n)
         PROVE  UNCHANGED <<call[c].phase, call[c].waits, call[c].failures>>
    BY <1>t, <2>10, TakenFields
  <2>11. CASE call'[c].phase = "done"
    BY <2>11
  <2>12. call'[c] = call[c] => UNCHANGED <<call[c].phase, call[c].waits, call[c].failures>>
    OBVIOUS
  <2> QED  BY <2>1, <2>2, <2>3, <2>4, <2>5, <2>6, <2>7, <2>8, <2>9, <2>10, <2>11, <2>12, CallGoes
           DEF Moves
<1>2. ASSUME NEW c \in Calls, NEW n \in Names, c \in {deployments'[n], keys'[n]}
      PROVE  call'[c].phase \in {"update", "done"} /\ Migrations[c] \subseteq ran'
  <2>1. CASE c \in {deployments[n], keys[n]}
    <3>1. call[c].phase \in {"update", "done"} /\ Migrations[c] \subseteq ran
      BY <2>1 DEF MigratedInv
    <3> QED  BY <1>j, <1>1, <3>1
  <2>2. CASE c \notin {deployments[n], keys[n]}
    <3>1. call'[c].phase = "update"
      BY <1>2, <2>2, WritersUpdate
    <3> QED  BY <1>1, <3>1
  <2> QED  BY <2>1, <2>2
<1> QED  BY <1>j, <1>1, <1>2 DEF MigratedInv

\* A call that is not under way stays so unless it begins, and it begins once.
LEMMA PhaseStep ==
    ASSUME TypeOK, TodoInv, Next, NEW c \in Calls, ~Begin(c)
    PROVE  /\ call'[c].phase \in Busy => call[c].phase \in Busy
           /\ call'[c].phase = "idle" <=> call[c].phase = "idle"
<1>t. /\ CallType /\ deployments \in Objects(Names) /\ services \in Objects(Services)
      /\ ingresses \in Objects(Names)
  BY DEF TypeOK, CallType
<1>b. /\ \A p \in {"migrate", "list", "update"} : p \in Busy
      /\ "done" \notin Busy /\ "idle" \notin Busy
  BY DEF Busy, Phase
<1> DEFINE Goal == /\ call'[c].phase \in Busy => call[c].phase \in Busy
                   /\ call'[c].phase = "idle" <=> call[c].phase = "idle"
<1>1. CASE UNCHANGED call[c].phase
  BY <1>1
<1>2. ASSUME NEW op, NEW n, Made(c, op, n) PROVE UNCHANGED call[c].phase
  BY <1>t, <1>2, MadeFields
<1>3. CASE Failed(c) \/ UpdateDeploymentSetReturns(c)
  <2>1. call'[c].phase = "done" /\ call[c].phase \in Busy
    BY <1>t, <1>b, <1>3, ErrsFields, ReturnsFields DEF Failed
  <2> QED  BY <1>b, <2>1
<1>4. Logged(c) => UNCHANGED call[c].phase
  BY <1>t, SkipsFields DEF Logged
<1>5. CASE Listed(c) \/ ListExistingResources(c)
  <2>1. /\ call[c].phase \in {"migrate", "list"} /\ call'[c].phase \in {"list", "update"}
    BY <1>t, <1>5, MigrationsDoneFields, ListFields DEF Listed, Polling, In
  <2> QED  BY <1>b, <2>1
<1>6. ProcessItem(c) => UNCHANGED call[c].phase
  BY <1>t, ProcessItemFields
<1>7. ASSUME NEW j \in Jobs, Poll(c, j) PROVE UNCHANGED call[c].phase
  BY <1>t, <1>7, PollFields
<1>8. ASSUME NEW kind, NEW n, Taken(c, kind, n) PROVE UNCHANGED call[c].phase
  BY <1>t, <1>8, TakenFields
<1>9. call'[c] = call[c] => UNCHANGED call[c].phase
  OBVIOUS
<1> QED  BY <1>1, <1>2, <1>3, <1>4, <1>5, <1>6, <1>7, <1>8, <1>9, CallGoes DEF Moves

\* Who is alone, and who began last, changes when a call begins.
LEMMA AloneStep ==
    ASSUME TypeOK, TodoInv, Next, \A c \in Calls : ~Begin(c)
    PROVE  UNCHANGED <<alone, latest>>
<1>t. CallType /\ deployments \in Objects(Names)
  BY DEF TypeOK, CallType
<1>1. ASSUME NEW c, NEW op, NEW n, Made(c, op, n) PROVE UNCHANGED <<alone, latest>>
  BY <1>1 DEF Made
<1>2. ASSUME NEW c \in Calls, \/ Failed(c) \/ Logged(c) \/ Listed(c)
                              \/ ListExistingResources(c) \/ ProcessItem(c)
                              \/ UpdateDeploymentSetReturns(c) \/ \E j \in Jobs : Poll(c, j)
      PROVE  UNCHANGED <<alone, latest>>
  BY <1>2 DEF Failed, Logged, Listed, ListExistingResources, ProcessItem,
     UpdateDeploymentSetReturns, Poll, NoChange, Rest
<1>3. ASSUME NEW c \in Calls, NEW kind, NEW n, Taken(c, kind, n) PROVE UNCHANGED <<alone, latest>>
  BY <1>t, <1>3, TakenFields DEF NoChange
<1>4. (\E n \in Names : UpdateSecret(n) \/ DeleteSecret(n)) => UNCHANGED <<alone, latest>>
  BY DEF UpdateSecret, DeleteSecret
<1>5. (\E j \in Jobs : PodFails(j) \/ JobSucceeds(j) \/ JobFails(j) \/ JobIsRemoved(j))
      => UNCHANGED <<alone, latest>>
  BY DEF PodFails, JobSucceeds, JobFails, JobIsRemoved, JobStep, Rest
<1> QED  BY <1>t, <1>1, <1>2, <1>3, <1>4, <1>5, StepKinds

\* A call that begins while another is under way takes both out of those that nobody overlaps.
LEMMA LoneInvStep ==
    ASSUME TypeOK, TodoInv, LoneInv, Next
    PROVE  LoneInv'
<1> DEFINE R == {c \in Calls : call[c].phase \in Busy}
           Q == {c \in Calls : call'[c].phase \in Busy}
<1>t. CallType
  BY DEF TypeOK, CallType
<1>i. /\ \A c \in Calls : call[c].phase = "idle" => c \notin alone
      /\ \A c, d \in R : c # d => c \notin alone
      /\ latest \in alone => R \subseteq {latest}
  BY DEF LoneInv, Running
<1> SUFFICES /\ \A c \in Calls : call'[c].phase = "idle" => c \notin alone'
             /\ \A c, d \in Q : c # d => c \notin alone'
             /\ latest' \in alone' => Q \subseteq {latest'}
  BY DEF LoneInv, Running
<1>1. CASE \A c \in Calls : ~Begin(c)
  <2>1. Q \subseteq R /\ UNCHANGED <<alone, latest>>
    BY <1>1, PhaseStep, AloneStep
  <2>2. \A c \in Calls : call'[c].phase = "idle" => call[c].phase = "idle"
    BY <1>1, PhaseStep
  <2> QED  BY <1>i, <2>1, <2>2
<1>2. ASSUME NEW c \in Calls, Begin(c)
      PROVE  /\ \A d \in Calls : call'[d].phase = "idle" => d \notin alone'
             /\ \A d, e \in Q : d # e => d \notin alone'
             /\ latest' \in alone' => Q \subseteq {latest'}
  <2>1. Others(c) /\ call[c].phase = "idle" /\ call'[c].phase = "migrate"
    BY <1>t, <1>2, BeginFields
  <2>2. latest' = c /\ alone' = IF R = {} THEN alone \cup {c} ELSE alone \ R
    BY <1>2 DEF Begin, Running
  <2>3. \A d \in Calls \ {c} : call'[d] = call[d]
    BY <2>1 DEF Others
  <2>4. Q \subseteq R \cup {c} /\ c \notin alone
    BY <1>i, <2>1, <2>3
  <2>5. ASSUME NEW d \in Calls, call'[d].phase = "idle" PROVE d \notin alone'
    BY <1>i, <2>1, <2>2, <2>3, <2>5
  <2> HIDE DEF R, Q
  <2>6. CASE R = {}
    BY <2>2, <2>4, <2>5, <2>6
  <2>7. CASE R # {}
    BY <1>i, <2>2, <2>4, <2>5, <2>7
  <2> QED  BY <2>6, <2>7
<1> QED  BY <1>1, <1>2

\* ListedInv for one call and one name: w is what it has to do, o what it found obsolete.
Fit(c, n, w, o, listed) ==
    /\ <<"update", n>> \in w => listed.deployments[n] # None
    /\ n \in NamesOf(c) => /\ <<"deployment", n>> \notin o /\ <<"delete", n>> \notin w
                           /\ <<"delete_key", n>> \notin w /\ <<"delete_account", n>> \notin w
    /\ n \in ServicesOf(c) => <<"service", n>> \notin o /\ <<"delete_service", n>> \notin w
    /\ n \in IngressesOf(c) => <<"ingress", n>> \notin o /\ <<"delete_ingress", n>> \notin w

\* What is to be updated was listed, and what is to be deleted is not asked for: the set is
\* compared with what was listed before anything is written (processDeploymentSet).
LEMMA ListedInvStep ==
    ASSUME TypeOK, TodoInv, ListedInv, Next
    PROVE  ListedInv'
<1> SUFFICES ASSUME NEW c \in Calls, NEW n \in Names \cup Services
             PROVE  Fit(c, n, Within(call'[c].todo), call'[c].obsolete, call'[c].listed)
  BY DEF ListedInv, Fit, Doomed, DoomedService, DoomedIngress, ToDo, Obsoleted, Within
<1> DEFINE w == Within(call[c].todo)
           x == Within(call'[c].todo)
           o == call[c].obsolete
<1>t. /\ CallType /\ deployments \in Objects(Names) /\ services \in Objects(Services)
      /\ ingresses \in Objects(Names)
  BY DEF TypeOK, CallType
<1>i. Fit(c, n, w, o, call[c].listed)
  BY DEF ListedInv, Fit, Doomed, DoomedService, DoomedIngress, ToDo, Obsoleted
<1>e. Within(<<>>) = {}
  BY IdleHasNothing
<1> DEFINE Goal == Fit(c, n, x, call'[c].obsolete, call'[c].listed)
<1> HIDE DEF w, x, o
<1>s. ASSUME x \subseteq w, call'[c].obsolete = o, UNCHANGED call[c].listed PROVE Goal
  BY <1>i, <1>s DEF Fit
<1>1. ASSUME call'[c] = call[c] PROVE Goal
  BY <1>s, <1>1 DEF w, x, o
<1>2. ASSUME NEW op, NEW m, Made(c, op, m) PROVE Goal
  <2>1. x \subseteq w /\ call'[c].obsolete = o /\ UNCHANGED call[c].listed
    BY <1>t, <1>2, MadeFields DEF w, x, o
  <2> QED  BY <1>s, <2>1
<1>3. ASSUME Failed(c) \/ Logged(c) PROVE Goal
  <2>1. x \subseteq w /\ call'[c].obsolete = o /\ UNCHANGED call[c].listed
    BY <1>e, <1>t, <1>3, ErrsFields, SkipsFields DEF Failed, Logged, w, x, o
  <2> QED  BY <1>s, <2>1
<1>4. ASSUME Begin(c) PROVE Goal
  <2>1. x \subseteq {"job"} \X Migrations[c] /\ call'[c].obsolete = o /\ UNCHANGED call[c].listed
    BY <1>t, <1>4, BeginFields DEF x, o
  <2> QED  BY <1>i, <2>1 DEF Fit
<1>5. ASSUME Listed(c) \/ UpdateDeploymentSetReturns(c) PROVE Goal
  <2>1. x \subseteq w /\ call'[c].obsolete = o /\ UNCHANGED call[c].listed
    BY <1>t, <1>5, MigrationsDoneFields, ReturnsFields DEF Listed, w, x, o
  <2> QED  BY <1>s, <2>1
<1>6. ASSUME ListExistingResources(c) PROVE Goal
  <2>1. /\ call[c].phase = "list" /\ call'[c].todo = call[c].todo
        /\ call'[c].obsolete = Obsolete(c)
    BY <1>t, <1>6, ListFields
  <2>2. x = {}
    BY <1>e, <2>1 DEF TodoInv, x
  <2>3. /\ <<"deployment", n>> \in Obsolete(c) => n \notin NamesOf(c)
        /\ <<"service", n>> \in Obsolete(c) => n \notin ServicesOf(c)
        /\ <<"ingress", n>> \in Obsolete(c) => n \notin IngressesOf(c)
    BY <1>t, ObsoleteIsNotWanted
  <2> QED  BY <2>1, <2>2, <2>3 DEF Fit
<1>7. ASSUME ProcessItem(c) PROVE Goal
  <2>1. /\ call[c].listed \in Listing /\ Wants[c][call[c].item] \in Item
        /\ call'[c].todo = ForItem(call[c].listed, Wants[c][call[c].item])
        /\ call'[c].obsolete = o /\ UNCHANGED call[c].listed
    BY <1>t, <1>7, ProcessItemFields DEF o
  <2>2. /\ x \subseteq ItemCalls \X (Names \cup Services)
        /\ <<"update", n>> \in x => call[c].listed.deployments[n] # None
    BY <2>1, ForItemCalls DEF x
  <2>3. {"delete", "delete_key", "delete_account", "delete_service", "delete_ingress"} \cap ItemCalls = {}
    BY DEF ItemCalls
  <2> QED  BY <1>i, <2>1, <2>2, <2>3 DEF Fit
<1>8. ASSUME NEW j \in Jobs, Poll(c, j) PROVE Goal
  <2>1. x \subseteq w /\ call'[c].obsolete = o /\ UNCHANGED call[c].listed
    BY <1>t, <1>8, PollFields DEF w, x, o
  <2> QED  BY <1>s, <2>1
<1>9. ASSUME NEW kind, NEW m, Taken(c, kind, m) PROVE Goal
  <2>1. /\ <<kind, m>> \in o /\ call'[c].obsolete = o \ {<<kind, m>>} /\ UNCHANGED call[c].listed
        /\ \/ kind = "deployment" /\ m \in Names /\ call'[c].todo = Deletion(m)
           \/ kind = "service" /\ x = {<<"delete_service", m>>}
           \/ kind = "ingress" /\ x = {<<"delete_ingress", m>>}
    BY <1>t, <1>9, TakenFields DEF x, o
  <2>2. CASE kind = "deployment"
    <3>1. x = {<<"delete", m>>, <<"delete_key", m>>, <<"delete_account", m>>}
      BY <2>1, <2>2, DeletionCalls DEF x
    <3> QED  BY <1>i, <2>1, <2>2, <3>1 DEF Fit
  <2>3. CASE kind = "service" /\ x = {<<"delete_service", m>>}
    BY <1>i, <2>1, <2>3 DEF Fit
  <2>4. CASE kind = "ingress" /\ x = {<<"delete_ingress", m>>}
    BY <1>i, <2>1, <2>4 DEF Fit
  <2> QED  BY <2>1, <2>2, <2>3, <2>4
<1>10. Goal
  BY <1>1, <1>2, <1>3, <1>4, <1>5, <1>6, <1>7, <1>8, <1>9, CallGoes DEF Moves
<1> QED  BY <1>10 DEF x

\* AskedInv for one call and one name: w is what it has to do.
Asked(c, n, w) ==
    /\ <<"create", n>> \in w \/ <<"update", n>> \in w => n \in NamesOf(c)
    /\ <<"create_service", n>> \in w \/ <<"update_service", n>> \in w => n \in ServicesOf(c)
    /\ <<"create_ingress", n>> \in w \/ <<"update_ingress", n>> \in w => n \in IngressesOf(c)

\* Only what the set asks for is created or updated: the loop goes through its items
\* (processDeploymentSet).
LEMMA AskedInvStep ==
    ASSUME TypeOK, TodoInv, AskedInv, Next
    PROVE  AskedInv'
<1> SUFFICES ASSUME NEW c \in Calls, NEW n \in Names \cup Services
             PROVE  Asked(c, n, Within(call'[c].todo))
  BY DEF AskedInv, Asked, ToDo, Within
<1> DEFINE w == Within(call[c].todo)
           x == Within(call'[c].todo)
<1>t. /\ CallType /\ deployments \in Objects(Names) /\ services \in Objects(Services)
      /\ ingresses \in Objects(Names)
  BY DEF TypeOK, CallType
<1>i. Asked(c, n, w)
  BY DEF AskedInv, Asked, ToDo
<1>e. Within(<<>>) = {}
  BY IdleHasNothing
<1> DEFINE Goal == Asked(c, n, x)
<1> HIDE DEF w, x
<1>s. ASSUME x \subseteq w PROVE Goal
  BY <1>i, <1>s DEF Asked
<1>1. ASSUME call'[c] = call[c] PROVE Goal
  BY <1>s, <1>1 DEF w, x
<1>2. ASSUME NEW op, NEW m, Made(c, op, m) PROVE Goal
  <2>1. x \subseteq w
    BY <1>t, <1>2, MadeFields DEF w, x
  <2> QED  BY <1>s, <2>1
<1>3. ASSUME Failed(c) \/ Logged(c) PROVE Goal
  <2>1. x \subseteq w
    BY <1>e, <1>t, <1>3, ErrsFields, SkipsFields DEF Failed, Logged, w, x
  <2> QED  BY <1>s, <2>1
<1>4. ASSUME Begin(c) PROVE Goal
  <2>1. x \subseteq {"job"} \X Migrations[c]
    BY <1>t, <1>4, BeginFields DEF x
  <2> QED  BY <2>1 DEF Asked
<1>5. ASSUME Listed(c) \/ UpdateDeploymentSetReturns(c) \/ ListExistingResources(c) PROVE Goal
  <2>1. x \subseteq w
    BY <1>t, <1>5, MigrationsDoneFields, ReturnsFields, ListFields DEF Listed, w, x
  <2> QED  BY <1>s, <2>1
<1>7. ASSUME ProcessItem(c) PROVE Goal
  <2> DEFINE i == call[c].item
             p == Wants[c][call[c].item]
  <2>1. /\ i \in DOMAIN Wants[c] /\ p \in Item /\ call[c].listed \in Listing
        /\ call'[c].todo = ForItem(call[c].listed, p)
    BY <1>t, <1>7, ProcessItemFields
  <2>2. p.name \in NamesOf(c)
    BY <2>1 DEF NamesOf
  <2>3. p.service # None => p.service \in ServicesOf(c)
    BY <2>1 DEF ServicesOf
  <2>4. p.ingress => p.name \in IngressesOf(c)
    BY <2>1 DEF IngressesOf
  <2> HIDE DEF i, p
  <2>5. OnlyFor(p, x)
    BY <2>1, ForItemCalls DEF x
  <2> QED  BY <2>2, <2>3, <2>4, <2>5 DEF Asked, OnlyFor
<1>8. ASSUME NEW j \in Jobs, Poll(c, j) PROVE Goal
  <2>1. x \subseteq w
    BY <1>t, <1>8, PollFields DEF w, x
  <2> QED  BY <1>s, <2>1
<1>9. ASSUME NEW kind, NEW m, Taken(c, kind, m) PROVE Goal
  <2>1. \/ m \in Names /\ call'[c].todo = Deletion(m)
        \/ x = {<<"delete_service", m>>}
        \/ x = {<<"delete_ingress", m>>}
    BY <1>t, <1>9, TakenTodo DEF x
  <2>2. CASE m \in Names /\ call'[c].todo = Deletion(m)
    <3>1. x = {<<"delete", m>>, <<"delete_key", m>>, <<"delete_account", m>>}
      BY <2>2, DeletionCalls DEF x
    <3> QED  BY <3>1 DEF Asked
  <2>3. CASE x = {<<"delete_service", m>>} \/ x = {<<"delete_ingress", m>>}
    BY <2>3 DEF Asked
  <2> QED  BY <2>1, <2>2, <2>3
<1>10. Goal
  BY <1>1, <1>2, <1>3, <1>4, <1>5, <1>7, <1>8, <1>9, CallGoes DEF Moves
<1> QED  BY <1>10 DEF x

\* Types, with ListedInv for what no call deletes.
LEMMA TypeStep ==
    ASSUME TypeOK, TodoInv, ListedInv, Next
    PROVE  TypeOK'
<1>1. CallType'
  BY CallTypeStep
<1>2. ListedInv'
  BY ListedInvStep
<1>3. ASSUME NEW c \in Calls, NEW o \in call'[c].obsolete
      PROVE  o[2] \notin (CASE o[1] = "deployment" -> NamesOf(c)
                            [] o[1] = "service"    -> ServicesOf(c)
                            [] o[1] = "ingress"    -> IngressesOf(c))
  <2>1. o \in Kinds \X (Names \cup Services)
    BY <1>1, <1>3 DEF CallType, Call
  <2>2. PICK kind \in Kinds, n \in Names \cup Services : o = <<kind, n>>
    BY <2>1
  <2>3. o[1] = kind /\ o[2] = n
    BY <2>2
  <2>4. /\ <<"deployment", n>> \in call'[c].obsolete => n \notin NamesOf(c)
        /\ <<"service", n>> \in call'[c].obsolete => n \notin ServicesOf(c)
        /\ <<"ingress", n>> \in call'[c].obsolete => n \notin IngressesOf(c)
    BY <1>2 DEF ListedInv, Doomed, DoomedService, DoomedIngress, Obsoleted
  <2>5. /\ kind = "deployment" => n \notin NamesOf(c)
        /\ kind = "service" => n \notin ServicesOf(c)
        /\ kind = "ingress" => n \notin IngressesOf(c)
    BY <1>3, <2>2, <2>4
  <2> QED  BY <2>3, <2>5 DEF Kinds
<1>4. call' \in [Calls -> Call]
  BY <1>1 DEF CallType
<1>5. /\ deployments' \in Objects(Names) /\ services' \in Objects(Services)
      /\ ingresses' \in Objects(Names)
      /\ keys' \in [Names -> Calls \cup {None, "edited"}] /\ accounts' \subseteq Names
      /\ jobs' \in [Jobs -> JobState] /\ ran' \subseteq Jobs
      /\ alone' \subseteq Calls /\ latest' \in Calls \cup {None} /\ meddled' \in BOOLEAN
      /\ faults' \in 0 .. MaxFaults
  BY ObjectTypeStep
<1> QED  BY <1>3, <1>4, <1>5 DEF TypeOK, Objects, NamesOf, ServicesOf, IngressesOf

\* What is not to be done comes after anything.
LEMMA NotWithinOrdered == \A s, a, b : b \notin Within(s) => Ordered(s, a, b)
  BY DEF Within, Ordered

\* While calls do not overlap, one of them at most is under way.
LEMMA OneAtATime ==
    ASSUME LoneInv, alone = {c \in Calls : call[c].phase # "idle"},
           NEW c \in Calls, NEW d \in Calls, call[c].phase \in Busy, call[d].phase \in Busy
    PROVE  c = d
<1>1. "idle" \notin Busy
  BY DEF Busy
<1> QED  BY <1>1 DEF LoneInv, Running

\* Nobody overlaps a call, and nobody meddles, after a step only if so before it; and a call
\* that begins then finds none under way.
LEMMA QuietStep ==
    ASSUME TypeOK, TodoInv, LoneInv, Next,
           alone' = {c \in Calls : call'[c].phase # "idle"}, ~meddled'
    PROVE  /\ alone = {c \in Calls : call[c].phase # "idle"} /\ ~meddled
           /\ \A c \in Calls : Begin(c) => \A d \in Calls : call[d].phase \notin Busy
           /\ ~\E n \in Names : UpdateSecret(n) \/ DeleteSecret(n)
<1>t. CallType /\ deployments \in Objects(Names) /\ meddled \in BOOLEAN /\ alone \subseteq Calls
  BY DEF TypeOK, CallType
<1>1. ~\E n \in Names : UpdateSecret(n) \/ DeleteSecret(n)
  BY DEF UpdateSecret, DeleteSecret
<1>2. meddled' = meddled
  <2>1. ASSUME NEW c, NEW op, NEW n, Made(c, op, n) PROVE meddled' = meddled
    BY <2>1 DEF Made
  <2>2. ASSUME NEW c \in Calls, \/ Failed(c) \/ Logged(c) \/ Begin(c) \/ Listed(c)
                                \/ ListExistingResources(c) \/ ProcessItem(c)
                                \/ UpdateDeploymentSetReturns(c) \/ \E j \in Jobs : Poll(c, j)
        PROVE  meddled' = meddled
    BY <2>2 DEF Failed, Logged, Begin, Listed, ListExistingResources, ProcessItem,
       UpdateDeploymentSetReturns, Poll, NoChange, Rest
  <2>3. ASSUME NEW c \in Calls, NEW kind, NEW n, Taken(c, kind, n) PROVE meddled' = meddled
    BY <1>t, <2>3, TakenFields DEF NoChange
  <2>4. (\E j \in Jobs : PodFails(j) \/ JobSucceeds(j) \/ JobFails(j) \/ JobIsRemoved(j))
        => meddled' = meddled
    BY DEF PodFails, JobSucceeds, JobFails, JobIsRemoved, JobStep, Rest
  <2> QED  BY <1>t, <1>1, <2>1, <2>2, <2>3, <2>4, StepKinds
<1>3. CASE \A c \in Calls : ~Begin(c)
  BY <1>1, <1>2, <1>3, PhaseStep, AloneStep
<1>4. ASSUME NEW c \in Calls, Begin(c)
      PROVE  /\ alone = {d \in Calls : call[d].phase # "idle"}
             /\ \A d \in Calls : call[d].phase \notin Busy
  <2> DEFINE R == {d \in Calls : call[d].phase \in Busy}
  <2>1. Others(c) /\ call[c].phase = "idle" /\ call'[c].phase = "migrate"
    BY <1>t, <1>4, BeginFields
  <2>2. alone' = IF R = {} THEN alone \cup {c} ELSE alone \ R
    BY <1>4 DEF Begin, Running
  <2>3. c \notin alone /\ c \in alone'
    BY <2>1 DEF LoneInv
  <2>4. R = {} /\ alone = alone' \ {c}
    <3> HIDE DEF R
    <3> QED  BY <2>2, <2>3
  <2>5. \A d \in Calls : d # c => call'[d] = call[d]
    BY <2>1 DEF Others
  <2>6. ASSUME NEW d \in Calls PROVE d \in alone <=> call[d].phase # "idle"
    BY <2>1, <2>4, <2>5
  <2> QED  BY <1>t, <2>4, <2>6
<1> QED  BY <1>1, <1>2, <1>3, <1>4

\* PodsInv for one name: s is what a call that updates has to do.
Supplied(n)  == deployments[n] # None => keys[n] # None /\ n \in accounts
Sequenced(s, n) ==
    /\ keys[n] # None \/ Ordered(s, <<"key", n>>, <<"create", n>>)
    /\ n \in accounts \/ Ordered(s, <<"account", n>>, <<"create", n>>)
    /\ \/ deployments[n] = None
       \/ /\ Ordered(s, <<"delete", n>>, <<"delete_key", n>>)
          /\ Ordered(s, <<"delete", n>>, <<"delete_account", n>>)

\* An API call of an update keeps the key and the account of what exists, and the order of
\* what is left (createDeployment, updateDeployment, deleteDeploymentResources).
LEMMA MadeKeepsPods ==
    ASSUME TypeOK, TodoInv, ListedInv, NEW c \in Calls, NEW op \in Ops,
           NEW m \in Names \cup Services \cup Jobs, Made(c, op, m), op # "job", NEW n \in Names,
           Supplied(n), Sequenced(call[c].todo, n)
    PROVE  /\ deployments'[n] # None => keys'[n] # None /\ n \in accounts'
           /\ keys'[n] # None \/ Ordered(call'[c].todo, <<"key", n>>, <<"create", n>>)
           /\ n \in accounts' \/ Ordered(call'[c].todo, <<"account", n>>, <<"create", n>>)
           /\ \/ deployments'[n] = None
              \/ /\ Ordered(call'[c].todo, <<"delete", n>>, <<"delete_key", n>>)
                 /\ Ordered(call'[c].todo, <<"delete", n>>, <<"delete_account", n>>)
<1> DEFINE s == call[c].todo
           t == call'[c].todo
           h == <<op, m>>
<1>t. /\ CallType /\ deployments \in Objects(Names)
             /\ keys \in [Names -> Calls \cup {None, "edited"}]
  BY DEF TypeOK, CallType
<1>1. /\ s \in Seq(APICalls) /\ s # <<>> /\ Head(s) = h /\ t = Tail(s)
      /\ Within(s) = {h} \cup Within(t) /\ call[c].phase = "update"
  BY <1>t, MadeFields DEF Made
<1>2. \/ Within(s) \subseteq ItemCalls \X (Names \cup Services)
      \/ Within(s) \subseteq Deletions \X (Names \cup Services)
  BY <1>1 DEF TodoInv
<1>3. c # None
  BY NoneAssumption
<1>4. /\ op \in {"create", "update"} => op \notin Deletions
      /\ op \in {"delete", "delete_key", "delete_account"} => op \notin ItemCalls
  BY DEF ItemCalls, Deletions
<1>u. h = <<"update", n>> => deployments[n] # None
  <2>1. h = <<"update", n>> => call[c].listed.deployments[n] # None
    BY <1>1 DEF ListedInv, ToDo
  <2>2. op = "update" => deployments[m] = call[c].listed.deployments[m]
    BY DEF Made, MadeDeployments
  <2> QED  BY <2>1, <2>2
<1> HIDE DEF s, t
<1>5. ASSUME NEW a, NEW b, Ordered(s, a, b) PROVE h # b /\ (h # a => Ordered(t, a, b))
  <2> HIDE DEF h
  <2> QED  BY <1>1, <1>5, TailOrdered
<1>d. \/ deployments'[n] = deployments[n]
      \/ h \in {<<"create", n>>, <<"update", n>>} /\ deployments'[n] = c
      \/ h = <<"delete", n>> /\ deployments'[n] = None
  <2>1. \/ op \in {"create", "update"} /\ m \in Names
               /\ deployments' = [deployments EXCEPT ![m] = c]
        \/ op = "delete" /\ m \in Names /\ deployments' = [deployments EXCEPT ![m] = None]
        \/ op # "delete" /\ UNCHANGED deployments
    BY DEF Made, MadeDeployments
  <2>2. deployments \in [Names -> Calls \cup {None}]
    BY <1>t DEF Objects
  <2> QED  BY <2>1, <2>2
<1>dd. h = <<"delete", n>> => deployments'[n] = None
  <2>1. op = "delete" => m \in Names /\ deployments' = [deployments EXCEPT ![m] = None]
    BY DEF Made, MadeDeployments
  <2> QED  BY <1>t, <2>1 DEF Objects
<1>k. /\ h = <<"key", n>> => keys'[n] # None
      /\ \/ keys'[n] = keys[n]
         \/ keys'[n] # None
         \/ h = <<"delete_key", n>>
  <2>1. \/ op = "key" /\ m \in Names /\ keys' = [keys EXCEPT ![m] = c]
        \/ op = "delete_key" /\ m \in Names /\ keys' = [keys EXCEPT ![m] = None]
        \/ op # "key" /\ UNCHANGED keys
    BY DEF Made, MadeKeys
  <2> QED  BY <1>t, <1>3, <2>1
<1>a. /\ h = <<"account", n>> => n \in accounts'
      /\ n \in accounts => n \in accounts' \/ h = <<"delete_account", n>>
  <2>1. \/ op = "account" /\ m \in Names /\ accounts' = accounts \cup {m}
        \/ op = "delete_account" /\ m \in Names /\ accounts' = accounts \ {m}
        \/ op # "account" /\ UNCHANGED accounts
    BY DEF Made, MadeAccounts
  <2> QED  BY <2>1
<1>6. h \in {<<"delete", n>>, <<"delete_key", n>>, <<"delete_account", n>>} =>
          \A b : Ordered(t, b, <<"create", n>>)
  <2>1. ASSUME h \in {<<"delete", n>>, <<"delete_key", n>>, <<"delete_account", n>>}
        PROVE  <<"create", n>> \notin Within(t)
    <3>1. op \in {"delete", "delete_key", "delete_account"}
      BY <2>1
    <3>2. Within(t) \subseteq Deletions \X (Names \cup Services)
      BY <1>1, <1>2, <1>4, <3>1
    <3>3. "create" \notin Deletions
      BY DEF Deletions
    <3> QED  BY <3>2, <3>3
  <2> QED  BY <2>1, NotWithinOrdered
<1>7. h \in {<<"create", n>>, <<"update", n>>} =>
          \A b : Ordered(t, b, <<"delete_key", n>>) /\ Ordered(t, b, <<"delete_account", n>>)
  <2>1. ASSUME h \in {<<"create", n>>, <<"update", n>>}
        PROVE  <<"delete_key", n>> \notin Within(t) /\ <<"delete_account", n>> \notin Within(t)
    <3>1. op \in {"create", "update"}
      BY <2>1
    <3>2. Within(t) \subseteq ItemCalls \X (Names \cup Services)
      BY <1>1, <1>2, <1>4, <3>1
    <3>3. "delete_key" \notin ItemCalls /\ "delete_account" \notin ItemCalls
      BY DEF ItemCalls
    <3> QED  BY <3>2, <3>3
  <2> QED  BY <2>1, NotWithinOrdered
<1>i. /\ deployments[n] # None => keys[n] # None /\ n \in accounts
      /\ keys[n] # None \/ Ordered(s, <<"key", n>>, <<"create", n>>)
      /\ n \in accounts \/ Ordered(s, <<"account", n>>, <<"create", n>>)
      /\ \/ deployments[n] = None
         \/ /\ Ordered(s, <<"delete", n>>, <<"delete_key", n>>)
            /\ Ordered(s, <<"delete", n>>, <<"delete_account", n>>)
  BY DEF Supplied, Sequenced, s
<1> HIDE DEF h
<1>8. keys'[n] # None \/ Ordered(t, <<"key", n>>, <<"create", n>>)
  BY <1>5, <1>6, <1>i, <1>k
<1>9. n \in accounts' \/ Ordered(t, <<"account", n>>, <<"create", n>>)
  BY <1>5, <1>6, <1>i, <1>a
<1>10. \/ deployments'[n] = None
       \/ /\ Ordered(t, <<"delete", n>>, <<"delete_key", n>>)
          /\ Ordered(t, <<"delete", n>>, <<"delete_account", n>>)
  BY <1>5, <1>7, <1>d, <1>dd, <1>i
<1>11. ASSUME deployments'[n] # None PROVE keys'[n] # None /\ n \in accounts'
  <2>1. keys[n] # None /\ n \in accounts /\ h # <<"delete_key", n>> /\ h # <<"delete_account", n>>
    <3>1. CASE h = <<"create", n>>
      <4>1. keys[n] # None /\ n \in accounts
        BY <1>5, <1>i, <3>1
      <4> QED  BY <3>1, <4>1
    <3>2. CASE h # <<"create", n>>
      <4>1. deployments[n] # None
        BY <1>d, <1>u, <1>11, <3>2
      <4> QED  BY <1>5, <1>i, <4>1
    <3> QED  BY <3>1, <3>2
  <2> QED  BY <1>a, <1>k, <2>1
<1> QED  BY <1>8, <1>9, <1>10, <1>11 DEF t

\* Deployments, keys and accounts change by an API call of an update, or by the admin API.
LEMMA ObjectsStay ==
    ASSUME TypeOK, TodoInv, Next,
           ~\E c \in Calls, op \in Ops, m \in Names \cup Services \cup Jobs :
                Made(c, op, m) /\ op # "job",
           ~\E n \in Names : UpdateSecret(n) \/ DeleteSecret(n)
    PROVE  UNCHANGED <<deployments, services, ingresses, keys, accounts>>
<1>t. CallType /\ deployments \in Objects(Names)
  BY DEF TypeOK, CallType
<1>1. ASSUME NEW c, NEW n, Made(c, "job", n)
      PROVE  UNCHANGED <<deployments, services, ingresses, keys, accounts>>
  <2>1. UNCHANGED deployments
    BY <1>1 DEF Made, MadeDeployments
  <2>2. UNCHANGED keys
    BY <1>1 DEF Made, MadeKeys
  <2>3. UNCHANGED accounts
    BY <1>1 DEF Made, MadeAccounts
  <2>4. UNCHANGED services
    BY <1>1 DEF Made, MadeServices
  <2>5. UNCHANGED ingresses
    BY <1>1 DEF Made, MadeIngresses
  <2> QED  BY <2>1, <2>2, <2>3, <2>4, <2>5
<1>2. ASSUME NEW c \in Calls, \/ Failed(c) \/ Logged(c) \/ Begin(c) \/ Listed(c)
                              \/ ListExistingResources(c) \/ ProcessItem(c)
                              \/ UpdateDeploymentSetReturns(c) \/ \E j \in Jobs : Poll(c, j)
      PROVE  UNCHANGED <<deployments, services, ingresses, keys, accounts>>
  BY <1>2 DEF Failed, Logged, Begin, Listed, ListExistingResources, ProcessItem,
     UpdateDeploymentSetReturns, Poll, NoChange, objects
<1>3. ASSUME NEW c \in Calls, NEW kind, NEW n, Taken(c, kind, n)
      PROVE  UNCHANGED <<deployments, services, ingresses, keys, accounts>>
  BY <1>t, <1>3, TakenFields DEF NoChange
<1>4. (\E j \in Jobs : PodFails(j) \/ JobSucceeds(j) \/ JobFails(j) \/ JobIsRemoved(j))
      => UNCHANGED <<deployments, services, ingresses, keys, accounts>>
  BY DEF PodFails, JobSucceeds, JobFails, JobIsRemoved, JobStep, objects
<1> QED  BY <1>t, <1>1, <1>2, <1>3, <1>4, StepKinds

\* Any step but an API call of an update leaves the deployments, keys and accounts alone, and
\* the lists of calls in order: the next item's and the next deletion's are
\* (processDeploymentSet, deleteDeploymentResources).
LEMMA QuietLists ==
    ASSUME TypeOK, TodoInv, LoneInv, Next,
           alone' = {c \in Calls : call'[c].phase # "idle"}, ~meddled',
           NEW d \in Calls, call'[d].phase = "update", NEW n \in Names,
           call[d].phase = "update" => Sequenced(call[d].todo, n)
    PROVE  \/ \E c \in Calls, op \in Ops, m \in Names \cup Services \cup Jobs :
                  Made(c, op, m) /\ op # "job"
           \/ UNCHANGED <<deployments, keys, accounts>> /\ Sequenced(call'[d].todo, n)
<1>t. /\ CallType /\ deployments \in Objects(Names) /\ services \in Objects(Services)
      /\ ingresses \in Objects(Names)
  BY DEF TypeOK, CallType
<1> DEFINE Stay == UNCHANGED <<deployments, keys, accounts>>
           Goal == Stay /\ Sequenced(call'[d].todo, n)
<1>e. \A m \in Names : Sequenced(<<>>, m)
  BY IdleHasNothing DEF Sequenced
<1>q. /\ \A c \in Calls : Begin(c) => \A b \in Calls : call[b].phase \notin Busy
      /\ ~\E m \in Names : UpdateSecret(m) \/ DeleteSecret(m)
  BY QuietStep
<1>b. "update" \in Busy /\ "migrate" # "update"
  BY DEF Busy, Phase
<1>n. NoChange => Stay
  BY DEF NoChange
<1>o. ASSUME NEW c \in Calls, Others(c), Stay, c # d PROVE Goal
  <2>1. call'[d] = call[d]
    BY <1>o DEF Others
  <2> QED  BY <1>o, <2>1
<1>s. ASSUME Stay, UNCHANGED call[d].todo, call[d].phase = "update" PROVE Goal
  BY <1>s
<1>z. ASSUME Stay, call'[d].todo = <<>> PROVE Goal
  BY <1>e, <1>z
<1> HIDE DEF Goal, Stay
<1>1. ASSUME NEW c \in Calls, NEW m, Made(c, "job", m) PROVE Goal
  <2>1. call[c].phase = "migrate" /\ call'[c].phase = "migrate" /\ Others(c)
    BY <1>t, <1>1, MadeFields DEF Made
  <2>2. UNCHANGED deployments
    BY <1>1 DEF Made, MadeDeployments
  <2>3. UNCHANGED keys
    BY <1>1 DEF Made, MadeKeys
  <2>4. UNCHANGED accounts
    BY <1>1 DEF Made, MadeAccounts
  <2>5. Stay
    BY <2>2, <2>3, <2>4 DEF Stay
  <2> QED  BY <1>b, <1>o, <2>1, <2>5
<1>2. ASSUME NEW c \in Calls, Failed(c) \/ Logged(c) PROVE Goal
  <2>1. Stay /\ Others(c) /\ call'[c].todo = <<>>
    BY <1>t, <1>n, <1>2, ErrsFields, SkipsFields DEF Failed, Logged
  <2> QED  BY <1>o, <1>z, <2>1
<1>3. ASSUME NEW c \in Calls, Begin(c) PROVE Goal
  <2>1. Stay
    BY <1>3 DEF Begin, objects, Stay
  <2>2. Others(c) /\ call'[c].phase = "migrate"
    BY <1>t, <1>3, BeginFields
  <2> QED  BY <1>b, <1>o, <2>1, <2>2
<1>4. ASSUME NEW c \in Calls, Listed(c) PROVE Goal
  <2>1. Stay /\ Others(c) /\ call'[c].phase = "list"
    BY <1>t, <1>n, <1>4, MigrationsDoneFields DEF Listed
  <2> QED  BY <1>o, <2>1
<1>5. ASSUME NEW c \in Calls, ListExistingResources(c) PROVE Goal
  <2>1. Stay
    BY <1>5 DEF ListExistingResources, objects, Stay
  <2>2. Others(c) /\ call'[c].todo = call[c].todo /\ call[c].phase = "list"
    BY <1>t, <1>5, ListFields
  <2>3. call[c].todo = <<>>
    BY <2>2 DEF TodoInv
  <2> QED  BY <1>o, <1>z, <2>1, <2>2, <2>3
<1>6. ASSUME NEW c \in Calls, ProcessItem(c) PROVE Goal
  <2>1. Stay
    BY <1>6 DEF ProcessItem, objects, Stay
  <2>2. /\ Others(c) /\ call[c].listed \in Listing /\ Wants[c][call[c].item] \in Item
        /\ call'[c].todo = ForItem(call[c].listed, Wants[c][call[c].item])
    BY <1>t, <1>6, ProcessItemFields
  <2> DEFINE s == call'[c].todo
  <2>3. /\ Within(s) \subseteq ItemCalls \X (Names \cup Services)
        /\ Ordered(s, <<"key", n>>, <<"create", n>>)
        /\ Ordered(s, <<"account", n>>, <<"create", n>>)
    BY <2>2, ForItemCalls
  <2> HIDE DEF s
  <2>4. "delete_key" \notin ItemCalls /\ "delete_account" \notin ItemCalls
    BY DEF ItemCalls
  <2>5. <<"delete_key", n>> \notin Within(s) /\ <<"delete_account", n>> \notin Within(s)
    BY <2>3, <2>4
  <2>6. /\ Ordered(s, <<"delete", n>>, <<"delete_key", n>>)
        /\ Ordered(s, <<"delete", n>>, <<"delete_account", n>>)
    BY <2>5, NotWithinOrdered
  <2>7. Sequenced(s, n)
    BY <2>3, <2>6 DEF Sequenced
  <2> QED  BY <1>o, <2>1, <2>2, <2>7 DEF Goal, s
<1>7. ASSUME NEW c \in Calls, UpdateDeploymentSetReturns(c) PROVE Goal
  <2>1. Stay
    BY <1>7 DEF UpdateDeploymentSetReturns, objects, Stay
  <2>2. Others(c) /\ call'[c].phase = "done"
    BY <1>t, <1>7, ReturnsFields
  <2> QED  BY <1>o, <2>1, <2>2
<1>8. ASSUME NEW c \in Calls, NEW j \in Jobs, Poll(c, j) PROVE Goal
  <2>1. Stay
    BY <1>8 DEF Poll, objects, Stay
  <2>2. Others(c) /\ call'[c].phase = "migrate"
    BY <1>t, <1>8, PollFields
  <2> QED  BY <1>b, <1>o, <2>1, <2>2
<1>9. ASSUME NEW c \in Calls, NEW kind, NEW m, Taken(c, kind, m) PROVE Goal
  <2> DEFINE s == call'[c].todo
  <2>a. NoChange /\ Others(c)
    BY <1>t, <1>9, TakenFields
  <2>b. \/ m \in Names /\ s = Deletion(m)
        \/ Within(s) = {<<"delete_service", m>>}
        \/ Within(s) = {<<"delete_ingress", m>>}
    BY <1>t, <1>9, TakenTodo
  <2>1. Others(c) /\ Stay
    BY <1>n, <2>a
  <2>2. /\ Ordered(s, <<"delete", n>>, <<"delete_key", n>>)
        /\ Ordered(s, <<"delete", n>>, <<"delete_account", n>>)
        /\ <<"create", n>> \notin Within(s)
    <3>1. CASE m \in Names /\ s = Deletion(m)
      <4>1. /\ Ordered(s, <<"delete", n>>, <<"delete_key", n>>)
            /\ Ordered(s, <<"delete", n>>, <<"delete_account", n>>)
        BY <3>1, DeletionCalls
      <4>2. Within(s) = {<<"delete", m>>, <<"delete_key", m>>, <<"delete_account", m>>}
        BY <3>1, DeletionCalls
      <4> HIDE DEF s
      <4> QED  BY <4>1, <4>2
    <3>2. CASE Within(s) = {<<"delete_service", m>>} \/ Within(s) = {<<"delete_ingress", m>>}
      <4> HIDE DEF s
      <4>1. /\ <<"delete_key", n>> \notin Within(s) /\ <<"delete_account", n>> \notin Within(s)
            /\ <<"create", n>> \notin Within(s)
        BY <3>2
      <4> QED  BY <4>1, NotWithinOrdered
    <3> QED  BY <2>b, <3>1, <3>2
  <2> HIDE DEF s
  <2>3. Sequenced(s, n)
    BY <2>2, NotWithinOrdered DEF Sequenced
  <2> QED  BY <1>o, <2>1, <2>3 DEF Goal, s
<1>10. ASSUME \E j \in Jobs : PodFails(j) \/ JobSucceeds(j) \/ JobFails(j) \/ JobIsRemoved(j)
       PROVE  Goal
  <2>1. Stay /\ call' = call
    BY <1>10 DEF PodFails, JobSucceeds, JobFails, JobIsRemoved, JobStep, objects, Stay
  <2> QED  BY <1>s, <2>1
<1> QED  BY <1>t, <1>q, <1>1, <1>2, <1>3, <1>4, <1>5, <1>6, <1>7, <1>8, <1>9, <1>10, StepKinds
         DEF Goal, Stay

\* PodsInv is preserved: of a deployment that exists, neither the key nor the account goes
\* first, whoever fails where (createDeployment, deleteDeploymentResources).
LEMMA PodsInvStep ==
    ASSUME TypeOK, TodoInv, LoneInv, ListedInv, PodsInv, Next
    PROVE  PodsInv'
<1> DEFINE Ready(n) == deployments'[n] # None => keys'[n] # None /\ n \in accounts'
           Order(d, n) ==
               /\ keys'[n] # None \/ Ordered(call'[d].todo, <<"key", n>>, <<"create", n>>)
               /\ n \in accounts' \/ Ordered(call'[d].todo, <<"account", n>>, <<"create", n>>)
               /\ \/ deployments'[n] = None
                  \/ /\ Ordered(call'[d].todo, <<"delete", n>>, <<"delete_key", n>>)
                     /\ Ordered(call'[d].todo, <<"delete", n>>, <<"delete_account", n>>)
<1> SUFFICES ASSUME alone' = {c \in Calls : call'[c].phase # "idle"}, ~meddled'
             PROVE  /\ \A n \in Names : Ready(n)
                    /\ \A d \in Calls, n \in Names : call'[d].phase = "update" => Order(d, n)
  BY DEF PodsInv, Quiet, In, Ordered
<1>t. /\ CallType /\ deployments \in Objects(Names) /\ services \in Objects(Services)
      /\ ingresses \in Objects(Names)
  BY DEF TypeOK, CallType
<1>q. alone = {c \in Calls : call[c].phase # "idle"} /\ ~meddled
  BY QuietStep
<1>i. /\ \A n \in Names : Supplied(n)
      /\ \A d \in Calls, n \in Names : call[d].phase = "update" => Sequenced(call[d].todo, n)
  BY <1>q DEF PodsInv, Quiet, In, Supplied, Sequenced
<1> HIDE DEF Ready, Order
<1>1. ASSUME NEW c \in Calls, NEW op \in Ops, NEW m \in Names \cup Services \cup Jobs,
             Made(c, op, m), op # "job"
      PROVE  /\ \A n \in Names : Ready(n)
             /\ \A d \in Calls, n \in Names : call'[d].phase = "update" => Order(d, n)
  <2>1. Others(c) /\ call[c].phase = "update"
    BY <1>t, <1>1, MadeFields DEF Made
  <2>2. ASSUME NEW n \in Names PROVE Ready(n) /\ Order(c, n)
    <3>1. Supplied(n) /\ Sequenced(call[c].todo, n)
      BY <1>i, <2>1
    <3> QED  BY <1>1, <3>1, MadeKeepsPods DEF Ready, Order
  <2>3. ASSUME NEW d \in Calls, call'[d].phase = "update" PROVE d = c
    <3>1. d # c => call[d].phase = "update"
      BY <2>1, <2>3 DEF Others
    <3>2. "update" \in Busy
      BY DEF Busy, Phase
    <3> QED  BY <1>q, <2>1, <3>1, <3>2, OneAtATime
  <2> QED  BY <2>2, <2>3
<1>2. ASSUME ~\E c \in Calls, op \in Ops, m \in Names \cup Services \cup Jobs :
                  Made(c, op, m) /\ op # "job"
      PROVE  /\ \A n \in Names : Ready(n)
             /\ \A d \in Calls, n \in Names : call'[d].phase = "update" => Order(d, n)
  <2>1. ASSUME NEW d \in Calls, NEW n \in Names, call'[d].phase = "update" PROVE Order(d, n)
    <3>1. UNCHANGED <<deployments, keys, accounts>> /\ Sequenced(call'[d].todo, n)
      BY <1>i, <1>2, <2>1, QuietLists
    <3> QED  BY <3>1 DEF Sequenced, Order
  <2>2. UNCHANGED <<deployments, keys, accounts>>
    BY <1>2, <1>q, ObjectsStay, QuietStep
  <2>3. \A n \in Names : Ready(n)
    BY <1>i, <2>2 DEF Supplied, Ready
  <2> QED  BY <2>1, <2>3
<1> QED  BY <1>1, <1>2

\* While the last call to begin is alone and under way, or after it is done, every step is
\* its own, the admin API's or a job's.
LEMMA LatestMoves ==
    ASSUME TypeOK, TodoInv, LoneInv, Next, NEW c \in Calls, c \in alone', c = latest',
           call'[c].phase \in {"update", "done"}
    PROVE  /\ c \in alone /\ c = latest
           /\ \/ \E op \in Ops, n \in Names \cup Services \cup Jobs : Made(c, op, n)
              \/ Failed(c) \/ Logged(c) \/ Listed(c) \/ ListExistingResources(c)
              \/ ProcessItem(c) \/ UpdateDeploymentSetReturns(c)
              \/ \E j \in Jobs : Poll(c, j)
              \/ \E kind \in Kinds, n \in Names \cup Services : Taken(c, kind, n)
              \/ /\ UNCHANGED <<deployments, services, ingresses, accounts, call>>
                 /\ UNCHANGED <<keys, meddled>> \/ meddled'
<1>t. /\ CallType /\ deployments \in Objects(Names) /\ services \in Objects(Services)
      /\ ingresses \in Objects(Names)
  BY DEF TypeOK, CallType
<1>b. /\ \A p \in {"migrate", "list", "update"} : p \in Busy
      /\ Phase = Busy \cup {"idle", "done"}
  BY DEF Busy, Phase
<1>1. \A d \in Calls : ~Begin(d)
  <2>1. ASSUME NEW d \in Calls, Begin(d) PROVE FALSE
    <3>1. latest' = d
      BY <2>1 DEF Begin
    <3>2. call'[d].phase = "migrate"
      BY <1>t, <2>1, BeginFields
    <3> QED  BY <3>1, <3>2
  <2> QED  BY <2>1
<1>2. c \in alone /\ c = latest
  BY <1>1, AloneStep
<1>3. \A d \in Calls : call[d].phase \in Busy => d = c
  BY <1>2 DEF LoneInv, Running
<1>4. ASSUME NEW d \in Calls, NEW op, NEW n, Made(d, op, n) PROVE d = c
  <2>1. call[d].phase \in {"migrate", "update"}
    BY <1>4 DEF Made
  <2> QED  BY <1>3, <1>b, <2>1
<1>5. ASSUME NEW d \in Calls, Failed(d) PROVE d = c
  BY <1>3, <1>5 DEF Failed
<1>6. ASSUME NEW d \in Calls, Logged(d) PROVE d = c
  <2>1. call[d].todo # <<>> /\ call[d].phase \in Phase
    BY <1>t, <1>6 DEF Logged, CallType, Call
  <2>2. call[d].phase \in Busy
    BY <1>b, <2>1 DEF TodoInv
  <2> QED  BY <1>3, <2>2
<1>7. ASSUME NEW d \in Calls, \/ Listed(d) \/ ListExistingResources(d) \/ ProcessItem(d)
                              \/ UpdateDeploymentSetReturns(d) \/ \E j \in Jobs : Poll(d, j)
      PROVE  d = c
  <2>1. call[d].phase \in {"migrate", "list", "update"}
    BY <1>7 DEF Listed, ListExistingResources, ProcessItem, UpdateDeploymentSetReturns, Poll,
       Polling, Processed, In
  <2> QED  BY <1>3, <1>b, <2>1
<1>8. ASSUME NEW d \in Calls, NEW kind, NEW n, Taken(d, kind, n) PROVE d = c
  <2>1. call[d].phase = "update"
    BY <1>8 DEF Taken, Takes, Processed, In
  <2> QED  BY <1>3, <1>b, <2>1
<1> DEFINE Others_ == /\ UNCHANGED <<deployments, services, ingresses, accounts, call>>
                      /\ UNCHANGED <<keys, meddled>> \/ meddled'
<1>9. (\E n \in Names : UpdateSecret(n) \/ DeleteSecret(n)) => Others_
  BY DEF UpdateSecret, DeleteSecret
<1>10. (\E j \in Jobs : PodFails(j) \/ JobSucceeds(j) \/ JobFails(j) \/ JobIsRemoved(j)) => Others_
  BY DEF PodFails, JobSucceeds, JobFails, JobIsRemoved, JobStep, objects, Rest
<1> HIDE DEF Others_
<1>11. \/ \E op \in Ops, n \in Names \cup Services \cup Jobs : Made(c, op, n)
       \/ Failed(c) \/ Logged(c) \/ Listed(c) \/ ListExistingResources(c)
       \/ ProcessItem(c) \/ UpdateDeploymentSetReturns(c)
       \/ \E j \in Jobs : Poll(c, j)
       \/ \E kind \in Kinds, n \in Names \cup Services : Taken(c, kind, n)
       \/ Others_
  BY <1>t, <1>1, <1>4, <1>5, <1>6, <1>7, <1>8, <1>9, <1>10, StepKinds
<1> QED  BY <1>2, <1>11 DEF Others_

\* ItemApplied, for what a step leaves to be done.
ItemLeft(c, p) ==
    LET x == Within(call'[c].todo) IN
    /\ deployments'[p.name] = c \/ <<"create", p.name>> \in x \/ <<"update", p.name>> \in x
    /\ p.name \in accounts' \/ <<"account", p.name>> \in x \/ <<"get_account", p.name>> \in x
    /\ meddled' \/ keys'[p.name] = c \/ <<"key", p.name>> \in x
    /\ p.service # None => \/ services'[p.service] = c
                           \/ <<"create_service", p.service>> \in x
                           \/ <<"update_service", p.service>> \in x
    /\ p.ingress => \/ ingresses'[p.name] = c
                    \/ <<"create_ingress", p.name>> \in x
                    \/ <<"update_ingress", p.name>> \in x

\* An API call of a call that is alone leaves what it has applied, for it deletes nothing that
\* its set asks for (processDeploymentSet, deleteObsoleteResources).
LEMMA MadeKeepsItem ==
    ASSUME TypeOK, TodoInv, ListedInv, NEW c \in Calls, NEW op \in Ops,
           NEW m \in Names \cup Services \cup Jobs, Made(c, op, m), NEW p \in Item,
           p.name \in NamesOf(c), p.service # None => p.service \in ServicesOf(c),
           p.ingress => p.name \in IngressesOf(c), ItemApplied(c, p)
    PROVE  ItemLeft(c, p)
<1> DEFINE w == Within(call[c].todo)
           x == Within(call'[c].todo)
           h == <<op, m>>
           n == p.name
           s == p.service
<1>t. /\ CallType /\ deployments \in [Names -> Calls \cup {None}]
      /\ services \in [Services -> Calls \cup {None}] /\ ingresses \in [Names -> Calls \cup {None}]
      /\ keys \in [Names -> Calls \cup {None, "edited"}]
  BY DEF TypeOK, CallType, Objects
<1>n. n \in Names /\ s \in Services \cup {None}
  BY DEF Item
<1>1. w = {h} \cup x
  BY <1>t, MadeFields
<1>2. /\ <<"delete", n>> \notin w /\ <<"delete_key", n>> \notin w
             /\ <<"delete_account", n>> \notin w
      /\ s # None => <<"delete_service", s>> \notin w
      /\ p.ingress => <<"delete_ingress", n>> \notin w
  BY <1>n DEF ListedInv, Doomed, DoomedService, DoomedIngress, ToDo
<1>i. /\ deployments[n] = c \/ <<"create", n>> \in w \/ <<"update", n>> \in w
      /\ n \in accounts \/ <<"account", n>> \in w \/ <<"get_account", n>> \in w
      /\ meddled \/ keys[n] = c \/ <<"key", n>> \in w
      /\ s # None => \/ services[s] = c \/ <<"create_service", s>> \in w
                     \/ <<"update_service", s>> \in w
      /\ p.ingress => \/ ingresses[n] = c \/ <<"create_ingress", n>> \in w
                      \/ <<"update_ingress", n>> \in w
  BY DEF ItemApplied, ToDo
<1> HIDE DEF w, x, n, s
<1>3. deployments'[n] = c \/ <<"create", n>> \in x \/ <<"update", n>> \in x
  <2>1. \/ op \in {"create", "update"} /\ deployments' = [deployments EXCEPT ![m] = c]
        \/ op = "delete" /\ deployments' = [deployments EXCEPT ![m] = None]
        \/ op \notin {"create", "update"} /\ UNCHANGED deployments
    BY DEF Made, MadeDeployments
  <2> QED  BY <1>t, <1>n, <1>1, <1>2, <1>i, <2>1
<1>4. n \in accounts' \/ <<"account", n>> \in x \/ <<"get_account", n>> \in x
  <2>1. \/ op = "account" /\ accounts' = accounts \cup {m}
        \/ op = "delete_account" /\ accounts' = accounts \ {m}
        \/ op = "get_account" /\ m \in accounts /\ UNCHANGED accounts
        \/ op \notin {"account", "get_account"} /\ UNCHANGED accounts
    BY DEF Made, MadeAccounts
  <2> QED  BY <1>1, <1>2, <1>i, <2>1
<1>5. meddled' \/ keys'[n] = c \/ <<"key", n>> \in x
  <2>1. \/ op = "key" /\ keys' = [keys EXCEPT ![m] = c]
        \/ op = "delete_key" /\ keys' = [keys EXCEPT ![m] = None]
        \/ op # "key" /\ UNCHANGED keys
    BY DEF Made, MadeKeys
  <2>2. keys'[n] = c \/ (keys[n] # c \/ <<"delete_key", n>> \in w)
    BY <1>t, <1>n, <1>1, <2>1
  <2>3. <<"key", n>> \in w => keys'[n] = c \/ <<"key", n>> \in x
    BY <1>t, <1>n, <1>1, <2>1
  <2>4. meddled => meddled'
    BY DEF Made
  <2> QED  BY <1>2, <1>i, <2>2, <2>3, <2>4
<1>6. ASSUME s # None
      PROVE  \/ services'[s] = c \/ <<"create_service", s>> \in x \/ <<"update_service", s>> \in x
  <2>1. \/ /\ op \in {"create_service", "update_service"}
           /\ services' = [services EXCEPT ![m] = c]
        \/ op = "delete_service" /\ services' = [services EXCEPT ![m] = None]
        \/ op \notin {"create_service", "update_service"} /\ UNCHANGED services
    BY DEF Made, MadeServices
  <2> QED  BY <1>t, <1>n, <1>1, <1>2, <1>i, <1>6, <2>1
<1>7. ASSUME p.ingress
      PROVE  \/ ingresses'[n] = c \/ <<"create_ingress", n>> \in x \/ <<"update_ingress", n>> \in x
  <2>1. \/ /\ op \in {"create_ingress", "update_ingress"}
           /\ ingresses' = [ingresses EXCEPT ![m] = c]
        \/ op = "delete_ingress" /\ ingresses' = [ingresses EXCEPT ![m] = None]
        \/ op \notin {"create_ingress", "update_ingress"} /\ UNCHANGED ingresses
    BY DEF Made, MadeIngresses
  <2> QED  BY <1>t, <1>n, <1>1, <1>2, <1>i, <1>7, <2>1
<1> QED  BY <1>3, <1>4, <1>5, <1>6, <1>7 DEF ItemLeft, x, n, s

\* NothingElse, for what a step leaves to be done.
NothingElseLeft(c) ==
    LET x == Within(call'[c].todo) o == call'[c].obsolete IN
    /\ \A n \in Names \ NamesOf(c) :
           deployments'[n] # None => <<"deployment", n>> \in o \/ <<"delete", n>> \in x
    /\ \A s \in Services \ ServicesOf(c) :
           services'[s] # None => <<"service", s>> \in o \/ <<"delete_service", s>> \in x
    /\ \A n \in Names \ IngressesOf(c) :
           ingresses'[n] # None => <<"ingress", n>> \in o \/ <<"delete_ingress", n>> \in x

\* An API call makes nothing that the set does not ask for, and a deletion that is made takes
\* its object (processDeploymentSet, deleteObsoleteResources).
LEMMA MadeKeepsRest ==
    ASSUME TypeOK, TodoInv, AskedInv, NEW c \in Calls, NEW op \in Ops,
           NEW m \in Names \cup Services \cup Jobs, Made(c, op, m), NothingElse(c)
    PROVE  NothingElseLeft(c)
<1> DEFINE w == Within(call[c].todo)
           x == Within(call'[c].todo)
           o == call[c].obsolete
           h == <<op, m>>
<1>t. /\ CallType /\ deployments \in [Names -> Calls \cup {None}]
      /\ services \in [Services -> Calls \cup {None}] /\ ingresses \in [Names -> Calls \cup {None}]
  BY DEF TypeOK, CallType, Objects
<1>1. w = {h} \cup x /\ call'[c].obsolete = o
  BY <1>t, MadeFields
<1>a. \A n \in Names \cup Services :
          /\ <<"create", n>> \in w \/ <<"update", n>> \in w => n \in NamesOf(c)
          /\ <<"create_service", n>> \in w \/ <<"update_service", n>> \in w => n \in ServicesOf(c)
          /\ <<"create_ingress", n>> \in w \/ <<"update_ingress", n>> \in w => n \in IngressesOf(c)
  BY DEF AskedInv, ToDo
<1>i. /\ \A n \in Names \ NamesOf(c) :
             deployments[n] # None => <<"deployment", n>> \in o \/ <<"delete", n>> \in w
      /\ \A s \in Services \ ServicesOf(c) :
             services[s] # None => <<"service", s>> \in o \/ <<"delete_service", s>> \in w
      /\ \A n \in Names \ IngressesOf(c) :
             ingresses[n] # None => <<"ingress", n>> \in o \/ <<"delete_ingress", n>> \in w
  BY <1>t DEF NothingElse, Present, Obsoleted, ToDo
<1> HIDE DEF w, x, o
<1>2. ASSUME NEW n \in Names, n \notin NamesOf(c), deployments'[n] # None
      PROVE  <<"deployment", n>> \in o \/ <<"delete", n>> \in x
  <2>1. \/ op \in {"create", "update"} /\ deployments' = [deployments EXCEPT ![m] = c]
        \/ op = "delete" /\ m \in Names /\ deployments' = [deployments EXCEPT ![m] = None]
        \/ op # "delete" /\ UNCHANGED deployments
    BY DEF Made, MadeDeployments
  <2>2. h # <<"create", n>> /\ h # <<"update", n>>
    BY <1>1, <1>a, <1>2
  <2>3. deployments[n] # None /\ h # <<"delete", n>>
    BY <1>t, <1>2, <2>1, <2>2
  <2> QED  BY <1>1, <1>i, <1>2, <2>3
<1>3. ASSUME NEW s \in Services, s \notin ServicesOf(c), services'[s] # None
      PROVE  <<"service", s>> \in o \/ <<"delete_service", s>> \in x
  <2>1. \/ op \in {"create_service", "update_service"} /\ services' = [services EXCEPT ![m] = c]
        \/ op = "delete_service" /\ m \in Services /\ services' = [services EXCEPT ![m] = None]
        \/ op # "delete_service" /\ UNCHANGED services
    BY DEF Made, MadeServices
  <2>2. h # <<"create_service", s>> /\ h # <<"update_service", s>>
    BY <1>1, <1>a, <1>3
  <2>3. services[s] # None /\ h # <<"delete_service", s>>
    BY <1>t, <1>3, <2>1, <2>2
  <2> QED  BY <1>1, <1>i, <1>3, <2>3
<1>4. ASSUME NEW n \in Names, n \notin IngressesOf(c), ingresses'[n] # None
      PROVE  <<"ingress", n>> \in o \/ <<"delete_ingress", n>> \in x
  <2>1. \/ op \in {"create_ingress", "update_ingress"} /\ ingresses' = [ingresses EXCEPT ![m] = c]
        \/ op = "delete_ingress" /\ m \in Names /\ ingresses' = [ingresses EXCEPT ![m] = None]
        \/ op # "delete_ingress" /\ UNCHANGED ingresses
    BY DEF Made, MadeIngresses
  <2>2. h # <<"create_ingress", n>> /\ h # <<"update_ingress", n>>
    BY <1>1, <1>a, <1>4
  <2>3. ingresses[n] # None /\ h # <<"delete_ingress", n>>
    BY <1>t, <1>4, <2>1, <2>2
  <2> QED  BY <1>1, <1>i, <1>4, <2>3
<1> QED  BY <1>1, <1>2, <1>3, <1>4 DEF NothingElseLeft, x, o

\* What has been applied stays so while the objects do, and nothing was left to be done.
LEMMA StaysApplied ==
    ASSUME NEW c \in Calls, NEW p \in Item, ItemApplied(c, p), NoChange,
           \A op \in ItemCalls, n \in Names \cup Services : <<op, n>> \notin Within(call[c].todo)
    PROVE  ItemLeft(c, p)
<1> DEFINE n == p.name
           s == p.service
           w == Within(call[c].todo)
<1>n. n \in Names /\ s \in Services \cup {None}
  BY DEF Item
<1>1. /\ <<"create", n>> \notin w /\ <<"update", n>> \notin w /\ <<"account", n>> \notin w
      /\ <<"get_account", n>> \notin w /\ <<"key", n>> \notin w
      /\ <<"create_ingress", n>> \notin w /\ <<"update_ingress", n>> \notin w
  BY <1>n DEF ItemCalls
<1>2. s # None => <<"create_service", s>> \notin w /\ <<"update_service", s>> \notin w
  BY <1>n DEF ItemCalls
<1>i. /\ deployments[n] = c \/ <<"create", n>> \in w \/ <<"update", n>> \in w
      /\ n \in accounts \/ <<"account", n>> \in w \/ <<"get_account", n>> \in w
      /\ meddled \/ keys[n] = c \/ <<"key", n>> \in w
      /\ s # None => \/ services[s] = c \/ <<"create_service", s>> \in w
                     \/ <<"update_service", s>> \in w
      /\ p.ingress => \/ ingresses[n] = c \/ <<"create_ingress", n>> \in w
                      \/ <<"update_ingress", n>> \in w
  BY DEF ItemApplied, ToDo
<1>3. /\ deployments' = deployments /\ services' = services /\ ingresses' = ingresses
      /\ keys' = keys /\ accounts' = accounts /\ meddled' = meddled
  BY DEF NoChange
<1> HIDE DEF n, s, w
<1>4. /\ deployments'[n] = c /\ n \in accounts'
      /\ s # None => services'[s] = c
      /\ p.ingress => ingresses'[n] = c
  BY <1>1, <1>2, <1>3, <1>i
<1>5. meddled' \/ keys'[n] = c
  <2>1. meddled \/ keys[n] = c
    BY <1>1, <1>i
  <2>2. keys'[n] = keys[n] /\ (meddled => meddled')
    BY <1>3
  <2> QED  BY <2>1, <2>2
<1> QED  BY <1>4, <1>5 DEF ItemLeft, n, s

\* What exists besides is obsolete, while the objects stay and no deletion is under way.
LEMMA StaysElse ==
    ASSUME TypeOK, NEW c \in Calls, NothingElse(c), call[c].todo = <<>>
    PROVE  /\ \A n \in Names \ NamesOf(c) :
                  deployments[n] # None => <<"deployment", n>> \in call[c].obsolete
           /\ \A s \in Services \ ServicesOf(c) :
                  services[s] # None => <<"service", s>> \in call[c].obsolete
           /\ \A n \in Names \ IngressesOf(c) :
                  ingresses[n] # None => <<"ingress", n>> \in call[c].obsolete
<1>t. /\ DOMAIN deployments = Names /\ DOMAIN services = Services /\ DOMAIN ingresses = Names
  BY DEF TypeOK, Objects
<1>e. Within(call[c].todo) = {}
  BY IdleHasNothing
<1> QED  BY <1>t, <1>e DEF NothingElse, Present, Obsoleted, ToDo

\* The items of a set are asked for.
LEMMA ItemsAsked ==
    ASSUME NEW c \in Calls, NEW i \in DOMAIN Wants[c]
    PROVE  /\ Wants[c][i] \in Item /\ Wants[c][i].name \in NamesOf(c)
           /\ Wants[c][i].service # None => Wants[c][i].service \in ServicesOf(c)
           /\ Wants[c][i].ingress => Wants[c][i].name \in IngressesOf(c)
<1>1. Wants[c][i] \in Item
  <2>1. Wants[c] \in Seq(Item)
    BY WantsAssumption
  <2> QED  BY <2>1, ElementOfSeq, LenProperties
<1> QED  BY <1>1 DEF NamesOf, ServicesOf, IngressesOf

\* The next item is among what is to be done, and the ones before it stay applied
\* (processDeploymentSet).
LEMMA ItemStep ==
    ASSUME TypeOK, NEW c \in Calls, ProcessItem(c), Applied(c)
    PROVE  /\ \A i \in DOMAIN Wants[c] : i < call'[c].item => ItemLeft(c, Wants[c][i])
           /\ ~call'[c].skipped => NothingElseLeft(c)
<1>t. CallType
  BY DEF TypeOK, CallType
<1> DEFINE k == call[c].item
<1>1. /\ call[c].todo = <<>> /\ k \in DOMAIN Wants[c] /\ call[c].listed \in Listing
      /\ call'[c].todo = ForItem(call[c].listed, Wants[c][k]) /\ call'[c].item = k + 1
      /\ call'[c].obsolete = call[c].obsolete /\ call'[c].skipped = call[c].skipped
  BY <1>t, ProcessItemFields
<1>2. NoChange
  BY DEF ProcessItem, NoChange, objects, Rest
<1>3. ASSUME NEW i \in DOMAIN Wants[c], i < k PROVE ItemLeft(c, Wants[c][i])
  <2>1. ItemApplied(c, Wants[c][i])
    BY <1>3 DEF Applied
  <2>2. \A op \in ItemCalls, n \in Names \cup Services : <<op, n>> \notin Within(call[c].todo)
    BY <1>1, IdleHasNothing
  <2>3. Wants[c][i] \in Item
    BY ItemsAsked
  <2> QED  BY <1>2, <2>1, <2>2, <2>3, StaysApplied
<1>4. ItemLeft(c, Wants[c][k])
  <2> DEFINE p == Wants[c][k]
             x == Within(call'[c].todo)
  <2>1. p \in Item
    BY <1>1, ItemsAsked
  <2>2. call'[c].todo = ForItem(call[c].listed, p)
    BY <1>1
  <2> HIDE DEF p, k
  <2>3. /\ <<"create", p.name>> \in x \/ <<"update", p.name>> \in x
        /\ <<"account", p.name>> \in x \/ <<"get_account", p.name>> \in x
        /\ <<"key", p.name>> \in x
        /\ p.service # None => \/ <<"create_service", p.service>> \in x
                               \/ <<"update_service", p.service>> \in x
        /\ p.ingress => \/ <<"create_ingress", p.name>> \in x
                        \/ <<"update_ingress", p.name>> \in x
    BY <1>1, <2>1, <2>2, ForItemCalls
  <2>4. ItemLeft(c, p)
    BY <2>3 DEF ItemLeft
  <2> QED  BY <2>4 DEF p
<1>5. ASSUME NEW i \in DOMAIN Wants[c], i < k + 1 PROVE i < k \/ i = k
  <2>1. DOMAIN Wants[c] \subseteq Nat /\ k \in Nat
    <3>1. DOMAIN Wants[c] = 1 .. Len(Wants[c]) /\ Len(Wants[c]) \in Nat
      BY WantsAssumption, LenProperties
    <3> QED  BY <1>1, <3>1
  <2> QED  BY <1>5, <2>1
<1>6. ASSUME ~call[c].skipped PROVE NothingElseLeft(c)
  <2>1. NothingElse(c)
    BY <1>6 DEF Applied
  <2> QED  BY <1>1, <1>2, <2>1, StaysElse DEF NothingElseLeft, NoChange
<1> HIDE DEF k
<1> QED  BY <1>1, <1>3, <1>4, <1>5, <1>6

\* A deletion that is taken is no longer obsolete but to be done, and what was applied stays.
LEMMA TakenStep ==
    ASSUME TypeOK, NEW c \in Calls, NEW kind, NEW m, Taken(c, kind, m), Applied(c)
    PROVE  /\ \A i \in DOMAIN Wants[c] : i < call'[c].item => ItemLeft(c, Wants[c][i])
           /\ ~call'[c].skipped => NothingElseLeft(c)
<1>t. CallType
  BY DEF TypeOK, CallType
<1>1. /\ call[c].todo = <<>> /\ call'[c].item = call[c].item
      /\ call'[c].obsolete = call[c].obsolete \ {<<kind, m>>}
      /\ call'[c].skipped = call[c].skipped /\ NoChange
  BY <1>t, TakenStays
<1> DEFINE x == Within(call'[c].todo)
<1>2. \/ kind = "deployment" /\ <<"delete", m>> \in x
      \/ kind = "service" /\ <<"delete_service", m>> \in x
      \/ kind = "ingress" /\ <<"delete_ingress", m>> \in x
  <2>1. \/ kind = "deployment" /\ m \in Names /\ call'[c].todo = Deletion(m)
        \/ kind = "service" /\ x = {<<"delete_service", m>>}
        \/ kind = "ingress" /\ x = {<<"delete_ingress", m>>}
    BY <1>t, TakenTodo
  <2>2. CASE kind = "deployment" /\ m \in Names /\ call'[c].todo = Deletion(m)
    <3>1. x = {<<"delete", m>>, <<"delete_key", m>>, <<"delete_account", m>>}
      BY <2>2, DeletionCalls
    <3> QED  BY <2>2, <3>1
  <2> QED  BY <2>1, <2>2
<1>3. ASSUME NEW i \in DOMAIN Wants[c], i < call[c].item PROVE ItemLeft(c, Wants[c][i])
  <2>1. ItemApplied(c, Wants[c][i])
    BY <1>3 DEF Applied
  <2>2. \A op \in ItemCalls, n \in Names \cup Services : <<op, n>> \notin Within(call[c].todo)
    BY <1>1, IdleHasNothing
  <2>3. Wants[c][i] \in Item
    BY ItemsAsked
  <2> QED  BY <1>1, <2>1, <2>2, <2>3, StaysApplied
<1>4. ASSUME ~call[c].skipped PROVE NothingElseLeft(c)
  <2> DEFINE o == call[c].obsolete
             q == call'[c].obsolete
  <2>1. NothingElse(c)
    BY <1>4 DEF Applied
  <2>2. /\ \A n \in Names \ NamesOf(c) : deployments'[n] # None => <<"deployment", n>> \in o
        /\ \A s \in Services \ ServicesOf(c) : services'[s] # None => <<"service", s>> \in o
        /\ \A n \in Names \ IngressesOf(c) : ingresses'[n] # None => <<"ingress", n>> \in o
    BY <1>1, <2>1, StaysElse DEF NoChange
  <2>3. q = o \ {<<kind, m>>}
    BY <1>1
  <2> HIDE DEF o, q, x
  <2>4. /\ \A n : <<"deployment", n>> \in o => <<"deployment", n>> \in q \/ <<"delete", n>> \in x
        /\ \A n : <<"service", n>> \in o => <<"service", n>> \in q \/ <<"delete_service", n>> \in x
        /\ \A n : <<"ingress", n>> \in o => <<"ingress", n>> \in q \/ <<"delete_ingress", n>> \in x
    BY <1>2, <2>3
  <2> QED  BY <2>2, <2>4 DEF NothingElseLeft, q, x
<1> QED  BY <1>1, <1>3, <1>4

\* AppliedInv is preserved: round by round the loop applies its items, and what was listed
\* and is not asked for is deleted (UpdateDeploymentSet).
LEMMA AppliedInvStep ==
    ASSUME TypeOK, TodoInv, FreshInv, LoneInv, ListedInv, AskedInv, AppliedInv, Next
    PROVE  AppliedInv'
<1>t. /\ CallType /\ deployments \in Objects(Names) /\ services \in Objects(Services)
      /\ ingresses \in Objects(Names)
  BY DEF TypeOK, CallType
<1>p. /\ DOMAIN deployments' = Names /\ DOMAIN services' = Services /\ DOMAIN ingresses' = Names
      /\ alone' \subseteq Calls
  BY ObjectTypeStep DEF Objects
<1> SUFFICES ASSUME NEW c \in Calls, c \in alone', c = latest', call'[c].phase = "update"
             PROVE  /\ \A i \in DOMAIN Wants[c] : i < call'[c].item => ItemLeft(c, Wants[c][i])
                    /\ ~call'[c].skipped => NothingElseLeft(c)
  BY <1>p DEF AppliedInv, Applied, ItemApplied, NothingElse, ToDo, Obsoleted, Within, Present,
     ItemLeft, NothingElseLeft, NamesOf, ServicesOf, IngressesOf
<1> DEFINE Goal == /\ \A i \in DOMAIN Wants[c] : i < call'[c].item => ItemLeft(c, Wants[c][i])
                   /\ ~call'[c].skipped => NothingElseLeft(c)
<1>0. c \in alone /\ c = latest
  BY LatestMoves
<1>i. call[c].phase = "update" => Applied(c)
  BY <1>0 DEF AppliedInv
<1>1. ASSUME NEW op \in Ops, NEW m \in Names \cup Services \cup Jobs, Made(c, op, m) PROVE Goal
  <2>1. /\ call'[c].phase = call[c].phase /\ call'[c].item = call[c].item
        /\ call'[c].skipped = call[c].skipped
    BY <1>t, <1>1, MadeFields
  <2>2. Applied(c)
    BY <1>i, <2>1
  <2>3. ASSUME NEW i \in DOMAIN Wants[c], i < call[c].item PROVE ItemLeft(c, Wants[c][i])
    <3>1. ItemApplied(c, Wants[c][i])
      BY <2>2, <2>3 DEF Applied
    <3> QED  BY <1>1, <3>1, ItemsAsked, MadeKeepsItem
  <2>4. ASSUME ~call[c].skipped PROVE NothingElseLeft(c)
    <3>1. NothingElse(c)
      BY <2>2, <2>4 DEF Applied
    <3> QED  BY <1>1, <3>1, MadeKeepsRest
  <2> QED  BY <2>1, <2>3, <2>4
<1>2. ASSUME Failed(c) PROVE Goal
  <2>1. call'[c].phase = "done"
    BY <1>t, <1>2, ErrsFields DEF Failed
  <2> QED  BY <2>1
<1>3. ASSUME Logged(c) PROVE Goal
  <2>1. /\ call'[c].phase = call[c].phase /\ call'[c].item = call[c].item /\ call'[c].skipped
    BY <1>t, <1>3, SkipsFields DEF Logged
  <2>2. Applied(c)
    BY <1>i, <2>1
  <2>3. \A op \in ItemCalls, n \in Names \cup Services : <<op, n>> \notin Within(call[c].todo)
    <3>1. /\ call[c].todo \in Seq(APICalls) /\ call[c].todo # <<>>
          /\ Head(call[c].todo)[1] \in Deletions
      BY <1>t, <1>3 DEF Logged, CallType, Call
    <3>2. Head(call[c].todo) \in Within(call[c].todo)
      BY <3>1, TailWithin
    <3>3. ItemCalls \cap Deletions = {}
      BY DEF ItemCalls, Deletions
    <3>4. \/ Within(call[c].todo) \subseteq ItemCalls \X (Names \cup Services)
          \/ Within(call[c].todo) \subseteq Deletions \X (Names \cup Services)
      BY <2>1 DEF TodoInv
    <3> QED  BY <3>1, <3>2, <3>3, <3>4
  <2>4. ASSUME NEW i \in DOMAIN Wants[c], i < call[c].item PROVE ItemLeft(c, Wants[c][i])
    <3>1. ItemApplied(c, Wants[c][i])
      BY <2>2, <2>4 DEF Applied
    <3>2. NoChange
      BY <1>3 DEF Logged
    <3> QED  BY <2>3, <3>1, <3>2, ItemsAsked, StaysApplied
  <2> QED  BY <2>1, <2>4
<1>4. ASSUME Listed(c) PROVE Goal
  <2>1. call'[c].phase = "list"
    BY <1>t, <1>4, MigrationsDoneFields DEF Listed
  <2> QED  BY <2>1
<1>5. ASSUME ListExistingResources(c) PROVE Goal
  <2>1. /\ call[c].phase = "list" /\ call'[c].item = call[c].item
        /\ call'[c].obsolete = Obsolete(c)
    BY <1>t, <1>5, ListFields
  <2>2. call'[c].item = 1
    BY <2>1 DEF FreshInv
  <2>3. \A i \in DOMAIN Wants[c] : ~(i < 1)
    <3>1. DOMAIN Wants[c] = 1 .. Len(Wants[c])
      BY WantsAssumption, LenProperties
    <3> QED  BY <3>1
  <2>4. UNCHANGED <<deployments, services, ingresses>>
    BY <1>5 DEF ListExistingResources, objects
  <2>5. /\ \A n : n \in Present(deployments) \ NamesOf(c) => <<"deployment", n>> \in Obsolete(c)
        /\ \A s : s \in Present(services) \ ServicesOf(c) => <<"service", s>> \in Obsolete(c)
        /\ \A n : n \in Present(ingresses) \ IngressesOf(c) => <<"ingress", n>> \in Obsolete(c)
    BY <1>t, ObsoleteIsNotWanted
  <2>6. NothingElseLeft(c)
    BY <1>t, <2>1, <2>4, <2>5 DEF NothingElseLeft, Present, Objects
  <2> QED  BY <2>2, <2>3, <2>6
<1>6. ASSUME ProcessItem(c) PROVE Goal
  <2>1. call[c].phase = "update"
    BY <1>t, <1>6, ProcessItemFields
  <2> QED  BY <1>i, <1>6, <2>1, ItemStep
<1>7. ASSUME UpdateDeploymentSetReturns(c) PROVE Goal
  <2>1. call'[c].phase = "done"
    BY <1>t, <1>7, ReturnsFields
  <2> QED  BY <2>1
<1>8. ASSUME NEW j \in Jobs, Poll(c, j) PROVE Goal
  <2>1. call'[c].phase = "migrate"
    BY <1>t, <1>8, PollFields
  <2> QED  BY <2>1
<1>9. ASSUME NEW kind, NEW m, Taken(c, kind, m) PROVE Goal
  <2>1. call[c].phase = "update"
    BY <1>9 DEF Taken, Takes, Processed, In
  <2> QED  BY <1>i, <1>9, <2>1, TakenStep
<1>10. ASSUME UNCHANGED <<deployments, services, ingresses, accounts, call>>,
              UNCHANGED <<keys, meddled>> \/ meddled'
       PROVE  Goal
  <2>1. Applied(c) /\ call' = call
    BY <1>i, <1>10
  <2>2. ASSUME NEW i \in DOMAIN Wants[c], i < call[c].item PROVE ItemLeft(c, Wants[c][i])
    <3>1. ItemApplied(c, Wants[c][i])
      BY <2>1, <2>2 DEF Applied
    <3> DEFINE p == Wants[c][i]
    <3>2. meddled' \/ keys'[p.name] = c \/ <<"key", p.name>> \in Within(call'[c].todo)
      BY <1>10, <3>1 DEF ItemApplied, ToDo
    <3> QED  BY <1>10, <3>1, <3>2 DEF ItemApplied, ToDo, ItemLeft
  <2>3. ASSUME ~call[c].skipped PROVE NothingElseLeft(c)
    <3>1. NothingElse(c)
      BY <2>1, <2>3 DEF Applied
    <3> QED  BY <1>t, <1>10, <3>1 DEF NothingElse, Present, Obsoleted, ToDo, NothingElseLeft,
                Objects
  <2> QED  BY <2>1, <2>2, <2>3
<1> HIDE DEF Goal
<1>11. Goal
  BY <1>1, <1>2, <1>3, <1>4, <1>5, <1>6, <1>7, <1>8, <1>9, <1>10, LatestMoves
<1> QED  BY <1>11 DEF Goal

\* SetIsApplied, for one call.
SetLeft(c) ==
    /\ \A n \in NamesOf(c) : deployments[n] = c /\ n \in accounts
    /\ \A n \in NamesOf(c) : ~meddled => keys[n] = c
    /\ \A s \in ServicesOf(c) : services[s] = c
    /\ \A n \in IngressesOf(c) : ingresses[n] = c
    /\ ~call[c].skipped => /\ Present(deployments) = NamesOf(c)
                           /\ Present(services) = ServicesOf(c)
                           /\ Present(ingresses) = IngressesOf(c)

\* When every item is processed and nothing obsolete is left, the set is what exists
\* (UpdateDeploymentSet).
LEMMA ReturnsApplied ==
    ASSUME TypeOK, NEW c \in Calls, Applied(c), call[c].todo = <<>>,
           call[c].item > Len(Wants[c]), call[c].obsolete = {}
    PROVE  SetLeft(c)
<1>e. Within(call[c].todo) = {}
  BY IdleHasNothing
<1>t. /\ deployments \in [Names -> Calls \cup {None}]
             /\ services \in [Services -> Calls \cup {None}]
      /\ ingresses \in [Names -> Calls \cup {None}] /\ c # None
  BY NoneAssumption DEF TypeOK, Objects
<1>1. ASSUME NEW i \in DOMAIN Wants[c]
      PROVE  LET p == Wants[c][i] IN
             /\ deployments[p.name] = c /\ p.name \in accounts
             /\ meddled \/ keys[p.name] = c
             /\ p.service # None => services[p.service] = c
             /\ p.ingress => ingresses[p.name] = c
  <2>1. i < call[c].item
    <3>1. DOMAIN Wants[c] = 1 .. Len(Wants[c]) /\ Len(Wants[c]) \in Nat
      BY WantsAssumption, LenProperties
    <3>2. call[c].item \in Nat
      BY DEF TypeOK, Call
    <3> QED  BY <3>1, <3>2
  <2>2. ItemApplied(c, Wants[c][i])
    BY <2>1 DEF Applied
  <2> QED  BY <1>e, <2>2 DEF ItemApplied, ToDo
<1>2. /\ \A n \in NamesOf(c) : deployments[n] = c /\ n \in accounts
      /\ \A n \in NamesOf(c) : ~meddled => keys[n] = c
  BY <1>1 DEF NamesOf
<1>3. \A s \in ServicesOf(c) : services[s] = c
  BY <1>1 DEF ServicesOf
<1>4. \A n \in IngressesOf(c) : ingresses[n] = c
  BY <1>1 DEF IngressesOf
<1>5. /\ NamesOf(c) \subseteq Names /\ ServicesOf(c) \subseteq Services
      /\ IngressesOf(c) \subseteq Names
  <2>1. \A i \in DOMAIN Wants[c] : /\ Wants[c][i].name \in Names
                                   /\ Wants[c][i].service \in Services \cup {None}
    BY ItemsAsked DEF Item
  <2> QED  BY <2>1 DEF NamesOf, ServicesOf, IngressesOf
<1>6. ASSUME ~call[c].skipped
      PROVE  /\ Present(deployments) = NamesOf(c)
             /\ Present(services) = ServicesOf(c)
             /\ Present(ingresses) = IngressesOf(c)
  <2>1. /\ Present(deployments) \subseteq NamesOf(c)
        /\ Present(services) \subseteq ServicesOf(c)
        /\ Present(ingresses) \subseteq IngressesOf(c)
    BY <1>e, <1>6 DEF Applied, NothingElse, Obsoleted, ToDo
  <2>2. NamesOf(c) \subseteq Present(deployments)
    BY <1>t, <1>2, <1>5 DEF Present
  <2>3. ServicesOf(c) \subseteq Present(services)
    BY <1>t, <1>3, <1>5 DEF Present
  <2>4. IngressesOf(c) \subseteq Present(ingresses)
    BY <1>t, <1>4, <1>5 DEF Present
  <2> QED  BY <2>1, <2>2, <2>3, <2>4
<1> QED  BY <1>2, <1>3, <1>4, <1>6 DEF SetLeft

\* SetIsApplied is preserved: the call returns nil with its set applied, and until another
\* begins nobody changes it but the admin API (UpdateDeploymentSet).
LEMMA SetIsAppliedStep ==
    ASSUME TypeOK, TodoInv, FreshInv, LoneInv, AppliedInv, SetIsApplied, Next
    PROVE  SetIsApplied'
<1>t. /\ CallType /\ deployments \in Objects(Names) /\ services \in Objects(Services)
      /\ ingresses \in Objects(Names)
  BY DEF TypeOK, CallType
<1>p. alone' \subseteq Calls
  BY ObjectTypeStep
<1> DEFINE Goal(c) == /\ \A n \in NamesOf(c) : deployments'[n] = c /\ n \in accounts'
                      /\ \A n \in NamesOf(c) : ~meddled' => keys'[n] = c
                      /\ \A s \in ServicesOf(c) : services'[s] = c
                      /\ \A n \in IngressesOf(c) : ingresses'[n] = c
                      /\ ~call'[c].skipped => /\ Present(deployments') = NamesOf(c)
                                              /\ Present(services') = ServicesOf(c)
                                              /\ Present(ingresses') = IngressesOf(c)
<1> SUFFICES ASSUME NEW c \in Calls, c \in alone', c = latest', call'[c].result = "ok"
             PROVE  Goal(c)
  BY <1>p DEF SetIsApplied, NamesOf, ServicesOf, IngressesOf, Present
<1> HIDE DEF Goal
<1>d. call'[c].phase = "done"
  <2>1. FreshInv'
    BY FreshInvStep
  <2> QED  BY <2>1 DEF FreshInv
<1>0. c \in alone /\ c = latest
  BY <1>d, LatestMoves
<1>1. ASSUME NEW op \in Ops, NEW m \in Names \cup Services \cup Jobs, Made(c, op, m) PROVE Goal(c)
  <2>1. call[c].phase \in {"migrate", "update"} /\ call'[c].phase = call[c].phase
    BY <1>t, <1>1, MadeFields DEF Made
  <2> QED  BY <1>d, <2>1
<1>2. ASSUME Failed(c) PROVE Goal(c)
  <2>1. call'[c].result = "error"
    BY <1>t, <1>2, ErrsFields DEF Failed
  <2> QED  BY <2>1
<1>3. ASSUME Logged(c) PROVE Goal(c)
  <2>1. call'[c].phase = call[c].phase /\ call[c].todo # <<>>
    BY <1>t, <1>3, SkipsFields DEF Logged
  <2> QED  BY <1>d, <2>1 DEF TodoInv
<1>4. ASSUME Listed(c) \/ ListExistingResources(c) PROVE Goal(c)
  <2>1. call'[c].phase \in {"list", "update"}
    BY <1>t, <1>4, MigrationsDoneFields, ListFields DEF Listed
  <2> QED  BY <1>d, <2>1
<1>5. ASSUME ProcessItem(c) PROVE Goal(c)
  <2>1. call'[c].phase = "update"
    BY <1>t, <1>5, ProcessItemFields
  <2> QED  BY <1>d, <2>1
<1>6. ASSUME UpdateDeploymentSetReturns(c) PROVE Goal(c)
  <2>1. /\ call[c].phase = "update" /\ call[c].todo = <<>> /\ call[c].item > Len(Wants[c])
        /\ call[c].obsolete = {} /\ call'[c].skipped = call[c].skipped
    BY <1>t, <1>6, ReturnsFields
  <2>2. Applied(c)
    BY <1>0, <2>1 DEF AppliedInv
  <2>3. SetLeft(c)
    BY <2>1, <2>2, ReturnsApplied
  <2>4. UNCHANGED <<deployments, services, ingresses, keys, accounts, meddled>>
    BY <1>6 DEF UpdateDeploymentSetReturns, objects, Rest
  <2> QED  BY <2>1, <2>3, <2>4 DEF SetLeft, Goal, Present
<1>7. ASSUME NEW j \in Jobs, Poll(c, j) PROVE Goal(c)
  <2>1. call'[c].phase = "migrate"
    BY <1>t, <1>7, PollFields
  <2> QED  BY <1>d, <2>1
<1>8. ASSUME NEW kind, NEW m, Taken(c, kind, m) PROVE Goal(c)
  <2>1. call[c].phase = "update"
    BY <1>8 DEF Taken, Takes, Processed, In
  <2>2. UNCHANGED call[c].phase
    BY <1>t, <1>8, TakenFields
  <2> QED  BY <1>d, <2>1, <2>2
<1>9. ASSUME UNCHANGED <<deployments, services, ingresses, accounts, call>>,
             UNCHANGED <<keys, meddled>> \/ meddled'
      PROVE  Goal(c)
  <2>1. call[c].result = "ok" /\ call' = call
    BY <1>9
  <2>2. SetLeft(c)
    BY <1>0, <2>1 DEF SetIsApplied, SetLeft
  <2>3. \A n \in NamesOf(c) : ~meddled' => keys'[n] = c
    BY <1>9, <2>2 DEF SetLeft
  <2> QED  BY <1>9, <2>1, <2>2, <2>3 DEF SetLeft, Goal, Present
<1> QED  BY <1>d, <1>1, <1>2, <1>3, <1>4, <1>5, <1>6, <1>7, <1>8, <1>9, LatestMoves

-------------------------------------------------------------------------------
(* The theorems                                                            *)

\* No call has begun and nothing exists (NewK8sController on an empty namespace).
LEMMA Initially == Init => IInv
<1> SUFFICES ASSUME Init PROVE IInv
  OBVIOUS
<1>e. Within(<<>>) = {} /\ (\A a, b : Ordered(<<>>, a, b))
  BY IdleHasNothing
<1>1. /\ deployments = NoObjects(Names) /\ services = NoObjects(Services)
      /\ ingresses = NoObjects(Names) /\ keys = NoObjects(Names) /\ accounts = {}
      /\ jobs = [j \in Jobs |-> "absent"] /\ ran = {} /\ call = [c \in Calls |-> NewCall]
      /\ alone = {} /\ latest = None /\ meddled = FALSE /\ faults = 0
  BY DEF Init
<1>2. \A c \in Calls : call[c] = NewCall
  BY <1>1
<1>3. /\ NewCall.phase = "idle" /\ NewCall.todo = <<>> /\ NewCall.item = 1
      /\ NewCall.obsolete = {} /\ NewCall.result = "none"
  BY DEF NewCall
<1>4. \A c \in Calls : /\ call[c].phase = "idle" /\ call[c].todo = <<>> /\ call[c].item = 1
                       /\ call[c].obsolete = {} /\ call[c].result = "none"
  BY <1>2, <1>3
<1>5. /\ deployments \in Objects(Names) /\ services \in Objects(Services)
      /\ ingresses \in Objects(Names) /\ keys \in [Names -> Calls \cup {None, "edited"}]
  BY <1>1 DEF NoObjects, Objects
<1>6. TypeOK
  <2>1. NoListing \in Listing
    BY DEF NoListing, Listing, NoObjects, Objects
  <2>2. NewCall \in Call
    <3>1. <<>> \in Seq(APICalls) /\ 1 \in Nat \ {0}
      BY EmptySeq
    <3> QED  BY <2>1, <3>1 DEF NewCall, Call, Phase
  <2>3. jobs \in [Jobs -> JobState] /\ ran \subseteq Jobs
    BY <1>1 DEF JobState
  <2>4. faults \in 0 .. MaxFaults
    BY <1>1, BoundsAssumption
  <2> QED  BY <1>1, <1>4, <1>5, <2>2, <2>3, <2>4 DEF TypeOK
<1>7. TodoInv
  BY <1>4 DEF TodoInv
<1>8. FreshInv
  BY <1>4 DEF FreshInv
<1>9. MigratedInv
  <2>1. \A c \in Calls, n \in Names : c \notin {deployments[n], keys[n]}
    BY <1>1, NoneAssumption DEF NoObjects
  <2> QED  BY <1>1, <1>4, <2>1 DEF MigratedInv
<1>10. LoneInv
  <2>1. Running = {}
    BY <1>4 DEF Running, Busy
  <2> QED  BY <1>1, <2>1 DEF LoneInv
<1>11. ListedInv
  BY <1>e, <1>4 DEF ListedInv, Doomed, DoomedService, DoomedIngress, ToDo, Obsoleted
<1>12. AskedInv
  BY <1>e, <1>4 DEF AskedInv, ToDo
<1>13. PodsInv
  <2>1. \A n \in Names : deployments[n] = None
    BY <1>1 DEF NoObjects
  <2> QED  BY <1>4, <2>1 DEF PodsInv
<1>14. AppliedInv /\ SetIsApplied
  BY <1>1 DEF AppliedInv, SetIsApplied
<1> QED  BY <1>6, <1>7, <1>8, <1>9, <1>10, <1>11, <1>12, <1>13, <1>14 DEF IInv

\* Every step of the controller, the admin API and the jobs keeps the invariant, and so does
\* a step that changes nothing.
LEMMA IInvStep == IInv /\ [Next]_vars => IInv'
<1> SUFFICES ASSUME IInv, [Next]_vars PROVE IInv'
  OBVIOUS
<1>i. /\ TypeOK /\ TodoInv /\ FreshInv /\ MigratedInv /\ LoneInv /\ ListedInv /\ AskedInv
      /\ PodsInv /\ AppliedInv /\ SetIsApplied
  BY DEF IInv
<1>1. CASE Next
  <2>1. TypeOK' /\ TodoInv' /\ FreshInv'
    BY <1>i, <1>1, TypeStep, TodoInvStep, FreshInvStep
  <2>2. MigratedInv' /\ LoneInv'
    BY <1>i, <1>1, MigratedInvStep, LoneInvStep
  <2>3. ListedInv' /\ AskedInv'
    BY <1>i, <1>1, ListedInvStep, AskedInvStep
  <2>4. PodsInv'
    BY <1>i, <1>1, PodsInvStep
  <2>5. AppliedInv'
    BY <1>i, <1>1, AppliedInvStep
  <2>6. SetIsApplied'
    BY <1>i, <1>1, SetIsAppliedStep
  <2> QED  BY <2>1, <2>2, <2>3, <2>4, <2>5, <2>6 DEF IInv
<1>2. CASE UNCHANGED vars
  <2>1. /\ deployments' = deployments /\ services' = services /\ ingresses' = ingresses
        /\ keys' = keys /\ accounts' = accounts /\ jobs' = jobs /\ ran' = ran /\ call' = call
        /\ alone' = alone /\ latest' = latest /\ meddled' = meddled /\ faults' = faults
    BY <1>2 DEF vars, objects
  <2>7. TypeOK'
    BY <1>i, <2>1 DEF TypeOK, NamesOf, ServicesOf, IngressesOf, Objects
  <2>8. TodoInv'
    BY <1>i, <2>1 DEF TodoInv, Within
  <2>2. FreshInv' /\ MigratedInv'
    BY <1>i, <2>1 DEF FreshInv, MigratedInv
  <2>10. LoneInv'
    BY <1>i, <2>1 DEF LoneInv, Running
  <2>11. ListedInv'
    <3>1. ASSUME NEW c \in Calls, NEW n \in Names \cup Services
          PROVE  Fit(c, n, Within(call'[c].todo), call'[c].obsolete, call'[c].listed)
      <4>1. Fit(c, n, Within(call[c].todo), call[c].obsolete, call[c].listed)
        BY <1>i DEF ListedInv, Fit, Doomed, DoomedService, DoomedIngress, ToDo, Obsoleted
      <4> QED  BY <2>1, <4>1
    <3> QED  BY <3>1 DEF ListedInv, Fit, Doomed, DoomedService, DoomedIngress, ToDo, Obsoleted,
             Within
  <2>3. AskedInv'
    BY <1>i, <2>1 DEF AskedInv, ToDo, Within, NamesOf, ServicesOf, IngressesOf
  <2>4. PodsInv'
    <3>1. Quiet' => Quiet
      BY <2>1 DEF Quiet, In
    <3>2. ASSUME NEW c, NEW a, NEW b, Ordered(call[c].todo, a, b)
          PROVE  Ordered(call[c].todo, a, b)'
      BY <2>1, <3>2 DEF Ordered
    <3>3. ASSUME Quiet'
          PROVE  /\ \A n \in Names : deployments'[n] # None => keys'[n] # None /\ n \in accounts'
                 /\ \A c \in Calls, n \in Names : call'[c].phase = "update" =>
                        /\ \/ keys'[n] # None
                           \/ Ordered(call[c].todo, <<"key", n>>, <<"create", n>>)'
                        /\ \/ n \in accounts'
                           \/ Ordered(call[c].todo, <<"account", n>>, <<"create", n>>)'
                        /\ \/ deployments'[n] = None
                           \/ /\ Ordered(call[c].todo, <<"delete", n>>, <<"delete_key", n>>)'
                              /\ Ordered(call[c].todo, <<"delete", n>>, <<"delete_account", n>>)'
      BY <1>i, <2>1, <3>1, <3>2, <3>3 DEF PodsInv
    <3> QED  BY <3>3 DEF PodsInv
  <2>5. AppliedInv'
    <3>1. \A c \in alone : c = latest /\ call[c].phase = "update" => Applied(c)
      BY <1>i DEF AppliedInv
    <3>2. ASSUME NEW c, Applied(c) PROVE Applied(c)'
      <4>1. ASSUME NEW p, ItemApplied(c, p) PROVE ItemApplied(c, p)'
        BY <2>1, <4>1 DEF ItemApplied, ToDo, Within
      <4>2. ASSUME NothingElse(c) PROVE NothingElse(c)'
        BY <2>1, <4>2 DEF NothingElse, Obsoleted, ToDo, Within, Present, NamesOf, ServicesOf,
           IngressesOf
      <4> QED  BY <2>1, <3>2, <4>1, <4>2 DEF Applied
    <3> QED  BY <2>1, <3>1, <3>2 DEF AppliedInv
  <2>6. SetIsApplied'
    BY <1>i, <2>1 DEF SetIsApplied, Present, NamesOf, ServicesOf, IngressesOf
  <2> QED  BY <2>2, <2>3, <2>4, <2>5, <2>6, <2>7, <2>8, <2>10, <2>11
           DEF IInv
<1> QED  BY <1>1, <1>2

\* The invariant from which the properties follow: what each call has to do, in which order,
\* and what it has done of its set (UpdateDeploymentSet).
THEOREM Inductive == Spec => []IInv
<1> QED  BY Initially, IInvStep, PTL DEF Spec

\* Types; no call is about to delete what its set asks for (deleteObsoleteResources).
THEOREM Types == Spec => []TypeOK
<1>1. IInv => TypeOK
  BY DEF IInv
<1> QED  BY <1>1, Inductive, PTL

\* A deployment that exists has its key secret and its service account, whatever call fails
\* or crashes at whatever API call, while calls do not overlap and nobody deletes the secret
\* by the admin API (createDeployment, deleteDeploymentResources).
THEOREM DeploymentsCanStart == Spec => []PodsCanStart
<1>1. IInv => PodsCanStart
  <2> SUFFICES ASSUME IInv PROVE PodsCanStart
    OBVIOUS
  <2>1. PodsInv /\ TypeOK
    BY DEF IInv
  <2>2. Present(deployments) = {n \in Names : deployments[n] # None}
    BY <2>1 DEF TypeOK, Present, Objects
  <2> QED  BY <2>1, <2>2 DEF PodsInv, PodsCanStart, Quiet
<1> QED  BY <1>1, Inductive, PTL

\* A call that no other overlapped and that returned nil has left exactly the set it was
\* given, whatever earlier calls left half done (UpdateDeploymentSet).
THEOREM ReturnedSetIsApplied == Spec => []SetIsApplied
<1>1. IInv => SetIsApplied
  BY DEF IInv
<1> QED  BY <1>1, Inductive, PTL

\* Nothing is deployed by a call whose migrations have not all succeeded, however its jobs
\* are retried, read and removed (RunMigrations).
THEOREM MigratedBeforeDeployed == Spec => []DeployedAfterMigrations
<1>1. IInv => DeployedAfterMigrations
  BY DEF IInv, MigratedInv, DeployedAfterMigrations
<1> QED  BY <1>1, Inductive, PTL
===============================================================================
