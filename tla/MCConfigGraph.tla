--------------------------- MODULE MCConfigGraph ---------------------------
(* TLC instances of ConfigGraph: the whole graph, and smaller ones with two *)
(* routes over fixed dependencies of the destinations.                      *)
EXTENDS ConfigGraph, TLC

CONSTANTS p1, p2, eg, sec, a1, c1, c2, k1, m1, m2, d1, d2, s1, s2, r1, r2, t1

KindOf ==
    p1 :> "Provider" @@ p2 :> "Provider" @@ eg :> "Egress" @@ sec :> "Secret"
    @@ a1 :> "ProviderAccount" @@ c1 :> "ProviderConnection" @@ c2 :> "ProviderConnection"
    @@ k1 :> "Credential" @@ m1 :> "Model" @@ m2 :> "Model"
    @@ d1 :> "Destination" @@ d2 :> "Destination" @@ s1 :> "Strategy" @@ s2 :> "Strategy"
    @@ r1 :> "Route" @@ r2 :> "Route" @@ t1 :> "AgentToken"

S(refs, label, on) == [refs |-> refs, label |-> label, on |-> on]
Leaf == {S(<<>>, "", TRUE)}

\* Routing: dependencies of the destinations are given.
RoutingBase     == {p1, eg, sec, a1, c1, k1, m1, m2}
RoutingManaged  == {d1, d2, s1, s2, r1, r2, t1}
RoutingResource == RoutingBase \cup RoutingManaged
RoutingKind     == [x \in RoutingResource |-> KindOf[x]]
RoutingOptions  ==
    [x \in RoutingResource |->
        CASE x \in {p1, eg, sec} -> Leaf
          [] x \in {a1, c1} -> {S(<<p1>>, "", TRUE)}
          [] x = k1 -> {S(<<a1, eg, sec>>, "", TRUE)}
          [] x = m1 -> {S(<<c1>>, "one", TRUE)}
          [] x = m2 -> {S(<<c1>>, "two", TRUE)}
          [] x = d1 -> {S(<<m1, k1>>, "", TRUE)}
          [] x = d2 -> {S(<<m2, k1>>, "", TRUE)}
          [] x = s1 -> {S(<<d1>>, "", TRUE), S(<<d2>>, "", TRUE)}
          [] x = s2 -> {S(<<d1, d2>>, "", TRUE)}
          [] x = r1 -> {S(<<s1>>, "fast", TRUE), S(<<s2>>, "fast", TRUE)}
          [] x = r2 -> {S(<<s1>>, "slow", TRUE)}
          [] x = t1 -> {S(<<r1>>, "", TRUE), S(<<r1>>, "", FALSE)}]

\* Strategies that name a destination twice.
RepeatingOptions ==
    [RoutingOptions EXCEPT ![s1] = {S(<<d1, d1>>, "", TRUE), S(<<d1>>, "", TRUE)}]

\* The whole graph: a connection and a model that move between two providers,
\* and the resources that route to the destinations on them.
WholeBase     == {p1, p2, eg, a1, c2, m2}
WholeManaged  == {c1, m1, k1, d1, d2, s1, s2, r1, t1}
WholeResource == WholeBase \cup WholeManaged \cup {sec}
WholeKind     == [x \in WholeResource |-> KindOf[x]]
WholeOptions  ==
    [x \in WholeResource |->
        CASE x \in {p1, p2, eg, sec} -> Leaf
          [] x \in {a1, c2} -> {S(<<p1>>, "", TRUE)}
          [] x = k1 -> {S(<<a1, eg, sec>>, "", TRUE)}
          [] x = c1 -> {S(<<p1>>, "", TRUE), S(<<p2>>, "", TRUE)}
          [] x = m1 -> {S(<<c1>>, "one", TRUE), S(<<c2>>, "one", TRUE)}
          [] x = m2 -> {S(<<c2>>, "two", TRUE)}
          [] x = d1 -> {S(<<m1, k1>>, "", TRUE)}
          [] x = d2 -> {S(<<m2, k1>>, "", TRUE)}
          [] x = s1 -> {S(<<d1>>, "", TRUE), S(<<d2>>, "", TRUE)}
          [] x = s2 -> {S(<<d1, d2>>, "", TRUE)}
          [] x = r1 -> {S(<<s1>>, "fast", TRUE), S(<<s2>>, "fast", TRUE)}
          [] x = t1 -> {S(<<r1>>, "", TRUE), S(<<r1>>, "", FALSE)}]

\* Two destinations that want the same model and credential.
RivalBase     == {p1, eg, a1, c1, m1}
RivalManaged  == {k1, d1, d2}
RivalResource == RivalBase \cup RivalManaged \cup {sec}
RivalKind     == [x \in RivalResource |-> KindOf[x]]
RivalOptions  ==
    [x \in RivalResource |->
        CASE x \in {p1, eg, sec} -> Leaf
          [] x \in {a1, c1} -> {S(<<p1>>, "", TRUE)}
          [] x = m1 -> {S(<<c1>>, "one", TRUE)}
          [] x = k1 -> {S(<<a1, eg, sec>>, "", TRUE)}
          [] x \in {d1, d2} -> {S(<<m1, k1>>, "", TRUE)}]
=============================================================================
