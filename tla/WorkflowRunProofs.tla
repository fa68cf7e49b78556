------------------------- MODULE WorkflowRunProofs -------------------------
(***************************************************************************)
(* Theorems about WorkflowRun for any finite set of agents, any workflows, *)
(* number of retries and bus files.                                        *)
(***************************************************************************)
EXTENDS WorkflowRun, FiniteSetTheorems, SequenceTheorems, WellFoundedInduction, TLAPS

(* A set of naturals has a least element.                                  *)
LEMMA HasLeast ==
  ASSUME NEW T \in SUBSET Nat, T # {}
  PROVE  \E t \in T : \A u \in T : t <= u
<1>1. IsWellFoundedOn(OpToRel(<, Nat), Nat)
  BY NatLessThanWellFounded, Zenon
<1>2. PICK t \in T : \A u \in T : ~(<<u, t>> \in OpToRel(<, Nat))
  BY <1>1, WFMin, Zenon
<1>3. \A u \in T : ~(u < t)
  BY <1>2, Zenon DEF OpToRel
<1> QED
  BY <1>3

(* By the size of a smallest set that could not be listed.                 *)
LEMMA HasAscending ==
  ASSUME NEW S \in SUBSET Nat, IsFiniteSet(S)
  PROVE  \E s \in [1..Cardinality(S) -> S] : \A i, j \in DOMAIN s : i < j => s[i] < s[j]
<1> DEFINE Listed(T) == \E s \in [1..Cardinality(T) -> T] : \A i, j \in DOMAIN s : i < j => s[i] < s[j]
           Sizes == {n \in Nat : \E T \in SUBSET Nat : IsFiniteSet(T) /\ Cardinality(T) = n /\ ~Listed(T)}
<1> SUFFICES ASSUME ~Listed(S) PROVE FALSE
  OBVIOUS
<1>1. Sizes \in SUBSET Nat /\ Sizes # {}
  BY FS_CardinalityType
<1>2. PICK n \in Sizes : \A k \in Sizes : n <= k
  BY ONLY <1>1, HasLeast
<1>3. PICK T \in SUBSET Nat : IsFiniteSet(T) /\ Cardinality(T) = n /\ ~Listed(T)
  OBVIOUS
<1>4. CASE T = {}
  <2>1. 1..Cardinality(T) = {}
    BY <1>4, FS_EmptySet
  <2>2. [i \in {} |-> i] \in [1..Cardinality(T) -> T] /\ DOMAIN [i \in {} |-> i] = {}
    BY <2>1
  <2> QED
    BY <1>3, <2>2
<1>5. CASE T # {}
  <2>1. PICK l \in T : \A u \in T : l <= u
    BY <1>5, HasLeast
  <2>2. PICK R \in SUBSET Nat : R = T \ {l}
    OBVIOUS
  <2>3. IsFiniteSet(R) /\ Cardinality(R) = n - 1 /\ n - 1 \in Nat
    <3>1. IsFiniteSet(T \ {l}) /\ Cardinality(T \ {l}) = Cardinality(T) - 1
      BY <1>3, FS_RemoveElement
    <3>2. Cardinality(T \ {l}) \in Nat
      BY <3>1, FS_CardinalityType
    <3> QED
      BY <1>3, <2>2, <3>1, <3>2
  <2>4. n - 1 \notin Sizes
    BY <1>2, <2>3
  <2>5. Listed(R)
    BY <2>3, <2>4
  <2>6. PICK r \in [1..n - 1 -> R] : \A i, j \in 1..n - 1 : i < j => r[i] < r[j]
    BY <2>3, <2>5
  <2>7. PICK s : s = [i \in 1..n |-> IF i = 1 THEN l ELSE r[i - 1]]
    OBVIOUS
  <2>8. \A i \in 1..n : i = 1 \/ i - 1 \in 1..n - 1
    BY <2>3
  <2>9. s \in [1..n -> T]
    BY <2>1, <2>2, <2>6, <2>7, <2>8
  <2>10. ASSUME NEW i \in 1..n, NEW j \in 1..n, i < j PROVE s[i] < s[j]
    <3>1. j - 1 \in 1..n - 1 /\ s[j] = r[j - 1] /\ j # 1
      BY <2>3, <2>7, <2>10
    <3>2. r[j - 1] \in R
      BY <2>6, <3>1
    <3>3. CASE i = 1
      <4>1. l <= r[j - 1] /\ l # r[j - 1] /\ l \in Nat /\ r[j - 1] \in Nat
        BY <2>1, <2>2, <3>2
      <4> QED
        BY <2>7, <3>1, <3>3, <4>1
    <3>4. CASE i # 1
      <4>1. i - 1 \in 1..n - 1 /\ i - 1 < j - 1 /\ s[i] = r[i - 1]
        BY <2>3, <2>7, <2>10, <3>4
      <4> QED
        BY <2>6, <3>1, <4>1
    <3> QED
      BY <3>3, <3>4
  <2>11. Listed(T)
    BY <1>3, <2>9, <2>10
  <2> QED
    BY <1>3, <2>11
<1> QED
  BY <1>4, <1>5

Phases == {"ordering", "next", "gather", "deliver", "try", "backoff", "done", "killed"}
Busy == {"gather", "deliver", "try", "backoff"}
Fates == {"none", "done", "skipped", "failed"}
Report == [kind : Kinds, agent : Agents \cup {0}]

-----------------------------------------------------------------------------
Types ==
  /\ graph \in Graphs /\ phase \in Phases
  /\ remaining \subseteq Agents /\ order \in Seq(Agents)
  /\ next \in 0..Len(order) /\ tries \in 0..Restart + 1
  /\ outcome \in [Agents -> Fates]
  /\ queue \in Seq(Message) /\ messages \in Seq(Message)
  /\ cancelled \in BOOLEAN /\ output \subseteq Agents
  /\ events \in Seq(Report)
  /\ phase \in Busy => next # 0 /\ tries <= Restart
  /\ phase = "ordering" => next = 0 /\ events = <<>>

(* An order names every agent once, and after its dependencies.            *)
InOrder(s, g) ==
  /\ IsInjective(s)
  /\ \A i \in DOMAIN s : \A m \in Agents : <<m, s[i]>> \in g.depends \cup g.routes =>
       \E j \in DOMAIN s : j < i /\ s[j] = m

Ordered ==
  /\ InOrder(order, graph)
  /\ phase = "ordering" => Range(order) = Agents \ remaining
  /\ phase \notin {"ordering", "done", "killed"} => order # <<>>

Bus ==
  /\ log \in Seq(Seq(Entry)) /\ earlier \in Seq(Seq(Entry))
  /\ ragged \in BOOLEAN /\ (ragged => log # <<>>)

Base == Types /\ Ordered /\ Bus

(* Those taken up have run or were skipped, but for the current one.       *)
Settled ==
  /\ \A n \in Agents : outcome[n] # "none" => TakenUp(n)
  /\ \A i \in 1..next : i < next \/ phase = "next" => outcome[order[i]] \in {"done", "skipped"}
  /\ phase \in Busy => outcome[Current] = "none"
  /\ \A n \in Agents : outcome[n] = "skipped" => Inbound(n) # {}

(* Messages come from agents that ran, along routes; an agent is started   *)
(* on one at least if there are routes into it.                            *)
Said(s, e) == \E i \in 1..Len(s) : s[i] = e

Fed(n) ==
  /\ \A i \in DOMAIN queue : queue[i][2] = n /\ queue[i][1] \in CanFire(n)
  /\ Inbound(n) # {} => queue # <<>> \/ \E m \in Inbound(n) : Said(messages, <<m, n>>)

Upstream ==
  /\ \A x \in Message : Said(messages, x) => x \in graph.routes /\ outcome[x[1]] = "done"
  /\ phase = "deliver" => \A n \in Agents : n = Current => Fed(n)
  /\ \A n \in Agents : Inbound(n) # {} /\ Said(events, Event("started", n)) =>
       \E m \in Inbound(n) : Said(messages, <<m, n>>)

(* The last event waits for the next while the agent runs, and only a run  *)
(* that is over has reported so.                                           *)
Followed(es) ==
  \A i \in 1..Len(es) - 1 :
    /\ es[i].kind = "started" =>
         es[i + 1] \in {Event("done", es[i].agent), Event("failed", es[i].agent)}
    /\ es[i].kind = "failed" => es[i + 1] = Event("run failed", 0)
Waits(es) == es # <<>> /\ es[Len(es)].kind \in {"started", "failed"}
Unended(es) == \A i \in 1..Len(es) : es[i].kind \notin {"failed", "run ok", "run failed"}

Fate(n) ==
  outcome[n] \in {"done", "skipped"} <=>
    Said(events, Event("done", n)) \/ Said(events, Event("skipped", n))

Told ==
  /\ \A n \in Agents : Fate(n)
  /\ Followed(events)
  /\ phase \in {"try", "backoff"} => events # <<>> /\ events[Len(events)] = Event("started", Current)
  /\ phase \notin {"try", "backoff", "done", "killed"} => ~Waits(events)
  /\ phase # "done" => Unended(events)
  /\ \A n \in Agents : outcome[n] = "failed" => phase = "done"

Succeeded ==
  Reported(Event("run ok", 0)) =>
    /\ output # {} /\ output \subseteq Produced
    /\ \A i \in 1..Len(order) : outcome[order[i]] \in {"done", "skipped"}

-----------------------------------------------------------------------------
(* Sorted lists every element of a finite set once.                        *)
LEMMA SortedIs ==
  ASSUME NEW S \in SUBSET Nat, IsFiniteSet(S)
  PROVE  /\ Sorted(S) \in Seq(S) /\ Len(Sorted(S)) = Cardinality(S)
         /\ DOMAIN Sorted(S) = 1..Cardinality(S) /\ Cardinality(S) \in Nat
         /\ Ascending(Sorted(S)) /\ Range(Sorted(S)) = S /\ IsInjective(Sorted(S))
<1>1. Cardinality(S) \in Nat
  BY FS_CardinalityType
<1>2. \E s \in [1..Cardinality(S) -> S] : Ascending(s)
  BY HasAscending DEF Ascending
<1>3. Sorted(S) \in [1..Cardinality(S) -> S] /\ Ascending(Sorted(S))
  BY ONLY <1>2 DEF Sorted
<1>4. PICK s \in [1..Cardinality(S) -> S] : s = Sorted(S) /\ Ascending(s)
  BY <1>3
<1>5. s \in Seq(S) /\ Len(s) = Cardinality(S) /\ DOMAIN s = 1..Cardinality(S)
  <2>1. s \in Seq(S)
    BY <1>1, SeqDef
  <2> QED
    BY <1>1, <2>1, LenProperties
<1>6. IsInjective(s)
  <2> SUFFICES ASSUME NEW i \in 1..Cardinality(S), NEW j \in 1..Cardinality(S), s[i] = s[j]
               PROVE  i = j
    BY <1>5 DEF IsInjective
  <2>1. s[i] \in Nat
    OBVIOUS
  <2>2. ~(i < j) /\ ~(j < i)
    BY <1>4, <1>5, <2>1 DEF Ascending
  <2> QED
    BY <1>1, <2>2
<1>7. s \in Surjection(1..Cardinality(S), S)
  <2>1. s \in Injection(1..Cardinality(S), S)
    BY <1>6 DEF Injection
  <2>2. Cardinality(1..Cardinality(S)) = Cardinality(S)
    BY <1>1, FS_Interval
  <2> QED
    BY <2>1, <2>2, FS_Injection
<1>8. Range(s) = S
  BY <1>5, <1>7 DEF Surjection, Range
<1> QED
  BY <1>1, <1>4, <1>5, <1>6, <1>8

LEMMA AgentsFinite ==
  ASSUME NEW S \in SUBSET Agents
  PROVE  S \in SUBSET Nat /\ IsFiniteSet(S)
BY ConstantsAssumption, FS_Subset

(* Among picks places of a sequence, in ascending order, all of those that *)
(* hold an element of the set.                                             *)
Picks(places, s, S, t) ==
  /\ DOMAIN t = DOMAIN places /\ Ascending(places) /\ IsInjective(places)
  /\ \A k \in DOMAIN places : t[k] = s[places[k]] /\ s[places[k]] \in S
  /\ \A i \in DOMAIN s : s[i] \in S => \E k \in DOMAIN places : places[k] = i

LEMMA AmongIs ==
  ASSUME NEW s \in Seq(Agents), NEW S
  PROVE  /\ Among(s, S) \in Seq(Agents)
         /\ \E places \in Seq(DOMAIN s) : Picks(places, s, S, Among(s, S))
<1>1. PICK P : P = {i \in DOMAIN s : s[i] \in S}
  OBVIOUS
<1>2. DOMAIN s = 1..Len(s) /\ Len(s) \in Nat /\ \A i \in DOMAIN s : s[i] \in Agents
  BY LenProperties, ElementOfSeq
<1>3. P \in SUBSET Nat /\ IsFiniteSet(P)
  <2>1. P \subseteq 1..Len(s) /\ IsFiniteSet(1..Len(s))
    BY <1>1, <1>2, FS_Interval
  <2>2. IsFiniteSet(P)
    BY ONLY <2>1, FS_Subset
  <2> QED
    BY <2>1, <2>2
<1>4. PICK places \in Seq(P) :
        /\ places = Sorted(P) /\ Len(places) = Cardinality(P)
        /\ DOMAIN places = 1..Cardinality(P) /\ Cardinality(P) \in Nat
        /\ Ascending(places) /\ Range(places) = P /\ IsInjective(places)
  BY <1>3, SortedIs
<1>5. Among(s, S) = [k \in DOMAIN places |-> s[places[k]]]
  BY <1>1, <1>4 DEF Among
<1>6. \A k \in DOMAIN places : places[k] \in P
  BY <1>4, ElementOfSeq
<1>7. Among(s, S) \in [1..Cardinality(P) -> Agents]
  BY <1>1, <1>2, <1>4, <1>5, <1>6
<1>8. Among(s, S) \in Seq(Agents)
  BY <1>4, <1>7, SeqDef
<1>9. places \in Seq(DOMAIN s)
  BY <1>1, SeqMonotonic
<1>10. \A i \in P : \E k \in DOMAIN places : places[k] = i
  BY <1>4 DEF Range
<1>11. PICK t : t = Among(s, S)
  OBVIOUS
<1>12. DOMAIN t = DOMAIN places /\ \A k \in DOMAIN places : t[k] = s[places[k]]
  BY ONLY <1>5, <1>11
<1>13. \A k \in DOMAIN places : s[places[k]] \in S
  BY ONLY <1>1, <1>6
<1>14. \A i \in DOMAIN s : s[i] \in S => \E k \in DOMAIN places : places[k] = i
  BY ONLY <1>1, <1>10
<1>15. Picks(places, s, S, t)
  BY ONLY <1>4, <1>12, <1>13, <1>14 DEF Picks
<1> QED
  BY <1>8, <1>9, <1>11, <1>15

(* What --only asks for has its dependencies, and is not nothing.          *)
LEMMA WantedClosed ==
  ASSUME graph \in Graphs
  PROVE  /\ Wanted \subseteq Agents
         /\ \A n \in Wanted : Edges(n) \subseteq Wanted
         /\ graph.only \subseteq Agents => graph.only \subseteq Wanted
BY DEF Wanted, Closed, Edges

LEMMA InOrderAmong ==
  ASSUME Types, NEW s \in Seq(Agents), InOrder(s, graph)
  PROVE  InOrder(Among(s, Wanted), graph)
<1>0. PICK W : W = Wanted
  OBVIOUS
<1>a. PICK places \in Seq(DOMAIN s) : Picks(places, s, W, Among(s, W))
  BY AmongIs
<1>1. /\ DOMAIN Among(s, W) = DOMAIN places
      /\ Ascending(places) /\ IsInjective(places)
      /\ \A k \in DOMAIN places : Among(s, W)[k] = s[places[k]] /\ s[places[k]] \in W
      /\ \A i \in DOMAIN s : s[i] \in W => \E k \in DOMAIN places : places[k] = i
  BY <1>a DEF Picks
<1>2. /\ DOMAIN places = 1..Len(places) /\ Len(places) \in Nat
      /\ DOMAIN s = 1..Len(s) /\ Len(s) \in Nat
      /\ \A k \in DOMAIN places : places[k] \in DOMAIN s
  BY LenProperties, ElementOfSeq
<1>3. PICK t : t = Among(s, W)
  OBVIOUS
<1>4. IsInjective(t)
  BY <1>1, <1>2, <1>3 DEF IsInjective, InOrder
<1>5. ASSUME NEW i \in DOMAIN t, NEW m \in Agents, <<m, t[i]>> \in graph.depends \cup graph.routes
      PROVE  \E j \in DOMAIN t : j < i /\ t[j] = m
  <2>1. m \in Edges(t[i]) /\ t[i] \in W
    BY <1>1, <1>3, <1>5 DEF Edges
  <2>2. m \in W
    BY <1>0, <2>1, WantedClosed DEF Types
  <2>3. PICK j \in DOMAIN s : j < places[i] /\ s[j] = m
    BY <1>1, <1>2, <1>3, <1>5 DEF InOrder
  <2>4. PICK k \in DOMAIN places : places[k] = j
    BY <1>1, <2>2, <2>3
  <2>5. k < i
    <3>1. i \in DOMAIN places /\ i \in Nat /\ k \in Nat
      BY <1>1, <1>2, <1>3
    <3>2. places[k] < places[i] /\ places[k] \in Nat /\ places[i] \in Nat
      BY <1>2, <2>3, <2>4, <3>1
    <3>3. ~(i < k) /\ i # k
      BY <1>1, <3>1, <3>2 DEF Ascending
    <3> QED
      BY <3>1, <3>3
  <2> QED
    BY <1>1, <1>3, <2>3, <2>4, <2>5
<1> QED
  BY <1>0, <1>3, <1>4, <1>5 DEF InOrder

-----------------------------------------------------------------------------
(* The order, and the types.                                               *)
LEMMA LayerOrdered ==
  ASSUME Types, Ordered, OrderLayer
  PROVE  Ordered' /\ order' \in Seq(Agents)
<1>1. /\ order \in Seq(Agents) /\ order' = order \o Sorted(Ready) /\ phase = "ordering"
      /\ Range(order) = Agents \ remaining /\ InOrder(order, graph) /\ remaining \subseteq Agents
      /\ graph' = graph /\ phase' = phase /\ remaining' = remaining \ Ready
  BY DEF OrderLayer, Types, Ordered
<1>2. Ready \subseteq remaining /\ Ready \in SUBSET Agents
  BY <1>1 DEF Ready
<1>3. PICK layer \in Seq(Agents) : /\ layer = Sorted(Ready) /\ Range(layer) = Ready
                                   /\ IsInjective(layer)
  <2>1. Sorted(Ready) \in Seq(Ready) /\ Range(Sorted(Ready)) = Ready /\ IsInjective(Sorted(Ready))
    BY <1>2, AgentsFinite, SortedIs
  <2> QED
    BY <1>2, <2>1, SeqMonotonic
<1>4. PICK s \in Seq(Agents) : s = order \o layer /\ s = order'
  BY <1>1, <1>3, ConcatProperties
<1>5. /\ Len(s) = Len(order) + Len(layer) /\ Len(order) \in Nat /\ Len(layer) \in Nat
      /\ DOMAIN s = 1..Len(s) /\ DOMAIN order = 1..Len(order) /\ DOMAIN layer = 1..Len(layer)
      /\ \A i \in 1..Len(order) + Len(layer) : s[i] = IF i <= Len(order) THEN order[i] ELSE layer[i - Len(order)]
  BY <1>1, <1>4, ConcatProperties, LenProperties
<1>6. Range(s) = Range(order) \cup Ready
  BY <1>1, <1>3, <1>4, RangeConcatenation
<1>7. \A i \in DOMAIN s : \/ i \in DOMAIN order /\ s[i] = order[i] /\ s[i] \in Agents \ remaining
                          \/ i > Len(order) /\ i - Len(order) \in DOMAIN layer /\ s[i] = layer[i - Len(order)] /\ s[i] \in Ready
  <2>1. ASSUME NEW i \in DOMAIN s, i <= Len(order)
        PROVE  i \in DOMAIN order /\ s[i] = order[i] /\ s[i] \in Agents \ remaining
    BY <1>1, <1>5, <2>1 DEF Range
  <2>2. ASSUME NEW i \in DOMAIN s, i > Len(order)
        PROVE  i - Len(order) \in DOMAIN layer /\ s[i] = layer[i - Len(order)] /\ s[i] \in Ready
    <3>1. i - Len(order) \in DOMAIN layer /\ s[i] = layer[i - Len(order)]
      BY <1>5, <2>2
    <3> QED
      BY <1>3, <3>1 DEF Range
  <2> QED
    BY <1>5, <2>1, <2>2
<1>8. IsInjective(s)
  <2> SUFFICES ASSUME NEW i \in DOMAIN s, NEW j \in DOMAIN s, s[i] = s[j] PROVE i = j
    BY DEF IsInjective
  <2>1. CASE i <= Len(order) /\ j <= Len(order)
    BY <1>1, <1>5, <1>7, <2>1 DEF InOrder, IsInjective
  <2>2. CASE i > Len(order) /\ j > Len(order)
    <3>1. /\ i - Len(order) \in DOMAIN layer /\ s[i] = layer[i - Len(order)]
          /\ j - Len(order) \in DOMAIN layer /\ s[j] = layer[j - Len(order)]
      BY <1>5, <2>2
    <3>2. i - Len(order) = j - Len(order)
      BY <1>3, <3>1 DEF IsInjective
    <3> QED
      BY <1>5, <3>2
  <2>3. CASE ~(i <= Len(order) /\ j <= Len(order)) /\ ~(i > Len(order) /\ j > Len(order))
    BY <1>2, <1>5, <1>7, <2>3
  <2> QED
    BY <2>1, <2>2, <2>3
<1>9. ASSUME NEW i \in DOMAIN s, NEW m \in Agents, <<m, s[i]>> \in graph.depends \cup graph.routes
      PROVE  \E j \in DOMAIN s : j < i /\ s[j] = m
  <2>1. CASE i <= Len(order)
    <3>1. i \in DOMAIN order /\ s[i] = order[i]
      BY <1>5, <2>1
    <3>2. PICK j \in DOMAIN order : j < i /\ order[j] = m
      BY <1>1, <1>9, <3>1 DEF InOrder
    <3>3. j \in DOMAIN s /\ s[j] = order[j]
      BY <1>5
    <3> QED
      BY <3>2, <3>3
  <2>2. CASE i > Len(order)
    <3>1. s[i] \in Ready
      BY <1>5, <1>7, <2>2
    <3>2. m \notin remaining
      BY <1>9, <3>1 DEF Ready, Edges
    <3>3. PICK j \in DOMAIN order : order[j] = m
      BY <1>1, <3>2 DEF Range
    <3>4. j \in DOMAIN s /\ s[j] = order[j] /\ j < i
      BY <1>5, <2>2
    <3> QED
      BY <3>3, <3>4
  <2> QED
    BY <1>5, <2>1, <2>2
<1>10. Range(s) = Agents \ remaining'
  BY <1>1, <1>2, <1>6
<1> QED
  BY <1>1, <1>4, <1>8, <1>9, <1>10 DEF Ordered, InOrder

LEMMA OnlySome ==
  ASSUME Types, NEW s \in Seq(Agents), Range(s) = Agents, graph.only \subseteq Agents,
         graph.only # {}
  PROVE  Among(s, Wanted) # <<>>
<1>0. PICK W : W = Wanted
  OBVIOUS
<1>1. PICK places \in Seq(DOMAIN s) : Picks(places, s, W, Among(s, W))
  BY AmongIs
<1>2. PICK n \in Agents : n \in W
  BY <1>0, WantedClosed DEF Types
<1>3. PICK i \in DOMAIN s : s[i] = n
  BY DEF Range
<1>4. PICK k \in DOMAIN Among(s, W) : TRUE
  BY <1>1, <1>2, <1>3 DEF Picks
<1>5. Among(s, W) \in Seq(Agents)
  BY AmongIs
<1> QED
  BY <1>0, <1>4, <1>5, EmptySeq, LenProperties

LEMMA StartOrdered ==
  ASSUME Types, Ordered, StartRun
  PROVE  Ordered' /\ order' \in Seq(Agents)
<1>1. /\ order \in Seq(Agents) /\ phase = "ordering" /\ remaining = {} /\ phase' = "next"
      /\ graph.only \subseteq Agents /\ Range(order) = Agents /\ InOrder(order, graph)
      /\ graph' = graph
  BY DEF StartRun, Types, Ordered
<1>2. CASE graph.only = {}
  <2>1. order' = order
    BY <1>2 DEF StartRun
  <2>2. order # <<>>
    BY <1>1, ConstantsAssumption DEF Range
  <2> QED
    BY <1>1, <2>1, <2>2 DEF Ordered
<1>3. CASE graph.only # {}
  <2>1. order' = Among(order, Wanted)
    BY <1>3 DEF StartRun
  <2>2. InOrder(order', graph) /\ order' # <<>> /\ order' \in Seq(Agents)
    BY <1>1, <1>3, <2>1, InOrderAmong, OnlySome, AmongIs
  <2> QED
    BY <1>1, <2>2 DEF Ordered
<1> QED
  BY <1>2, <1>3

(* Steps that leave the order alone.                                       *)
LEMMA OrderedStep == Base /\ [Next]_vars => Ordered' /\ order' \in Seq(Agents)
<1> SUFFICES ASSUME Base, [Next]_vars PROVE Ordered' /\ order' \in Seq(Agents)
  OBVIOUS
<1>1. Types /\ Ordered
  BY DEF Base
<1>2. ASSUME UNCHANGED orderVars,
             \/ phase' = phase
             \/ phase' \in {"done", "killed"}
             \/ phase \notin {"ordering", "done", "killed"} /\ phase' # "ordering"
      PROVE  Ordered' /\ order' \in Seq(Agents)
  BY <1>1, <1>2 DEF Ordered, orderVars, Types
<1>3. CASE OrderLayer
  BY <1>1, <1>3, LayerOrdered
<1>4. CASE StartRun
  BY <1>1, <1>4, StartOrdered
<1>5. CASE OrderFails \/ StartFails
  BY <1>2, <1>5 DEF OrderFails, StartFails
<1>6. CASE TakeNext \/ Gather \/ Skip \/ GatherFails \/ StartAgent \/ AgentDone \/ AttemptFails
             \/ Retry \/ AgentFails
  <2>1. /\ UNCHANGED orderVars /\ phase \notin {"ordering", "done", "killed"}
        /\ phase' \in {"next", "gather", "deliver", "try", "backoff", "done"}
    BY ONLY <1>6 DEF TakeNext, Gather, Skip, GatherFails, StartAgent, AgentDone,
                     AttemptFails, Retry, AgentFails
  <2> QED
    BY <1>2, <2>1
<1>7. CASE EndRun \/ Killed
  <2>1. UNCHANGED orderVars /\ phase' \in {"done", "killed"}
    BY ONLY <1>7 DEF EndRun, Finish, Killed
  <2> QED
    BY <1>2, <2>1
<1>8. CASE Cancel \/ Deliver \/ UNCHANGED vars
  <2>1. UNCHANGED orderVars /\ phase' = phase
    BY ONLY <1>8 DEF Cancel, Deliver, vars
  <2> QED
    BY <1>2, <2>1
<1> QED
  BY <1>3, <1>4, <1>5, <1>6, <1>7, <1>8 DEF Next, Step, Done

(* The current agent, and the routes into it as they are reported.         *)
LEMMA CurrentIs ==
  ASSUME Types, phase \in Busy
  PROVE  /\ Current \in Agents /\ next \in DOMAIN order /\ next \in 1..Len(order)
         /\ DOMAIN order = 1..Len(order) /\ Len(order) \in Nat /\ order \in Seq(Agents)
BY LenProperties, ElementOfSeq DEF Types, Current

LEMMA RoutesAre ==
  ASSUME NEW n \in Agents, NEW fired
  PROVE  /\ Routes(n, fired) \in Seq(Report)
         /\ \A i \in DOMAIN Routes(n, fired) :
              Routes(n, fired)[i] \in {Event("fired", n), Event("blocked", n)}
<1>1. PICK s \in Seq(Agents) : s = Sorted(Inbound(n))
  <2>1. Inbound(n) \in SUBSET Agents
    BY DEF Inbound
  <2> QED
    BY <2>1, AgentsFinite, SortedIs, SeqMonotonic
<1>2. Len(s) \in Nat
  BY LenProperties
<1>3. PICK t : t = [i \in 1..Len(s) |-> Event(IF s[i] \in fired THEN "fired" ELSE "blocked", n)]
  OBVIOUS
<1>4. t = Routes(n, fired)
  BY ONLY <1>1, <1>3 DEF Routes
<1>5. \A i \in 1..Len(s) : t[i] \in {Event("fired", n), Event("blocked", n)}
  BY <1>3
<1>6. Event("fired", n) \in Report /\ Event("blocked", n) \in Report
  BY DEF Event, Report, Kinds
<1>7. t \in [1..Len(s) -> Report]
  BY <1>3, <1>5, <1>6
<1> QED
  BY <1>2, <1>3, <1>4, <1>5, <1>7, SeqDef

LEMMA WrittenIs ==
  ASSUME Bus, NEW m \in Message, NEW whole \in BOOLEAN
  PROVE  Written(m, whole) \in Seq(Seq(Entry)) /\ Written(m, whole) # <<>>
<1>1. Record(m, whole) \in Entry
  BY DEF Record, Entry
<1>2. log \in Seq(Seq(Entry)) /\ DOMAIN log = 1..Len(log) /\ Len(log) \in Nat
  BY LenProperties DEF Bus
<1>3. CASE ragged
  <2>1. Len(log) \in 1..Len(log)
    BY <1>2, <1>3, EmptySeq DEF Bus
  <2>2. PICK line \in Seq(Entry) : line = Append(log[Len(log)], Record(m, whole))
    BY <1>1, <1>2, <2>1, ElementOfSeq, AppendProperties
  <2>3. Written(m, whole) = [log EXCEPT ![Len(log)] = line]
    BY <1>2, <1>3, <2>1, <2>2 DEF Written
  <2>4. [log EXCEPT ![Len(log)] = line] \in Seq(Seq(Entry))
    BY <1>2, <2>1, ExceptSeq
  <2>5. DOMAIN [log EXCEPT ![Len(log)] = line] # {}
    BY <1>2, <2>1
  <2> QED
    BY <2>3, <2>4, <2>5, EmptySeq
<1>4. CASE ~ragged
  <2>1. <<Record(m, whole)>> \in Seq(Entry)
    BY <1>1
  <2> QED
    BY <1>2, <1>4, <2>1, AppendProperties, EmptySeq DEF Written
<1> QED
  BY <1>3, <1>4

LEMMA BusStep ==
  ASSUME Bus, Types, [Next]_vars
  PROVE  Bus'
<1>1. CASE UNCHANGED <<busVars, earlier>>
  BY <1>1 DEF Bus, busVars
<1>2. ASSUME queue # <<>>, UNCHANGED earlier, Publish(Head(queue)) \/ PublishCutShort(Head(queue))
      PROVE  Bus'
  <2>1. Head(queue) \in Message
    BY <1>2, HeadTailProperties DEF Types
  <2>2. CASE \E whole \in BOOLEAN : log' = Written(Head(queue), whole) /\ ragged' \in BOOLEAN
    <3>1. log' \in Seq(Seq(Entry)) /\ log' # <<>>
      BY <2>1, <2>2, WrittenIs
    <3> QED
      BY <1>2, <2>2, <3>1 DEF Bus
  <2> QED
    BY <1>1, <1>2, <2>2 DEF Publish, PublishCutShort
<1>3. CASE Deliver \/ Killed
  BY <1>1, <1>2, <1>3 DEF Deliver, Killed
<1>4. ASSUME \/ OrderLayer \/ OrderFails \/ StartRun \/ StartFails \/ TakeNext \/ Gather \/ Skip
             \/ GatherFails \/ StartAgent \/ AgentDone
      PROVE  UNCHANGED <<busVars, earlier>>
  BY <1>4 DEF OrderLayer, OrderFails, StartRun, StartFails, TakeNext, Gather, Skip, GatherFails,
              StartAgent, AgentDone
<1>5. ASSUME AttemptFails \/ Retry \/ AgentFails \/ EndRun \/ Cancel \/ UNCHANGED vars
      PROVE  UNCHANGED <<busVars, earlier>>
  BY <1>5 DEF AttemptFails, Retry, AgentFails, EndRun, Cancel, vars
<1> QED
  BY <1>1, <1>3, <1>4, <1>5 DEF Next, Step, Done

LEMMA TypesStep ==
  ASSUME Base, [Next]_vars
  PROVE  Types'
<1> USE DEF Phases, Busy
<1>1. Types /\ Ordered /\ order' \in Seq(Agents)
  BY OrderedStep DEF Base
<1>2. Len(order) \in Nat /\ Len(order') \in Nat
  BY <1>1, LenProperties DEF Types
<1>3. ASSUME NEW kind \in Kinds, NEW n \in Agents \cup {0}
      PROVE  Event(kind, n) \in Report
  BY <1>3 DEF Event, Report
<1>4. CASE OrderLayer
  BY <1>1, <1>2, <1>4 DEF OrderLayer, Types, agentVars
<1>5. CASE OrderFails \/ StartFails
  BY <1>1, <1>5 DEF OrderFails, StartFails, Types, agentVars, orderVars
<1>6. CASE StartRun
  <2>1. events' \in Seq(Report)
    <3>1. Event("start", 0) \in Report
      BY <1>3 DEF Kinds
    <3> QED
      BY <1>1, <1>6, <3>1, AppendProperties DEF StartRun, Emit, Types
  <2> QED
    BY <1>1, <1>2, <1>6, <2>1 DEF StartRun, Types, agentVars
<1>7. CASE TakeNext
  BY <1>1, <1>2, <1>7, ConstantsAssumption DEF TakeNext, Types, orderVars
<1>8. CASE Gather
  <2>1. Current \in Agents
    BY <1>1, <1>8, CurrentIs DEF Gather
  <2>2. PICK fired \in SUBSET CanFire(Current) :
          /\ queue' = [i \in 1..Cardinality(fired) |-> <<Sorted(fired)[i], Current>>]
          /\ events' = events \o Routes(Current, fired)
    BY <1>8 DEF Gather
  <2>3. fired \in SUBSET Agents
    BY <2>2 DEF CanFire, Inbound
  <2>4. /\ Sorted(fired) \in Seq(fired) /\ Cardinality(fired) \in Nat
        /\ DOMAIN Sorted(fired) = 1..Cardinality(fired)
    BY <2>3, AgentsFinite, SortedIs
  <2>5. \A i \in 1..Cardinality(fired) : Sorted(fired)[i] \in Agents
    BY <2>3, <2>4, ElementOfSeq
  <2>6. queue' \in Seq(Message)
    <3>1. queue' \in [1..Cardinality(fired) -> Message]
      BY <2>1, <2>2, <2>5 DEF Message, Edge
    <3> QED
      BY <2>4, <3>1, SeqDef
  <2>7. events' \in Seq(Report)
    BY <1>1, <2>1, <2>2, RoutesAre, ConcatProperties DEF Types
  <2> QED
    BY <1>1, <1>8, <2>6, <2>7 DEF Gather, Types, orderVars
<1>9. CASE Skip \/ GatherFails
  <2>1. Current \in Agents
    BY <1>1, <1>9, CurrentIs DEF Skip, GatherFails
  <2>2. PICK t \in Seq(Report) : t = events \o Routes(Current, {})
    BY <1>1, <2>1, RoutesAre, ConcatProperties DEF Types
  <2>3. Event("skipped", Current) \in Report /\ Event("run failed", 0) \in Report
    BY <1>3, <2>1 DEF Kinds
  <2>4. events' \in Seq(Report)
    <3>1. events' \in {Append(t, Event("skipped", Current)), Append(t, Event("run failed", 0))}
      BY <1>9, <2>2 DEF Skip, GatherFails
    <3>2. /\ Append(t, Event("skipped", Current)) \in Seq(Report)
          /\ Append(t, Event("run failed", 0)) \in Seq(Report)
      BY <2>2, <2>3, AppendProperties
    <3> QED
      BY <3>1, <3>2
  <2>5. outcome' \in [Agents -> Fates]
    BY <1>1, <1>9 DEF Skip, GatherFails, Types, Fates
  <2> QED
    BY <1>1, <1>9, <2>4, <2>5 DEF Skip, GatherFails, Types, orderVars
<1>10. CASE Deliver
  <2>1. Head(queue) \in Message /\ Tail(queue) \in Seq(Message)
    BY <1>1, <1>10, HeadTailProperties DEF Deliver, Types
  <2>2. messages' \in Seq(Message)
    BY <1>1, <1>10, <2>1, AppendProperties DEF Deliver, Types
  <2> QED
    BY <1>1, <1>10, <2>1, <2>2 DEF Deliver, Types, orderVars
<1>11. CASE StartAgent
  <2>1. Event("started", Current) \in Report
    BY <1>1, <1>3, <1>11, CurrentIs DEF StartAgent, Kinds
  <2>2. events' \in Seq(Report)
    <3>1. events' = Append(events, Event("started", Current))
      BY <1>11 DEF StartAgent, Emit
    <3> QED
      BY <1>1, <2>1, <3>1, AppendProperties DEF Types
  <2>3. /\ phase' = "try" /\ phase = "deliver" /\ tries' = tries
        /\ UNCHANGED <<orderVars, agentVars, cancelled, output>>
    BY <1>11 DEF StartAgent, agentVars
  <2> QED
    BY <1>1, <2>3, <2>2 DEF Types, orderVars, agentVars
<1>12. CASE AgentDone
  <2>1. Event("done", Current) \in Report
    BY <1>1, <1>3, <1>12, CurrentIs DEF AgentDone, Kinds
  <2>2. events' \in Seq(Report)
    BY <1>1, <1>12, <2>1, AppendProperties DEF AgentDone, Emit, Types
  <2>3. tries' \in 0..Restart + 1
    BY <1>1, <1>12, ConstantsAssumption DEF AgentDone, Types
  <2>4. outcome' \in [Agents -> Fates]
    BY <1>1, <1>12 DEF AgentDone, Types, Fates
  <2>5. phase' = "next" /\ UNCHANGED <<orderVars, next, queue, messages, cancelled, output>>
    BY ONLY <1>12 DEF AgentDone
  <2> QED
    BY <1>1, <2>2, <2>3, <2>4, <2>5 DEF Types, orderVars
<1>13. CASE AttemptFails \/ Retry
  <2>1. /\ UNCHANGED <<orderVars, next, outcome, queue, messages, cancelled, events, output>>
        /\ phase \in {"try", "backoff"} /\ phase' \in {"try", "backoff"}
        /\ tries' = tries \/ (tries < Restart /\ tries' = tries + 1)
    BY ONLY <1>13 DEF AttemptFails, Retry, agentVars
  <2>2. tries' \in 0..Restart + 1 /\ tries' <= Restart
    BY <1>1, <2>1, ConstantsAssumption DEF Types
  <2> QED
    BY <1>1, <2>1, <2>2 DEF Types, orderVars
<1>14. CASE AgentFails
  <2>1. Event("failed", Current) \in Report /\ Event("run failed", 0) \in Report
    BY <1>1, <1>3, <1>14, CurrentIs DEF AgentFails, Kinds
  <2>2. events' \in Seq(Report)
    <3>1. PICK a \in Report, b \in Report : a = Event("failed", Current) /\ b = Event("run failed", 0)
      BY <2>1
    <3>2. <<a, b>> \in Seq(Report)
      OBVIOUS
    <3>3. events' = events \o <<a, b>>
      BY <1>14, <3>1 DEF AgentFails
    <3> QED
      BY <1>1, <3>2, <3>3, ConcatProperties DEF Types
  <2>3. tries' \in 0..Restart + 1
    <3>1. tries' = tries \/ (phase = "try" /\ tries' = tries + 1)
      BY ONLY <1>14 DEF AgentFails
    <3>2. tries \in 0..Restart + 1 /\ (phase = "try" => tries <= Restart)
      BY <1>1 DEF Types
    <3> QED
      BY ONLY <3>1, <3>2, ConstantsAssumption
  <2>4. outcome' \in [Agents -> Fates]
    BY <1>1, <1>14 DEF AgentFails, Types, Fates
  <2>5. phase' = "done" /\ UNCHANGED <<orderVars, next, queue, messages, cancelled, output>>
    BY <1>14 DEF AgentFails
  <2> QED
    BY <1>1, <2>2, <2>3, <2>4, <2>5 DEF Types, orderVars
<1>15. CASE EndRun
  <2>1. output' \subseteq Agents
    BY <1>15 DEF EndRun, FinalOutput, Produced
  <2>2. events' \in Seq(Report)
    <3>1. Event("run ok", 0) \in Report
      BY <1>3 DEF Kinds
    <3> QED
      BY <1>1, <1>15, <3>1, AppendProperties DEF EndRun, Finish, Types
  <2> QED
    BY <1>1, <1>15, <2>1, <2>2 DEF EndRun, Finish, Types, orderVars, agentVars
<1>16. CASE Cancel
  BY <1>1, <1>16 DEF Cancel, Types, orderVars, agentVars
<1>17. CASE Killed
  <2>1. phase' = "killed" /\ UNCHANGED <<orderVars, agentVars, cancelled, events, output>>
    BY <1>17 DEF Killed
  <2> QED
    BY <1>1, <2>1 DEF Types, orderVars, agentVars
<1>18. CASE UNCHANGED vars
  BY <1>1, <1>18 DEF vars, Types, orderVars, agentVars
<1> QED
  BY <1>4, <1>5, <1>6, <1>7, <1>8, <1>9, <1>10, <1>11, <1>12, <1>13, <1>14, <1>15, <1>16,
     <1>17, <1>18 DEF Next, Step, Done

LEMMA InitBase == Init => Base
<1> SUFFICES ASSUME Init PROVE Base
  OBVIOUS
<1>1. Types
  <2>1. /\ graph \in Graphs /\ phase = "ordering" /\ remaining = Agents /\ order = <<>> /\ next = 0
        /\ outcome = [n \in Agents |-> "none"] /\ queue = <<>> /\ messages = <<>> /\ tries = 0
        /\ cancelled = FALSE /\ events = <<>> /\ output = {}
    BY DEF Init
  <2>2. /\ next \in 0..Len(order) /\ tries \in 0..Restart + 1
    BY <2>1, ConstantsAssumption
  <2>3. order \in Seq(Agents) /\ queue \in Seq(Message) /\ messages \in Seq(Message) /\ events \in Seq(Report)
    BY <2>1
  <2>4. outcome \in [Agents -> Fates]
    BY <2>1 DEF Fates
  <2> QED
    BY <2>1, <2>2, <2>3, <2>4 DEF Types, Phases, Busy
<1>2. Ordered
  BY DEF Init, Ordered, InOrder, IsInjective, Range
<1>3. Bus
  BY LogsAssumption DEF Init, Bus
<1> QED
  BY <1>1, <1>2, <1>3 DEF Base

LEMMA InvarianceBase == Spec => []Base
<1>1. Base /\ [Next]_vars => Base'
  <2> SUFFICES ASSUME Base, [Next]_vars PROVE Base'
    OBVIOUS
  <2>1. Types' /\ Ordered' /\ Bus'
    BY TypesStep, OrderedStep, BusStep DEF Base
  <2> QED
    BY <2>1 DEF Base
<1> QED
  BY <1>1, InitBase, PTL DEF Spec

(* The state of a run is what its variables' declarations say: lines of    *)
(* whole and torn records, an order over agents, an outcome of each agent, *)
(* and no more executions of one than its restarts allow.                  *)
THEOREM TypeCorrect == Spec => []TypeOK
<1>1. Base => TypeOK
  BY DEF Base, Types, Bus, TypeOK, Phases, Fates, Report
<1> QED
  BY <1>1, InvarianceBase, PTL

-----------------------------------------------------------------------------
(* What became of the agents taken up.                                     *)

(* Steps that neither take an agent up nor say what became of one.         *)
LEMMA Quiet ==
  ASSUME [Next]_vars,
         ~OrderLayer, ~StartRun, ~TakeNext, ~Skip, ~GatherFails, ~AgentDone, ~AgentFails
  PROVE  /\ UNCHANGED <<orderVars, next, outcome>>
         /\ \/ phase' = phase
            \/ phase' \in {"done", "killed"}
            \/ phase \in Busy /\ phase' \in Busy
<1>1. CASE OrderFails \/ StartFails \/ Gather \/ Deliver \/ StartAgent
  BY ONLY <1>1 DEF OrderFails, StartFails, Gather, Deliver, StartAgent, agentVars, Busy
<1>2. CASE AttemptFails \/ Retry \/ EndRun \/ Cancel \/ Killed \/ UNCHANGED vars
  BY ONLY <1>2 DEF AttemptFails, Retry, EndRun, Finish, Cancel, Killed, agentVars, Busy, vars
<1> QED
  BY <1>1, <1>2 DEF Next, Step, Done

(* Steps that say what became of the current agent.                        *)
LEMMA Loud ==
  ASSUME Base, Skip \/ GatherFails \/ AgentDone \/ AgentFails
  PROVE  /\ phase \in Busy /\ UNCHANGED <<orderVars, next>>
         /\ \E fate \in {"done", "skipped", "failed"} :
              /\ outcome' = [outcome EXCEPT ![Current] = fate]
              /\ fate = "failed" <=> GatherFails \/ AgentFails
              /\ fate = "skipped" <=> Skip
              /\ phase' = IF fate = "failed" THEN "done" ELSE "next"
<1>0. Types
  BY DEF Base
<1>1. ASSUME Skip
      PROVE  /\ phase = "gather" /\ UNCHANGED <<orderVars, next>>
             /\ outcome' = [outcome EXCEPT ![Current] = "skipped"] /\ phase' = "next"
  BY <1>1 DEF Skip
<1>2. ASSUME GatherFails
      PROVE  /\ phase = "gather" /\ UNCHANGED <<orderVars, next>>
             /\ outcome' = [outcome EXCEPT ![Current] = "failed"] /\ phase' = "done"
  BY <1>2 DEF GatherFails
<1>3. ASSUME AgentDone
      PROVE  /\ phase = "try" /\ UNCHANGED <<orderVars, next>>
             /\ outcome' = [outcome EXCEPT ![Current] = "done"] /\ phase' = "next"
  BY <1>3 DEF AgentDone
<1>4. ASSUME AgentFails
      PROVE  /\ phase \in {"try", "backoff"} /\ UNCHANGED <<orderVars, next>>
             /\ outcome' = [outcome EXCEPT ![Current] = "failed"] /\ phase' = "done"
  BY <1>4 DEF AgentFails
<1> QED
  BY <1>1, <1>2, <1>3, <1>4 DEF Busy

LEMMA SettledStep ==
  ASSUME Base, Settled, [Next]_vars
  PROVE  Settled'
<1> USE DEF Busy
<1>1. /\ Types /\ Ordered /\ order \in Seq(Agents)
      /\ DOMAIN order = 1..Len(order) /\ Len(order) \in Nat /\ next \in 0..Len(order)
      /\ \A i \in DOMAIN order : order[i] \in Agents
  BY LenProperties, ElementOfSeq DEF Base, Types
<1>2. CASE OrderLayer \/ StartRun
  <2>1. next = 0 /\ next' = next /\ outcome' = outcome /\ phase' \notin Busy
    BY <1>1, <1>2 DEF OrderLayer, StartRun, agentVars, Types
  <2>2. \A n \in Agents : outcome[n] = "none"
    BY <1>1, <2>1 DEF Settled, TakenUp
  <2> QED
    BY <2>1, <2>2 DEF Settled, TakenUp
<1>3. CASE TakeNext
  <2>1. /\ phase = "next" /\ phase' = "gather" /\ next' = next + 1 /\ next < Len(order)
        /\ UNCHANGED <<orderVars, outcome>>
    BY <1>3 DEF TakeNext
  <2>2. PICK n \in Agents : n = order[next + 1]
    BY <1>1, <2>1
  <2>3. outcome[n] = "none"
    <3> SUFFICES ASSUME outcome[n] # "none" PROVE FALSE
      OBVIOUS
    <3>1. PICK i \in 1..next : order[i] = n
      BY DEF Settled, TakenUp
    <3>2. i \in DOMAIN order /\ next + 1 \in DOMAIN order /\ i # next + 1
      BY <1>1, <2>1
    <3> QED
      BY <1>1, <2>2, <3>1, <3>2 DEF Ordered, InOrder, IsInjective
  <2>4. \A i \in 1..next' : i < next' => i \in 1..next
    BY <1>1, <2>1
  <2>5. order[next'] = n /\ order' = order /\ 1..next \subseteq 1..next'
    BY <1>1, <2>1, <2>2 DEF orderVars
  <2> QED
    BY <2>1, <2>3, <2>4, <2>5 DEF Settled, TakenUp, Current, Inbound, orderVars
<1>4. CASE Skip \/ GatherFails \/ AgentDone \/ AgentFails
  <2>1. PICK fate \in {"done", "skipped", "failed"} :
          /\ outcome' = [outcome EXCEPT ![Current] = fate]
          /\ fate = "skipped" <=> Skip
          /\ phase' = IF fate = "failed" THEN "done" ELSE "next"
    BY <1>4, Loud
  <2>2. phase \in Busy /\ order' = order /\ graph' = graph /\ next' = next
    BY <1>4, Loud DEF orderVars
  <2>3. PICK n \in Agents : n = Current /\ n = order[next] /\ next \in 1..next
    BY <1>1, <2>2, CurrentIs DEF Current
  <2>4. outcome \in [Agents -> Fates] /\ outcome' = [outcome EXCEPT ![n] = fate]
    BY <1>1, <2>1, <2>3 DEF Types
  <2>5. \A m \in Agents : outcome'[m] = IF m = n THEN fate ELSE outcome[m]
    BY <2>4
  <2>6. \A m \in Agents : outcome'[m] # "none" => TakenUp(m)'
    BY <2>2, <2>3, <2>5 DEF Settled, TakenUp
  <2>7. \A i \in 1..next : i < next \/ phase' = "next" => outcome'[order[i]] \in {"done", "skipped"}
    <3> SUFFICES ASSUME NEW i \in 1..next, i < next \/ phase' = "next"
                 PROVE  outcome'[order[i]] \in {"done", "skipped"}
      OBVIOUS
    <3>1. i \in DOMAIN order /\ order[i] \in Agents /\ next \in DOMAIN order
      BY <1>1, <2>3
    <3>2. CASE i < next
      <4>1. order[i] # n
        BY <1>1, <2>3, <3>1, <3>2 DEF Ordered, InOrder, IsInjective
      <4> QED
        BY <2>5, <3>1, <3>2, <4>1 DEF Settled
    <3>3. CASE i = next
      BY <2>1, <2>3, <2>5, <3>1, <3>3
    <3> QED
      BY <1>1, <3>2, <3>3
  <2>8. phase' \notin Busy
    BY <2>1
  <2>9. \A m \in Agents : outcome'[m] = "skipped" => Inbound(m)' # {}
    <3>1. Skip => Inbound(n) # {}
      BY <2>3 DEF Skip
    <3>2. \A m \in Agents : Inbound(m)' = Inbound(m)
      BY <2>2 DEF Inbound
    <3> QED
      BY <2>1, <2>5, <3>1, <3>2 DEF Settled
  <2> QED
    BY <2>2, <2>6, <2>7, <2>8, <2>9 DEF Settled
<1>5. CASE ~(OrderLayer \/ StartRun \/ TakeNext \/ Skip \/ GatherFails \/ AgentDone \/ AgentFails)
  <2>1. /\ order' = order /\ graph' = graph /\ next' = next /\ outcome' = outcome
        /\ phase' = phase \/ phase' \in {"done", "killed"} \/ (phase \in Busy /\ phase' \in Busy)
    BY <1>5, Quiet DEF orderVars
  <2> QED
    BY <2>1 DEF Settled, TakenUp, Current, Inbound
<1> QED
  BY <1>2, <1>3, <1>4, <1>5

LEMMA InvarianceSettled == Spec => [](Base /\ Settled)
<1>1. Init => Base /\ Settled
  BY InitBase DEF Init, Settled, TakenUp, Busy
<1>2. Base /\ Settled /\ [Next]_vars => (Base /\ Settled)'
  <2>1. Base /\ [Next]_vars => Base'
    BY TypesStep, OrderedStep, BusStep DEF Base
  <2> QED
    BY <2>1, SettledStep
<1> QED
  BY <1>1, <1>2, PTL DEF Spec

(* No agent is taken up before every agent it depends on or is routed from *)
(* has run or was skipped: the order, and what --only leaves of it, names  *)
(* an agent once and after those.                                          *)
THEOREM UpstreamFirst == Spec => []DependenciesFirst
<1>1. Base /\ Settled => DependenciesFirst
  <2> SUFFICES ASSUME Base, Settled, NEW n \in Agents, TakenUp(n), NEW m \in Edges(n)
               PROVE  outcome[m] \in {"done", "skipped"}
    BY DEF DependenciesFirst
  <2>1. PICK i \in 1..next : order[i] = n
    BY DEF TakenUp
  <2>2. next \in 0..Len(order) /\ DOMAIN order = 1..Len(order) /\ Len(order) \in Nat
    BY LenProperties DEF Base, Types
  <2>3. PICK j \in DOMAIN order : j < i /\ order[j] = m
    BY <2>1, <2>2 DEF Base, Ordered, InOrder, Edges
  <2>4. j \in 1..next /\ j < next
    BY <2>1, <2>2, <2>3
  <2> QED
    BY <2>3, <2>4 DEF Settled
<1> QED
  BY <1>1, InvarianceSettled, PTL

-----------------------------------------------------------------------------
(* What is reported and delivered.                                         *)
LEMMA SaidAppend ==
  ASSUME NEW S, NEW s \in Seq(S), NEW d \in S, NEW e
  PROVE  Said(Append(s, d), e) <=> Said(s, e) \/ d = e
<1>1. PICK t : t = Append(s, d)
  OBVIOUS
<1>2. /\ Len(t) = Len(s) + 1 /\ Len(s) \in Nat /\ t[Len(s) + 1] = d
      /\ \A i \in 1..Len(s) : t[i] = s[i]
  BY <1>1, AppendProperties, LenProperties
<1>3. \A i \in 1..Len(s) : i \in 1..Len(t) /\ i # Len(s) + 1
  BY <1>2
<1>4. Len(s) + 1 \in 1..Len(t) /\ \A i \in 1..Len(t) : i \in 1..Len(s) \/ i = Len(s) + 1
  BY <1>2
<1> QED
  BY <1>1, <1>2, <1>3, <1>4 DEF Said

LEMMA SaidConcat ==
  ASSUME NEW S, NEW s \in Seq(S), NEW r \in Seq(S), NEW e
  PROVE  Said(s \o r, e) <=> Said(s, e) \/ Said(r, e)
<1>1. PICK t : t = s \o r
  OBVIOUS
<1>2. /\ Len(t) = Len(s) + Len(r) /\ Len(s) \in Nat /\ Len(r) \in Nat
      /\ \A i \in 1..Len(s) + Len(r) : t[i] = IF i <= Len(s) THEN s[i] ELSE r[i - Len(s)]
  BY <1>1, ConcatProperties, LenProperties
<1>3. \A i \in 1..Len(s) : i \in 1..Len(t) /\ t[i] = s[i]
  BY <1>2
<1>4. \A i \in 1..Len(r) : i + Len(s) \in 1..Len(t) /\ t[i + Len(s)] = r[i]
  <2> SUFFICES ASSUME NEW i \in 1..Len(r)
               PROVE  i + Len(s) \in 1..Len(t) /\ t[i + Len(s)] = r[i]
    OBVIOUS
  <2>1. i + Len(s) \in 1..Len(s) + Len(r) /\ ~(i + Len(s) <= Len(s)) /\ (i + Len(s)) - Len(s) = i
    BY <1>2
  <2> QED
    BY <1>2, <2>1
<1>5. \A i \in 1..Len(t) : \/ i \in 1..Len(s) /\ t[i] = s[i]
                           \/ i - Len(s) \in 1..Len(r) /\ t[i] = r[i - Len(s)]
  BY <1>2
<1>6. Said(t, e) => Said(s, e) \/ Said(r, e)
  BY ONLY <1>5 DEF Said
<1>7. Said(s, e) => Said(t, e)
  BY ONLY <1>3 DEF Said
<1>8. Said(r, e) => Said(t, e)
  BY ONLY <1>4 DEF Said
<1> QED
  BY ONLY <1>1, <1>6, <1>7, <1>8

(* Reports about agents and the run's end, by the step that makes them.    *)
LEMMA NewReports ==
  ASSUME Base, [Next]_vars, NEW e \in Report, e.kind \notin {"start", "fired", "blocked"}
  PROVE  Said(events', e) <=>
           \/ Said(events, e)
           \/ Skip /\ e = Event("skipped", Current)
           \/ StartAgent /\ e = Event("started", Current)
           \/ AgentDone /\ e = Event("done", Current)
           \/ AgentFails /\ e = Event("failed", Current)
           \/ (GatherFails \/ AgentFails) /\ e = Event("run failed", 0)
           \/ EndRun /\ e = Event("run ok", 0)
<1>0. Types /\ events \in Seq(Report)
  BY DEF Base, Types
<1>a. ASSUME NEW kind \in Kinds, NEW n \in Agents \cup {0}
      PROVE  Event(kind, n) \in Report /\ Event(kind, n).kind = kind
  BY <1>a DEF Event, Report
<1>b. ASSUME phase \in Busy, NEW fired
      PROVE  /\ events \o Routes(Current, fired) \in Seq(Report)
             /\ Said(events \o Routes(Current, fired), e) <=> Said(events, e)
  <2>1. PICK r \in Seq(Report) :
          /\ r = Routes(Current, fired)
          /\ \A i \in DOMAIN r : r[i] \in {Event("fired", Current), Event("blocked", Current)}
    BY <1>0, <1>b, CurrentIs, RoutesAre
  <2>2. DOMAIN r = 1..Len(r)
    BY LenProperties
  <2>3. Event("fired", Current).kind = "fired" /\ Event("blocked", Current).kind = "blocked"
    BY DEF Event
  <2>4. ~Said(r, e)
    BY <2>1, <2>2, <2>3 DEF Said
  <2>5. events \o r \in Seq(Report) /\ (Said(events \o r, e) <=> Said(events, e))
    BY <1>0, <2>4, SaidConcat, ConcatProperties
  <2> QED
    BY <2>1, <2>5
<1>1. Skip => (Said(events', e) <=> Said(events, e) \/ e = Event("skipped", Current))
  <2> SUFFICES ASSUME Skip PROVE Said(events', e) <=> Said(events, e) \/ e = Event("skipped", Current)
    OBVIOUS
  <2>1. phase \in Busy /\ events' = Append(events \o Routes(Current, {}), Event("skipped", Current))
    BY DEF Skip, Busy
  <2>2. Event("skipped", Current) \in Report
    BY <1>0, <1>a, <2>1, CurrentIs DEF Kinds
  <2>3. PICK t \in Seq(Report) : t = events \o Routes(Current, {}) /\ (Said(t, e) <=> Said(events, e))
    BY <1>b, <2>1
  <2>4. PICK d \in Report : d = Event("skipped", Current)
    BY <2>2
  <2>5. Said(Append(t, d), e) <=> Said(t, e) \/ d = e
    BY SaidAppend
  <2> QED
    BY <2>1, <2>3, <2>4, <2>5
<1>2. GatherFails => (Said(events', e) <=> Said(events, e) \/ e = Event("run failed", 0))
  <2> SUFFICES ASSUME GatherFails PROVE Said(events', e) <=> Said(events, e) \/ e = Event("run failed", 0)
    OBVIOUS
  <2>1. phase \in Busy /\ events' = Append(events \o Routes(Current, {}), Event("run failed", 0))
    BY DEF GatherFails, Busy
  <2>2. Event("run failed", 0) \in Report
    BY <1>a DEF Kinds
  <2>3. PICK t \in Seq(Report) : t = events \o Routes(Current, {}) /\ (Said(t, e) <=> Said(events, e))
    BY <1>b, <2>1
  <2>4. PICK d \in Report : d = Event("run failed", 0)
    BY <2>2
  <2>5. Said(Append(t, d), e) <=> Said(t, e) \/ d = e
    BY SaidAppend
  <2> QED
    BY <2>1, <2>3, <2>4, <2>5
<1>3. StartAgent => (Said(events', e) <=> Said(events, e) \/ e = Event("started", Current))
  <2> SUFFICES ASSUME StartAgent PROVE Said(events', e) <=> Said(events, e) \/ e = Event("started", Current)
    OBVIOUS
  <2>1. phase \in Busy /\ events' = Append(events, Event("started", Current))
    BY DEF StartAgent, Emit, Busy
  <2>2. Event("started", Current) \in Report
    BY <1>0, <1>a, <2>1, CurrentIs DEF Kinds
  <2> QED
    BY <1>0, <2>1, <2>2, SaidAppend
<1>4. AgentDone => (Said(events', e) <=> Said(events, e) \/ e = Event("done", Current))
  <2> SUFFICES ASSUME AgentDone PROVE Said(events', e) <=> Said(events, e) \/ e = Event("done", Current)
    OBVIOUS
  <2>1. phase \in Busy /\ events' = Append(events, Event("done", Current))
    BY DEF AgentDone, Emit, Busy
  <2>2. Event("done", Current) \in Report
    BY <1>0, <1>a, <2>1, CurrentIs DEF Kinds
  <2> QED
    BY <1>0, <2>1, <2>2, SaidAppend
<1>5. AgentFails => (Said(events', e) <=> Said(events, e) \/ e \in {Event("failed", Current), Event("run failed", 0)})
  <2> SUFFICES ASSUME AgentFails
               PROVE  Said(events', e) <=> Said(events, e) \/ e \in {Event("failed", Current), Event("run failed", 0)}
    OBVIOUS
  <2>1. phase \in Busy /\ events' = events \o <<Event("failed", Current), Event("run failed", 0)>>
    BY DEF AgentFails, Busy
  <2>2. PICK a \in Report, b \in Report : a = Event("failed", Current) /\ b = Event("run failed", 0)
    BY <1>0, <1>a, <2>1, CurrentIs DEF Kinds
  <2>3. <<a, b>> \in Seq(Report) /\ (Said(<<a, b>>, e) <=> e \in {a, b})
    BY DEF Said
  <2>4. Said(events \o <<a, b>>, e) <=> Said(events, e) \/ e \in {a, b}
    BY <1>0, <2>3, SaidConcat
  <2> QED
    BY <2>1, <2>2, <2>4
<1>6. EndRun => (Said(events', e) <=> Said(events, e) \/ e = Event("run ok", 0))
  <2> SUFFICES ASSUME EndRun PROVE Said(events', e) <=> Said(events, e) \/ e = Event("run ok", 0)
    OBVIOUS
  <2>1. events' = Append(events, Event("run ok", 0)) /\ Event("run ok", 0) \in Report
    BY <1>a DEF EndRun, Finish, Kinds
  <2>2. PICK d \in Report : d = Event("run ok", 0)
    BY <2>1
  <2>3. Said(Append(events, d), e) <=> Said(events, e) \/ d = e
    BY <1>0, SaidAppend
  <2> QED
    BY <2>1, <2>2, <2>3
<1>7. CASE Gather
  BY <1>1, <1>2, <1>3, <1>4, <1>5, <1>6, <1>7, <1>b DEF Gather, Busy
<1>8. CASE StartRun
  <2>0. Event("start", 0) \in Report /\ Event("start", 0).kind = "start"
    BY <1>a DEF Kinds
  <2>1. events' = Append(events, Event("start", 0)) /\ e # Event("start", 0)
    BY <1>8, <2>0 DEF StartRun, Emit
  <2>2. Said(events', e) <=> Said(events, e)
    BY <1>0, <2>0, <2>1, SaidAppend
  <2> QED
    BY <1>1, <1>2, <1>3, <1>4, <1>5, <1>6, <2>2
<1>9. CASE ~(Gather \/ StartRun \/ Skip \/ GatherFails \/ StartAgent \/ AgentDone \/ AgentFails \/ EndRun)
  <2>1. CASE OrderLayer \/ OrderFails \/ StartFails \/ TakeNext \/ Deliver \/ AttemptFails
    BY <1>9, <2>1 DEF OrderLayer, OrderFails, StartFails, TakeNext, Deliver, AttemptFails
  <2>2. CASE Retry \/ Cancel \/ Killed \/ UNCHANGED vars
    BY <1>9, <2>2 DEF Retry, Cancel, Killed, vars
  <2> QED
    BY <1>9, <2>1, <2>2 DEF Next, Step, Done
<1> QED
  BY <1>1, <1>2, <1>3, <1>4, <1>5, <1>6, <1>7, <1>8, <1>9

LEMMA DoneStays ==
  ASSUME Base, Settled, [Next]_vars
  PROVE  graph' = graph /\ \A n \in Agents : outcome[n] = "done" => outcome'[n] = "done"
<1>1. CASE OrderLayer \/ StartRun \/ TakeNext
  BY <1>1 DEF OrderLayer, StartRun, TakeNext, agentVars, orderVars
<1>2. CASE Skip \/ GatherFails \/ AgentDone \/ AgentFails
  <2>1. PICK fate : outcome' = [outcome EXCEPT ![Current] = fate]
    BY <1>2, Loud
  <2>2. phase \in Busy /\ graph' = graph /\ outcome[Current] = "none"
    BY <1>2, Loud DEF orderVars, Settled
  <2> QED
    BY <2>1, <2>2 DEF Base, Types
<1>3. CASE ~(OrderLayer \/ StartRun \/ TakeNext \/ Skip \/ GatherFails \/ AgentDone \/ AgentFails)
  BY <1>3, Quiet DEF orderVars
<1> QED
  BY <1>1, <1>2, <1>3

LEMMA MessagesStep ==
  ASSUME Base, [Next]_vars
  PROVE  \A x : Said(messages', x) <=> Said(messages, x) \/ (Deliver /\ x = Head(queue))
<1>1. ASSUME Deliver
      PROVE  \A x : Said(messages', x) <=> Said(messages, x) \/ x = Head(queue)
  <2>1. messages \in Seq(Message) /\ Head(queue) \in Message /\ messages' = Append(messages, Head(queue))
    BY <1>1, HeadTailProperties DEF Deliver, Base, Types
  <2>2. PICK d \in Message : d = Head(queue)
    BY <2>1
  <2>3. \A x : Said(Append(messages, d), x) <=> Said(messages, x) \/ d = x
    BY <2>1, SaidAppend
  <2> QED
    BY <2>1, <2>2, <2>3
<1>2. CASE ~Deliver
  <2>1. CASE \/ OrderLayer \/ OrderFails \/ StartRun \/ StartFails \/ TakeNext
             \/ Gather \/ Skip \/ GatherFails \/ StartAgent
    BY <1>2, <2>1 DEF OrderLayer, OrderFails, StartRun, StartFails, TakeNext, Gather, Skip,
                      GatherFails, StartAgent, agentVars
  <2>2. CASE \/ AgentDone \/ AttemptFails \/ Retry \/ AgentFails \/ EndRun \/ Cancel \/ Killed
             \/ UNCHANGED vars
    BY <1>2, <2>2 DEF AgentDone, AttemptFails, Retry, AgentFails, EndRun, Cancel, Killed,
                      agentVars, vars
  <2> QED
    BY <1>2, <2>1, <2>2 DEF Next, Step, Done
<1> QED
  BY <1>1, <1>2

(* While a message is delivered, those that wait are from agents that ran. *)
LEMMA UpstreamStep ==
  ASSUME Base, Settled, Upstream, [Next]_vars
  PROVE  Upstream'
<1>1. /\ Types /\ queue \in Seq(Message) /\ DOMAIN queue = 1..Len(queue) /\ Len(queue) \in Nat
      /\ graph' = graph /\ \A n \in Agents : Inbound(n)' = Inbound(n) /\ Inbound(n) \subseteq Agents
  BY DoneStays, LenProperties DEF Base, Types, Inbound
<1>2. \A m, n \in Agents : m \in CanFire(n) => m \in CanFire(n)'
  <2>1. \A m \in Agents : outcome[m] = "done" => outcome'[m] = "done"
    BY DoneStays
  <2> QED
    BY <1>1, <2>1 DEF CanFire
<1>3. ASSUME phase = "deliver", queue # <<>>
      PROVE  /\ Head(queue) = <<queue[1][1], Current>> /\ 1 \in DOMAIN queue
             /\ queue[1][1] \in CanFire(Current) /\ Head(queue) \in Message /\ Current \in Agents
             /\ queue[1][1] \in Agents
  <2>1. Head(queue) = queue[1] /\ 1 \in DOMAIN queue /\ queue[1] \in Message
    BY <1>1, <1>3, EmptySeq, HeadTailProperties
  <2>2. Current \in Agents
    BY <1>1, <1>3, CurrentIs DEF Busy
  <2>3. queue[1][2] = Current /\ queue[1][1] \in CanFire(Current)
    BY <1>3, <2>1, <2>2 DEF Upstream, Fed
  <2> QED
    BY <2>1, <2>2, <2>3 DEF Message, Edge
<1>4. ASSUME NEW x \in Message, Said(messages', x)
      PROVE  x \in graph'.routes /\ outcome'[x[1]] = "done"
  <2>1. x \in graph.routes /\ outcome[x[1]] = "done"
    <3>1. CASE Said(messages, x)
      BY <3>1 DEF Upstream
    <3>2. CASE Deliver /\ x = Head(queue)
      <4>1. PICK m \in Agents, n \in Agents : x = <<m, n>> /\ m \in CanFire(n)
        BY <1>3, <3>2 DEF Deliver
      <4> QED
        BY <4>1 DEF CanFire, Inbound
    <3> QED
      BY <1>4, <3>1, <3>2, MessagesStep
  <2> QED
    BY <1>1, <2>1, DoneStays DEF Message, Edge
<1>5. \A x : Said(messages, x) => Said(messages', x)
  BY MessagesStep
<1>6. ASSUME NEW n \in Agents, Inbound(n) # {}, Said(events', Event("started", n))
      PROVE  \E m \in Inbound(n) : Said(messages', <<m, n>>)
  <2>1. Event("started", n) \in Report /\ Event("started", n).kind = "started"
    BY DEF Event, Report, Kinds
  <2>2. \/ Said(events, Event("started", n))
        \/ StartAgent /\ n = Current
    BY <1>6, <2>1, NewReports DEF Event
  <2>3. CASE Said(events, Event("started", n))
    BY <1>5, <1>6, <2>3 DEF Upstream
  <2>4. CASE StartAgent /\ n = Current
    BY <1>5, <1>6, <2>4 DEF Upstream, Fed, StartAgent
  <2> QED
    BY <2>2, <2>3, <2>4
<1>7. ASSUME phase' = "deliver", NEW n \in Agents, n = Current' PROVE Fed(n)'
  <2>1. CASE Gather
    <3>1. n = Current
      BY <1>7, <2>1 DEF Gather, Current, orderVars
    <3>2. PICK fired \in SUBSET CanFire(n) :
            /\ fired # {} \/ Inbound(n) = {}
            /\ queue' = [i \in 1..Cardinality(fired) |-> <<Sorted(fired)[i], n>>]
      BY <2>1, <3>1 DEF Gather
    <3>3. fired \in SUBSET Agents
      BY DEF CanFire, Inbound
    <3>4. /\ Sorted(fired) \in Seq(fired) /\ Cardinality(fired) \in Nat
          /\ DOMAIN Sorted(fired) = 1..Cardinality(fired) /\ Range(Sorted(fired)) = fired
      BY <3>3, AgentsFinite, SortedIs
    <3>5. \A i \in 1..Cardinality(fired) : Sorted(fired)[i] \in CanFire(n)
      BY <3>2, <3>4, ElementOfSeq
    <3>6. \A i \in DOMAIN queue' : queue'[i][2] = n /\ queue'[i][1] \in CanFire(n)'
      <4>1. \A i \in DOMAIN queue' : queue'[i][2] = n /\ queue'[i][1] \in CanFire(n)
        BY <3>2, <3>5
      <4>2. CanFire(n) \subseteq Agents
        BY DEF CanFire, Inbound
      <4> QED
        BY <1>2, <4>1, <4>2
    <3>7. Inbound(n)' # {} => queue' # <<>>
      <4> SUFFICES ASSUME Inbound(n) # {} PROVE queue' # <<>>
        BY <1>1
      <4>1. PICK m \in fired : TRUE
        BY <3>2
      <4>2. PICK i \in 1..Cardinality(fired) : Sorted(fired)[i] = m
        BY <3>4 DEF Range
      <4>3. i \in DOMAIN queue'
        BY <3>2
      <4> QED
        BY <4>3, EmptySeq
    <3> QED
      BY <3>6, <3>7 DEF Fed
  <2>2. CASE Deliver
    <3>1. /\ phase = "deliver" /\ queue # <<>> /\ queue' = Tail(queue) /\ UNCHANGED <<orderVars, next>>
      BY <2>2 DEF Deliver
    <3>2. n = Current
      BY <1>7, <3>1 DEF Current, orderVars
    <3>3. /\ queue' \in Seq(Message) /\ Len(queue') = Len(queue) - 1
          /\ \A i \in 1..Len(queue') : queue'[i] = queue[i + 1]
      BY <1>1, <3>1, HeadTailProperties
    <3>4. \A i \in DOMAIN queue' : queue'[i][2] = n /\ queue'[i][1] \in CanFire(n)'
      <4> SUFFICES ASSUME NEW i \in DOMAIN queue' PROVE queue'[i][2] = n /\ queue'[i][1] \in CanFire(n)'
        OBVIOUS
      <4>1. i \in 1..Len(queue') /\ i + 1 \in DOMAIN queue /\ queue'[i] = queue[i + 1]
        BY <1>1, <3>3, LenProperties
      <4>2. queue'[i][2] = n /\ queue'[i][1] \in CanFire(n)
        BY <3>1, <3>2, <4>1 DEF Upstream, Fed
      <4>3. CanFire(n) \subseteq Agents
        BY DEF CanFire, Inbound
      <4> QED
        BY <1>2, <4>2, <4>3
    <3>5. \E m \in Inbound(n) : Said(messages', <<m, n>>)
      <4>1. Head(queue) = <<queue[1][1], n>> /\ queue[1][1] \in CanFire(n)
        BY <1>3, <3>1, <3>2
      <4>2. queue[1][1] \in Inbound(n)
        BY <4>1 DEF CanFire
      <4>3. Said(messages', Head(queue))
        BY <2>2, MessagesStep
      <4> QED
        BY <4>1, <4>2, <4>3
    <3> QED
      BY <1>1, <3>4, <3>5 DEF Fed
  <2>3. CASE Cancel \/ UNCHANGED vars
    <3>1. UNCHANGED <<phase, orderVars, agentVars>>
      BY <2>3 DEF Cancel, vars
    <3>2. n = Current
      BY <1>7, <3>1 DEF Current, orderVars, agentVars
    <3>3. \A i \in DOMAIN queue : queue[i][2] = n /\ queue[i][1] \in CanFire(n)'
      <4>1. \A i \in DOMAIN queue : queue[i][2] = n /\ queue[i][1] \in CanFire(n)
        BY <1>7, <3>1, <3>2 DEF Upstream, Fed
      <4>2. CanFire(n) \subseteq Agents
        BY DEF CanFire, Inbound
      <4> QED
        BY <1>2, <4>1, <4>2
    <3>4. Inbound(n) # {} => queue # <<>> \/ \E m \in Inbound(n) : Said(messages, <<m, n>>)
      BY <1>7, <3>1, <3>2 DEF Upstream, Fed
    <3>5. queue' = queue /\ messages' = messages
      BY <3>1 DEF agentVars
    <3> QED
      BY <1>1, <3>3, <3>4, <3>5 DEF Fed
  <2>4. CASE OrderLayer \/ OrderFails \/ StartRun \/ StartFails \/ TakeNext \/ Skip \/ GatherFails
             \/ StartAgent
    BY <1>7, <2>4 DEF OrderLayer, OrderFails, StartRun, StartFails, TakeNext, Skip, GatherFails, StartAgent
  <2>5. CASE AgentDone \/ AttemptFails \/ Retry \/ AgentFails \/ EndRun \/ Killed
    BY <1>7, <2>5 DEF AgentDone, AttemptFails, Retry, AgentFails, EndRun, Finish, Killed
  <2> QED
    BY <2>1, <2>2, <2>3, <2>4, <2>5 DEF Next, Step, Done
<1>8. \A n \in Agents : Inbound(n)' = Inbound(n)
  BY <1>1
<1> QED
  <2>1. \A x \in Message : Said(messages', x) => x \in graph'.routes /\ outcome'[x[1]] = "done"
    BY ONLY <1>4
  <2>2. \A n \in Agents : Inbound(n)' # {} /\ Said(events', Event("started", n)) =>
          \E m \in Inbound(n)' : Said(messages', <<m, n>>)
    BY ONLY <1>6, <1>8
  <2>3. phase' = "deliver" => \A n \in Agents : n = Current' => Fed(n)'
    BY ONLY <1>7
  <2> QED
    BY ONLY <2>1, <2>2, <2>3 DEF Upstream, Said

LEMMA InvarianceUpstream == Spec => [](Base /\ Settled /\ Upstream)
<1>1. Init => Upstream
  BY DEF Init, Upstream, Said
<1>2. Base /\ Settled /\ Upstream /\ [Next]_vars => Upstream'
  BY UpstreamStep
<1> QED
  BY <1>1, <1>2, InvarianceSettled, PTL DEF Spec

(* Whatever conditions yield, an agent with routes into it is only started *)
(* on a message along one of them, from an agent that ran: where nothing   *)
(* ran upstream nothing runs downstream.                                   *)
THEOREM NothingFromNothing == Spec => []SkipsPropagate
<1>1. Base /\ Upstream => SkipsPropagate
  <2> SUFFICES ASSUME Base, Upstream PROVE SkipsPropagate
    OBVIOUS
  <2>1. \A m, n \in Agents : Delivered(m, n) <=> Said(messages, <<m, n>>)
    BY DEF Delivered, Said
  <2>2. \A n \in Agents : Reported(Event("started", n)) <=> Said(events, Event("started", n))
    BY DEF Reported, Said
  <2>3. \A m, n \in Agents : Said(messages, <<m, n>>) => outcome[m] = "done"
    BY DEF Upstream, Message, Edge
  <2>4. \A n \in Agents : Inbound(n) \subseteq Agents
    BY DEF Inbound
  <2> QED
    BY <2>1, <2>2, <2>3, <2>4 DEF Upstream, SkipsPropagate
<1> QED
  BY <1>1, InvarianceUpstream, PTL

-----------------------------------------------------------------------------
(* What the events tell.                                                   *)
LEMMA FollowedAppend ==
  ASSUME NEW es \in Seq(Report), NEW d \in Report, Followed(es),
         es # <<>> => /\ es[Len(es)].kind = "started" =>
                           d \in {Event("done", es[Len(es)].agent), Event("failed", es[Len(es)].agent)}
                      /\ es[Len(es)].kind = "failed" => d = Event("run failed", 0)
  PROVE  Followed(Append(es, d))
<1>0. es \in Seq(Report) /\ d \in Report
  OBVIOUS
<1>1. PICK t \in Seq(Report) : t = Append(es, d)
  BY ONLY <1>0, AppendProperties
<1>2. /\ Len(t) = Len(es) + 1 /\ t[Len(es) + 1] = d
      /\ \A i \in 1..Len(es) : t[i] = es[i]
  BY ONLY <1>0, <1>1, AppendProperties
<1>3. Len(es) \in Nat
  BY ONLY <1>0, LenProperties
<1>4. ASSUME NEW i \in 1..Len(t) - 1
      PROVE  /\ t[i].kind = "started" =>
                  t[i + 1] \in {Event("done", t[i].agent), Event("failed", t[i].agent)}
             /\ t[i].kind = "failed" => t[i + 1] = Event("run failed", 0)
  <2>1. i \in 1..Len(es)
    BY ONLY <1>2, <1>3, i \in 1..Len(t) - 1
  <2>2. CASE i < Len(es)
    <3>1. i \in 1..Len(es) - 1 /\ i + 1 \in 1..Len(es)
      BY ONLY <1>3, <2>1, <2>2
    <3>2. t[i] = es[i] /\ t[i + 1] = es[i + 1]
      BY ONLY <1>2, <2>1, <3>1
    <3> QED
      BY <3>1, <3>2 DEF Followed
  <2>3. CASE i = Len(es)
    <3>1. es # <<>> /\ t[i] = es[Len(es)] /\ t[i + 1] = d
      <4>1. Len(es) # 0
        BY ONLY <1>3, <2>1, <2>3
      <4>2. es # <<>>
        BY ONLY <1>0, <4>1, EmptySeq
      <4> QED
        BY ONLY <1>2, <2>1, <2>3, <4>2
    <3> QED
      BY <3>1
  <2>4. i < Len(es) \/ i = Len(es)
    BY ONLY <1>3, <2>1
  <2> QED
    BY ONLY <2>2, <2>3, <2>4
<1> QED
  BY ONLY <1>1, <1>4 DEF Followed

(* The tail of a sequence of reports after which none waits.               *)
LEMMA FollowedRoutes ==
  ASSUME NEW es \in Seq(Report), NEW n \in Agents, NEW fired, Followed(es), ~Waits(es), Unended(es)
  PROVE  /\ es \o Routes(n, fired) \in Seq(Report)
         /\ Followed(es \o Routes(n, fired)) /\ ~Waits(es \o Routes(n, fired))
         /\ Unended(es \o Routes(n, fired))
<1>1. PICK r \in Seq(Report) :
        /\ r = Routes(n, fired)
        /\ \A i \in DOMAIN r : r[i] \in {Event("fired", n), Event("blocked", n)}
  BY RoutesAre
<1>2. DOMAIN r = 1..Len(r) /\ Len(r) \in Nat /\ Len(es) \in Nat
  BY LenProperties
<1>3. \A i \in 1..Len(r) : r[i].kind \in {"fired", "blocked"}
  <2>1. Event("fired", n).kind = "fired" /\ Event("blocked", n).kind = "blocked"
    BY DEF Event
  <2> QED
    BY <1>1, <1>2, <2>1
<1>4. PICK t \in Seq(Report) : t = es \o r
  BY ConcatProperties
<1>5. /\ Len(t) = Len(es) + Len(r)
      /\ \A i \in 1..Len(es) + Len(r) : t[i] = IF i <= Len(es) THEN es[i] ELSE r[i - Len(es)]
  BY <1>4, ConcatProperties
<1>6. \A i \in 1..Len(t) : \/ i \in 1..Len(es) /\ t[i] = es[i]
                           \/ i > Len(es) /\ t[i].kind \in {"fired", "blocked"}
  <2> SUFFICES ASSUME NEW i \in 1..Len(t)
               PROVE  \/ i \in 1..Len(es) /\ t[i] = es[i]
                      \/ i > Len(es) /\ t[i].kind \in {"fired", "blocked"}
    OBVIOUS
  <2>1. CASE i <= Len(es)
    BY <1>2, <1>5, <2>1
  <2>2. CASE i > Len(es)
    <3>1. i - Len(es) \in 1..Len(r) /\ t[i] = r[i - Len(es)]
      BY <1>2, <1>5, <2>2
    <3> QED
      BY <1>3, <2>2, <3>1
  <2> QED
    BY <1>2, <2>1, <2>2
<1>7. Unended(t)
  BY <1>6 DEF Unended
<1>8. ~Waits(t)
  <2> SUFFICES ASSUME t # <<>> PROVE t[Len(t)].kind \notin {"started", "failed"}
    BY DEF Waits
  <2>1. Len(t) \in 1..Len(t) /\ Len(t) # 0
    BY EmptySeq, LenProperties
  <2>2. CASE Len(t) \in 1..Len(es) /\ t[Len(t)] = es[Len(t)]
    <3>1. Len(t) = Len(es) /\ es # <<>>
      BY <1>2, <1>5, <2>1, <2>2
    <3> QED
      BY <2>2, <3>1 DEF Waits
  <2> QED
    BY <1>6, <2>1, <2>2
<1>9. Followed(t)
  <2> SUFFICES ASSUME NEW i \in 1..Len(t) - 1
               PROVE  /\ t[i].kind = "started" =>
                           t[i + 1] \in {Event("done", t[i].agent), Event("failed", t[i].agent)}
                      /\ t[i].kind = "failed" => t[i + 1] = Event("run failed", 0)
    BY DEF Followed
  <2>1. i \in 1..Len(t) /\ i + 1 \in 1..Len(t) /\ Len(t) \in Nat
    BY <1>2, <1>5
  <2>2. CASE i < Len(es)
    <3>1. i \in 1..Len(es) - 1 /\ t[i] = es[i] /\ t[i + 1] = es[i + 1]
      BY <1>2, <1>5, <2>2
    <3> QED
      BY <3>1 DEF Followed
  <2>3. CASE i = Len(es)
    <3>1. t[i] = es[Len(es)] /\ es # <<>>
      BY <1>2, <1>5, <2>1, <2>3
    <3>2. t[i].kind \notin {"started", "failed"}
      BY <3>1 DEF Waits
    <3> QED
      BY <3>2
  <2>4. CASE i > Len(es)
    <3>1. t[i].kind \in {"fired", "blocked"}
      BY <1>2, <1>6, <2>1, <2>4
    <3> QED
      BY <3>1
  <2>5. i < Len(es) \/ i = Len(es) \/ i > Len(es)
    BY ONLY <1>2, <2>1
  <2> QED
    BY ONLY <2>2, <2>3, <2>4, <2>5
<1> QED
  BY <1>1, <1>4, <1>7, <1>8, <1>9

(* What a report appended does to the last one, and to an end not told.    *)
LEMMA AppendTold ==
  ASSUME NEW es \in Seq(Report), NEW d \in Report
  PROVE  /\ Append(es, d) \in Seq(Report) /\ Append(es, d) # <<>>
         /\ Append(es, d)[Len(Append(es, d))] = d
         /\ Waits(Append(es, d)) <=> d.kind \in {"started", "failed"}
         /\ Unended(es) /\ d.kind \notin {"failed", "run ok", "run failed"} => Unended(Append(es, d))
<1>1. PICK t \in Seq(Report) : t = Append(es, d)
  BY AppendProperties
<1>2. /\ Len(t) = Len(es) + 1 /\ t[Len(es) + 1] = d /\ t # <<>>
      /\ \A i \in 1..Len(es) : t[i] = es[i]
  BY <1>1, AppendProperties
<1>3. Len(es) \in Nat
  BY LenProperties
<1>4. \A i \in 1..Len(t) : i \in 1..Len(es) \/ i = Len(es) + 1
  BY ONLY <1>2, <1>3
<1>5. Waits(t) <=> d.kind \in {"started", "failed"}
  BY ONLY <1>2 DEF Waits
<1>6. Unended(es) /\ d.kind \notin {"failed", "run ok", "run failed"} => Unended(t)
  BY ONLY <1>2, <1>4 DEF Unended
<1> QED
  BY ONLY <1>1, <1>2, <1>5, <1>6

LEMMA FateStep ==
  ASSUME Base, Settled, Told, [Next]_vars, NEW n \in Agents
  PROVE  /\ Fate(n)'
         /\ outcome'[n] = "failed" => outcome[n] = "failed" \/ GatherFails \/ AgentFails
<1>1. /\ Types /\ outcome \in [Agents -> Fates]
      /\ (outcome[n] \in {"done", "skipped"} <=>
            Said(events, Event("done", n)) \/ Said(events, Event("skipped", n)))
  BY DEF Base, Types, Told, Fate
<1>2. \A m : /\ Event("done", n) = Event("done", m) <=> n = m
             /\ Event("skipped", n) = Event("skipped", m) <=> n = m
  BY DEF Event
<1>3. /\ Said(events', Event("done", n)) <=> Said(events, Event("done", n)) \/ (AgentDone /\ n = Current)
      /\ Said(events', Event("skipped", n)) <=> Said(events, Event("skipped", n)) \/ (Skip /\ n = Current)
  <2>1. \A kind \in {"done", "skipped"} :
          Event(kind, n) \in Report /\ Event(kind, n).kind = kind
    BY DEF Event, Report, Kinds
  <2>2. \A kind, m : Event(kind, m).kind = kind
    BY DEF Event
  <2>3. Said(events', Event("done", n)) <=> Said(events, Event("done", n)) \/ (AgentDone /\ n = Current)
    <3>1. PICK e \in Report : e = Event("done", n) /\ e.kind = "done"
      BY <2>1
    <3>a. \A kind, m : kind # "done" => e # Event(kind, m)
      BY ONLY <2>2, <3>1
    <3>2. /\ \A m : /\ e # Event("skipped", m) /\ e # Event("started", m) /\ e # Event("failed", m)
                    /\ e # Event("run failed", m) /\ e # Event("run ok", m)
          /\ e = Event("done", Current) <=> n = Current
      BY ONLY <1>2, <3>1, <3>a
    <3>3. Said(events', e) <=> Said(events, e) \/ (AgentDone /\ e = Event("done", Current))
      BY <3>1, <3>2, NewReports
    <3> QED
      BY <3>1, <3>2, <3>3
  <2>4. Said(events', Event("skipped", n)) <=> Said(events, Event("skipped", n)) \/ (Skip /\ n = Current)
    <3>1. PICK e \in Report : e = Event("skipped", n) /\ e.kind = "skipped"
      BY <2>1
    <3>a. \A kind, m : kind # "skipped" => e # Event(kind, m)
      BY ONLY <2>2, <3>1
    <3>2. /\ \A m : /\ e # Event("done", m) /\ e # Event("started", m) /\ e # Event("failed", m)
                    /\ e # Event("run failed", m) /\ e # Event("run ok", m)
          /\ e = Event("skipped", Current) <=> n = Current
      BY ONLY <1>2, <3>1, <3>a
    <3>3. Said(events', e) <=> Said(events, e) \/ (Skip /\ e = Event("skipped", Current))
      BY <3>1, <3>2, NewReports
    <3> QED
      BY <3>1, <3>2, <3>3
  <2> QED
    BY <2>3, <2>4
<1>4. ASSUME Skip \/ AgentDone \/ GatherFails \/ AgentFails
      PROVE  Current \in Agents /\ outcome[Current] = "none"
  BY <1>1, <1>4, Loud, CurrentIs DEF Settled
<1>5. CASE Skip \/ AgentDone
  <2>1. PICK fate \in {"done", "skipped"} : outcome' = [outcome EXCEPT ![Current] = fate]
    BY <1>5 DEF Skip, AgentDone
  <2>2. Current \in Agents /\ outcome'[n] = IF n = Current THEN fate ELSE outcome[n]
    BY <1>1, <1>4, <1>5, <2>1
  <2> QED
    BY <1>1, <1>3, <1>5, <2>1, <2>2 DEF Fate
<1>6. CASE ~(Skip \/ AgentDone) /\ (GatherFails \/ AgentFails)
  <2>1. outcome' = [outcome EXCEPT ![Current] = "failed"]
    BY <1>6 DEF GatherFails, AgentFails
  <2>2. /\ Current \in Agents /\ outcome[Current] = "none"
        /\ outcome'[n] = IF n = Current THEN "failed" ELSE outcome[n]
    BY <1>1, <1>4, <1>6, <2>1
  <2> QED
    BY <1>1, <1>3, <1>6, <2>2 DEF Fate
<1>7. CASE ~(Skip \/ AgentDone \/ GatherFails \/ AgentFails)
  <2>1. outcome' = outcome
    BY <1>7, Quiet DEF OrderLayer, StartRun, TakeNext, agentVars
  <2> QED
    BY <1>1, <1>3, <1>7, <2>1 DEF Fate
<1> QED
  BY <1>5, <1>6, <1>7

LEMMA ToldStep ==
  ASSUME Base, Settled, Told, [Next]_vars
  PROVE  Told'
<1>1. /\ Types /\ events \in Seq(Report) /\ Followed(events)
      /\ phase \in {"try", "backoff"} => events # <<>> /\ events[Len(events)] = Event("started", Current)
      /\ phase \notin {"try", "backoff", "done", "killed"} => ~Waits(events)
      /\ phase # "done" => Unended(events)
  BY DEF Base, Types, Told
<1>2. \A n \in Agents : Fate(n)'
  BY FateStep
<1>3. \A n \in Agents : outcome'[n] = "failed" => phase' = "done"
  <2>1. phase = "done" => phase' = "done"
    <3>1. ASSUME phase = "done" PROVE ~Step /\ ~Cancel /\ ~Killed
      BY <3>1 DEF Step, OrderLayer, OrderFails, StartRun, StartFails, TakeNext, Gather, Skip,
                  GatherFails, Deliver, StartAgent, AgentDone, AttemptFails, Retry, AgentFails,
                  EndRun, Cancel, Killed
    <3> QED
      BY <3>1 DEF Next, Done, vars
  <2>2. GatherFails \/ AgentFails => phase' = "done"
    BY DEF GatherFails, AgentFails
  <2> QED
    BY <2>1, <2>2, FateStep DEF Told
<1>4. SUFFICES /\ Followed(events')
               /\ phase' \in {"try", "backoff"} =>
                    events' # <<>> /\ events'[Len(events')] = Event("started", Current')
               /\ phase' \notin {"try", "backoff", "done", "killed"} => ~Waits(events')
               /\ phase' # "done" => Unended(events')
  BY <1>2, <1>3 DEF Told
<1>5. \A kind, n : kind \in Kinds /\ n \in Agents \cup {0} =>
        Event(kind, n) \in Report /\ Event(kind, n).kind = kind /\ Event(kind, n).agent = n
  BY DEF Event, Report
<1>6. phase \in Busy => Current \in Agents
  BY <1>1, CurrentIs
<1>7. CASE StartRun
  <2>1. events = <<>> /\ phase = "ordering" /\ phase' = "next" /\ events' = Append(events, Event("start", 0))
    BY <1>1, <1>7 DEF StartRun, Emit, Types
  <2>2. PICK d \in Report : d = Event("start", 0) /\ d.kind = "start"
    BY <1>5 DEF Kinds
  <2>3. Followed(Append(events, d))
    BY <1>1, <2>1, FollowedAppend
  <2>4. ~Waits(Append(events, d)) /\ Unended(Append(events, d))
    BY <1>1, <2>1, <2>2, AppendTold
  <2> QED
    BY <2>1, <2>2, <2>3, <2>4
<1>8. CASE Gather
  <2>1. PICK fired : events' = events \o Routes(Current, fired)
    BY <1>8 DEF Gather
  <2>2. phase = "gather" /\ phase' = "deliver"
    BY <1>8 DEF Gather
  <2> QED
    BY <1>1, <1>6, <2>1, <2>2, FollowedRoutes DEF Busy
<1>9. CASE Skip \/ GatherFails
  <2>1. phase = "gather" /\ Current \in Agents
    BY <1>6, <1>9 DEF Skip, GatherFails, Busy
  <2>2. PICK t \in Seq(Report) : /\ t = events \o Routes(Current, {})
                                 /\ Followed(t) /\ ~Waits(t) /\ Unended(t)
    BY <1>1, <2>1, FollowedRoutes
  <2>3. PICK d \in Report :
          /\ events' = Append(t, d)
          /\ \/ phase' = "next" /\ d.kind = "skipped"
             \/ phase' = "done" /\ d.kind = "run failed"
    <3>0. /\ Event("skipped", Current) \in Report /\ Event("skipped", Current).kind = "skipped"
          /\ Event("run failed", 0) \in Report /\ Event("run failed", 0).kind = "run failed"
      BY <1>5, <2>1 DEF Kinds
    <3>1. CASE Skip
      <4>1. phase' = "next" /\ events' = Append(t, Event("skipped", Current))
        BY <2>2, <3>1 DEF Skip
      <4> QED
        BY <3>0, <4>1
    <3>2. CASE GatherFails
      <4>1. phase' = "done" /\ events' = Append(t, Event("run failed", 0))
        BY <2>2, <3>2 DEF GatherFails
      <4> QED
        BY <3>0, <4>1
    <3> QED
      BY <1>9, <3>1, <3>2
  <2>4. Followed(Append(t, d))
    BY <2>2, FollowedAppend DEF Waits
  <2>5. ~Waits(Append(t, d)) /\ (phase' = "next" => Unended(Append(t, d)))
    BY <2>2, <2>3, AppendTold
  <2> QED
    BY <2>3, <2>4, <2>5
<1>10. CASE StartAgent
  <2>1. /\ phase = "deliver" /\ phase' = "try" /\ events' = Append(events, Event("started", Current))
        /\ Current' = Current
    BY <1>10 DEF StartAgent, Emit, Current, orderVars, agentVars
  <2>2. PICK d \in Report : d = Event("started", Current) /\ d.kind = "started"
    BY <1>5, <1>6, <2>1 DEF Busy, Kinds
  <2>3. Followed(Append(events, d))
    BY <1>1, <2>1, FollowedAppend DEF Waits
  <2>4. /\ Unended(Append(events, d)) /\ Append(events, d) # <<>>
        /\ Append(events, d)[Len(Append(events, d))] = d
    BY <1>1, <2>1, <2>2, AppendTold
  <2> QED
    BY <2>1, <2>2, <2>3, <2>4
<1>11. CASE AgentDone
  <2>1. phase = "try" /\ phase' = "next" /\ events' = Append(events, Event("done", Current))
    BY <1>11 DEF AgentDone, Emit
  <2>2. PICK d \in Report : d = Event("done", Current) /\ d.kind = "done"
    BY <1>5, <1>6, <2>1 DEF Busy, Kinds
  <2>3. PICK l \in Report : l = events[Len(events)] /\ l.kind = "started" /\ l.agent = Current
    BY <1>1, <1>5, <1>6, <2>1 DEF Busy, Kinds
  <2>4. Followed(Append(events, d))
    BY <1>1, <2>2, <2>3, FollowedAppend
  <2>5. ~Waits(Append(events, d)) /\ Unended(Append(events, d))
    BY <1>1, <2>1, <2>2, AppendTold
  <2> QED
    BY <2>1, <2>2, <2>4, <2>5
<1>12. CASE AgentFails
  <2>1. /\ phase \in {"try", "backoff"} /\ phase' = "done"
        /\ events' = events \o <<Event("failed", Current), Event("run failed", 0)>>
    BY <1>12 DEF AgentFails
  <2>2. PICK d \in Report : d = Event("failed", Current) /\ d.kind = "failed"
    BY <1>5, <1>6, <2>1 DEF Busy, Kinds
  <2>3. PICK e \in Report : e = Event("run failed", 0) /\ e.kind = "run failed"
    BY <1>5 DEF Kinds
  <2>4. PICK l \in Report : l = events[Len(events)] /\ l.kind = "started" /\ l.agent = Current
    BY <1>1, <1>5, <1>6, <2>1 DEF Busy, Kinds
  <2>5. PICK t \in Seq(Report) : t = Append(events, d)
    BY <1>1, AppendProperties
  <2>6. Followed(t)
    BY <1>1, <2>2, <2>4, <2>5, FollowedAppend
  <2>7. t # <<>> /\ t[Len(t)] = d
    BY <1>1, <2>5, AppendTold
  <2>8. Followed(Append(t, e))
    BY <2>2, <2>3, <2>6, <2>7, FollowedAppend
  <2>9. Append(t, e) = events \o <<d, e>>
    BY <1>1, <2>5
  <2> QED
    BY <2>1, <2>2, <2>3, <2>8, <2>9
<1>13. CASE EndRun
  <2>1. phase = "next" /\ phase' = "done" /\ events' = Append(events, Event("run ok", 0))
    BY <1>13 DEF EndRun, Finish
  <2>2. PICK d \in Report : d = Event("run ok", 0)
    BY <1>5 DEF Kinds
  <2>3. Followed(Append(events, d))
    BY <1>1, <2>1, FollowedAppend DEF Waits
  <2> QED
    BY <2>1, <2>2, <2>3
<1>14. ASSUME events' = events,
              phase' \in {"try", "backoff"} => phase \in {"try", "backoff"} /\ Current' = Current,
              phase' \notin {"try", "backoff", "done", "killed"} =>
                phase \notin {"try", "backoff", "done", "killed"},
              phase' # "done" => phase # "done"
       PROVE  /\ Followed(events')
              /\ phase' \in {"try", "backoff"} =>
                   events' # <<>> /\ events'[Len(events')] = Event("started", Current')
              /\ phase' \notin {"try", "backoff", "done", "killed"} => ~Waits(events')
              /\ phase' # "done" => Unended(events')
  BY <1>1, <1>14
<1>15. CASE OrderLayer \/ OrderFails \/ StartFails \/ TakeNext \/ Deliver
  BY <1>14, <1>15 DEF OrderLayer, OrderFails, StartFails, TakeNext, Deliver
<1>16. CASE AttemptFails \/ Retry
  BY <1>14, <1>16 DEF AttemptFails, Retry, Current, orderVars, agentVars
<1>17. CASE Cancel \/ Killed \/ UNCHANGED vars
  <2>1. events' = events /\ Current' = Current /\ (phase' = phase \/ (phase # "done" /\ phase' = "killed"))
    BY <1>17 DEF Cancel, Killed, vars, Current, orderVars, agentVars
  <2> QED
    BY <1>14, <2>1
<1> QED
  BY <1>7, <1>8, <1>9, <1>10, <1>11, <1>12, <1>13, <1>15, <1>16, <1>17 DEF Next, Step, Done

(* A run that is reported to succeed ran something: the first agent of its *)
(* order has no routes into it, and is never skipped.                      *)
LEMMA SucceededStep ==
  ASSUME Base, Settled, Told, Succeeded, [Next]_vars
  PROVE  Succeeded'
<1>1. /\ Types /\ order \in Seq(Agents) /\ DOMAIN order = 1..Len(order) /\ Len(order) \in Nat
      /\ \A i \in DOMAIN order : order[i] \in Agents
  BY LenProperties, ElementOfSeq DEF Base, Types
<1>2. PICK e \in Report : e = Event("run ok", 0) /\ e.kind = "run ok"
  <2>1. Event("run ok", 0) \in Report /\ Event("run ok", 0).kind = "run ok"
    BY DEF Event, Report, Kinds
  <2> QED
    BY <2>1
<1>3. CASE Said(events, e)
  <2>1. phase = "done"
    BY <1>2, <1>3 DEF Told, Unended, Said
  <2>2. ~Step /\ ~Cancel /\ ~Killed
    BY <2>1 DEF Step, OrderLayer, OrderFails, StartRun, StartFails, TakeNext, Gather, Skip,
                GatherFails, Deliver, StartAgent, AgentDone, AttemptFails, Retry, AgentFails,
                EndRun, Cancel, Killed
  <2>3. UNCHANGED vars
    BY <2>2 DEF Next, Done
  <2> QED
    BY <2>3 DEF vars, orderVars, agentVars, Succeeded, Reported, Produced
<1>4. CASE ~Said(events, e) /\ EndRun
  <2>1. /\ phase = "next" /\ next = Len(order) /\ output' = FinalOutput
        /\ order' = order /\ outcome' = outcome
    BY <1>4 DEF EndRun, orderVars, agentVars
  <2>2. order # <<>> /\ 1 \in DOMAIN order /\ 1 \in 1..next
    BY <1>1, <2>1, EmptySeq DEF Base, Ordered
  <2>3. Inbound(order[1]) = {}
    <3>1. \A m \in Agents : m \notin Inbound(order[1])
      BY <1>1, <2>2 DEF Base, Ordered, InOrder, Inbound
    <3> QED
      BY <3>1 DEF Inbound
  <2>4. \A i \in 1..Len(order) : outcome[order[i]] \in {"done", "skipped"}
    BY <2>1 DEF Settled
  <2>5. order[1] \in Produced
    BY <1>1, <2>1, <2>2, <2>3, <2>4 DEF Settled, Produced
  <2>6. FinalOutput # {} /\ FinalOutput \subseteq Produced
    BY <2>5 DEF FinalOutput
  <2> QED
    BY <2>1, <2>4, <2>6 DEF Succeeded, Produced
<1>5. CASE ~Said(events, e) /\ ~EndRun
  <2>1. \A kind, m : kind # "run ok" => e # Event(kind, m)
    BY <1>2 DEF Event
  <2>2. ~Said(events', e)
    BY <1>2, <1>5, <2>1, NewReports
  <2> QED
    BY <1>2, <2>2 DEF Succeeded, Reported, Said
<1> QED
  BY <1>3, <1>4, <1>5

LEMMA InvarianceTold == Spec => [](Base /\ Settled /\ Told /\ Succeeded)
<1>1. Init => Told /\ Succeeded
  BY DEF Init, Told, Succeeded, Fate, Followed, Waits, Unended, Said, Reported
<1>2. Base /\ Settled /\ Told /\ [Next]_vars => Told'
  BY ToldStep
<1>3. Base /\ Settled /\ Told /\ Succeeded /\ [Next]_vars => Succeeded'
  BY SucceededStep
<1> QED
  BY <1>1, <1>2, <1>3, InvarianceSettled, PTL DEF Spec

(* The events say of every agent what became of it, no more and no less;   *)
(* each start is followed by its end and a failure by the end of the run;  *)
(* and a run reported to succeed settled every agent of its order and has  *)
(* some output.                                                            *)
THEOREM EventsTrue == Spec => []EventsTellTheRun
<1>1. Base /\ Told /\ Succeeded => EventsTellTheRun
  <2> SUFFICES ASSUME Base, Told, Succeeded PROVE EventsTellTheRun
    OBVIOUS
  <2>1. \A e : Reported(e) <=> Said(events, e)
    BY DEF Reported, Said
  <2>2. \A n \in Agents : outcome[n] \in {"done", "skipped"} <=>
          Reported(Event("done", n)) \/ Reported(Event("skipped", n))
    BY <2>1 DEF Told, Fate
  <2>3. \A i \in 1..Len(events) - 1 :
          /\ events[i].kind = "started" =>
               events[i + 1] \in {Event("done", events[i].agent), Event("failed", events[i].agent)}
          /\ events[i].kind = "failed" => events[i + 1] = Event("run failed", 0)
    BY DEF Told, Followed
  <2>4. \A n \in Agents : outcome[n] = "failed" => phase = "done"
    BY DEF Told
  <2> QED
    BY <2>2, <2>3, <2>4 DEF EventsTellTheRun, Succeeded
<1> QED
  BY <1>1, InvarianceTold, PTL

-----------------------------------------------------------------------------
(* The audit trail.                                                        *)

(* Where the records of a bus file are, which of them an earlier file did  *)
(* not have, and that the earlier file is still there.                     *)
Places(l) == {x \in Nat \X Nat : x[1] \in 1..Len(l) /\ x[2] \in 1..Len(l[x[1]])}
Since(l, e) == {x \in Places(l) : x[1] \in 1..Len(e) => x[2] > Len(e[x[1]])}

Starts(s, t) == Len(s) <= Len(t) /\ \A k \in 1..Len(s) : s[k] = t[k]
Kept(l, e) == Len(e) <= Len(l) /\ \A i \in 1..Len(e) : Starts(e[i], l[i])

Traced(l, e, ms) ==
  \E d \in [Since(l, e) -> DOMAIN ms] :
    /\ \A x \in Since(l, e) : ms[d[x]] = l[x[1]][x[2]].msg
    /\ \A x, y \in Since(l, e) : Before(x, y) => d[x] < d[y]

(* A file with one more record, after all others.                          *)
Extended(l, f, p, r) ==
  /\ p \in Places(f) /\ p \notin Places(l) /\ Places(f) = Places(l) \cup {p}
  /\ f[p[1]][p[2]] = r
  /\ \A x \in Places(l) : Before(x, p) /\ f[x[1]][x[2]] = l[x[1]][x[2]]

LEMMA LineAdded ==
  ASSUME NEW l \in Seq(Seq(Entry)), NEW r \in Entry
  PROVE  /\ Append(l, <<r>>) \in Seq(Seq(Entry))
         /\ Extended(l, Append(l, <<r>>), <<Len(l) + 1, 1>>, r)
         /\ \A e \in Seq(Seq(Entry)) : Kept(l, e) => Kept(Append(l, <<r>>), e)
<1>1. PICK line \in Seq(Entry) : line = <<r>> /\ Len(line) = 1 /\ line[1] = r
  <2>1. <<r>> \in Seq(Entry) /\ Len(<<r>>) = 1 /\ <<r>>[1] = r
    OBVIOUS
  <2> QED
    BY <2>1
<1>2. PICK f \in Seq(Seq(Entry)) : f = Append(l, line)
  BY AppendProperties
<1>3. /\ Len(l) \in Nat /\ Len(f) = Len(l) + 1 /\ f[Len(l) + 1] = line
      /\ \A i \in 1..Len(l) : f[i] = l[i]
  BY <1>2, AppendProperties, LenProperties
<1>4. \A i \in 1..Len(f) : i \in 1..Len(l) \/ i = Len(l) + 1
  BY <1>3
<1>5. PICK p \in Nat \X Nat : p = <<Len(l) + 1, 1>> /\ p[1] = Len(l) + 1 /\ p[2] = 1
  <2>1. <<Len(l) + 1, 1>> \in Nat \X Nat
    BY <1>3
  <2> QED
    BY <2>1
<1>6. \A x \in Nat \X Nat : x[1] = Len(l) + 1 /\ x[2] = 1 => x = p
  BY <1>5
<1>7. \A x \in Places(l) : x[1] \in 1..Len(l) /\ x[1] < p[1] /\ x \in Places(f)
  <2> SUFFICES ASSUME NEW x \in Places(l)
               PROVE  x[1] \in 1..Len(l) /\ x[1] < p[1] /\ x \in Places(f)
    OBVIOUS
  <2>1. x \in Nat \X Nat /\ x[1] \in 1..Len(l) /\ x[2] \in 1..Len(l[x[1]])
    BY DEF Places
  <2>2. x[1] < p[1] /\ x[1] \in 1..Len(f) /\ f[x[1]] = l[x[1]]
    BY <1>3, <1>5, <2>1
  <2> QED
    BY <2>1, <2>2 DEF Places
<1>8. \A x \in Places(f) : x \in Places(l) \/ x = p
  <2> SUFFICES ASSUME NEW x \in Places(f) PROVE x \in Places(l) \/ x = p
    OBVIOUS
  <2>1. CASE x[1] \in 1..Len(l)
    BY <1>3, <2>1 DEF Places
  <2>2. CASE x[1] = Len(l) + 1
    <3>1. x[2] \in 1..1
      BY <1>1, <1>3, <2>2 DEF Places
    <3>2. x[2] = 1 /\ x \in Nat \X Nat
      BY <3>1 DEF Places
    <3> QED
      BY <1>6, <2>2, <3>2
  <2> QED
    BY <1>4, <2>1, <2>2 DEF Places
<1>9. p \in Places(f) /\ p \notin Places(l) /\ f[p[1]][p[2]] = r
  <2>1. p[1] \in 1..Len(f) /\ f[p[1]] = line /\ p[2] \in 1..Len(line)
    BY <1>1, <1>3, <1>5
  <2>2. p \notin Places(l)
    BY <1>3, <1>5 DEF Places
  <2> QED
    BY <1>1, <1>5, <2>1, <2>2 DEF Places
<1>10. Extended(l, f, p, r)
  <2>1. \A x \in Places(l) : Before(x, p) /\ f[x[1]][x[2]] = l[x[1]][x[2]]
    BY <1>3, <1>7 DEF Before
  <2> QED
    BY ONLY <1>7, <1>8, <1>9, <2>1 DEF Extended
<1>11. ASSUME NEW e \in Seq(Seq(Entry)), Kept(l, e) PROVE Kept(f, e)
  <2>1. Len(e) \in Nat /\ Len(e) <= Len(l)
    BY <1>11, LenProperties DEF Kept
  <2>2. \A i \in 1..Len(e) : f[i] = l[i]
    BY <1>3, <2>1
  <2> QED
    BY <1>3, <1>11, <2>1, <2>2 DEF Kept
<1> QED
  BY <1>1, <1>2, <1>5, <1>10, <1>11

LEMMA LineJoined ==
  ASSUME NEW l \in Seq(Seq(Entry)), l # <<>>, NEW r \in Entry
  PROVE  LET f == [l EXCEPT ![Len(l)] = Append(@, r)]
         IN  /\ f \in Seq(Seq(Entry))
             /\ Extended(l, f, <<Len(l), Len(l[Len(l)]) + 1>>, r)
             /\ \A e \in Seq(Seq(Entry)) : Kept(l, e) => Kept(f, e)
<1>1. Len(l) \in Nat /\ Len(l) \in 1..Len(l) /\ DOMAIN l = 1..Len(l)
  BY EmptySeq, LenProperties
<1>2. PICK old \in Seq(Entry) : old = l[Len(l)]
  BY <1>1, ElementOfSeq
<1>3. PICK line \in Seq(Entry) : line = Append(old, r)
  BY AppendProperties
<1>4. /\ Len(old) \in Nat /\ Len(line) = Len(old) + 1 /\ line[Len(old) + 1] = r
      /\ \A k \in 1..Len(old) : line[k] = old[k]
  BY <1>3, AppendProperties, LenProperties
<1>5. PICK f : f = [l EXCEPT ![Len(l)] = Append(@, r)]
  OBVIOUS
<1>6. f = [l EXCEPT ![Len(l)] = line]
  BY <1>1, <1>2, <1>3, <1>5
<1>7. f \in Seq(Seq(Entry))
  BY <1>1, <1>6, ExceptSeq
<1>8. /\ Len(f) = Len(l) /\ f[Len(l)] = line
      /\ \A i \in 1..Len(l) : i # Len(l) => f[i] = l[i]
  <2>1. PICK n \in 1..Len(l) : n = Len(l)
    BY <1>1
  <2>2. PICK g : g = [l EXCEPT ![n] = line]
    OBVIOUS
  <2>3. Len(g) = Len(l) /\ \A i \in 1..Len(l) : g[i] = IF i = n THEN line ELSE l[i]
    BY <2>2, ExceptSeq
  <2> QED
    BY <1>1, <1>6, <2>1, <2>2, <2>3
<1>9. PICK p \in Nat \X Nat : p = <<Len(l), Len(old) + 1>> /\ p[1] = Len(l) /\ p[2] = Len(old) + 1
  <2>1. <<Len(l), Len(old) + 1>> \in Nat \X Nat
    BY <1>1, <1>4
  <2> QED
    BY <2>1
<1>10. \A x \in Nat \X Nat : x[1] = Len(l) /\ x[2] = Len(old) + 1 => x = p
  BY <1>9
<1>11. \A x \in Places(l) : x \in Places(f) /\ x # p /\ Before(x, p) /\ f[x[1]][x[2]] = l[x[1]][x[2]]
  <2> SUFFICES ASSUME NEW x \in Places(l)
               PROVE  x \in Places(f) /\ x # p /\ Before(x, p) /\ f[x[1]][x[2]] = l[x[1]][x[2]]
    OBVIOUS
  <2>1. x \in Nat \X Nat /\ x[1] \in 1..Len(l) /\ x[2] \in 1..Len(l[x[1]])
    BY DEF Places
  <2>2. CASE x[1] # Len(l)
    <3>1. x[1] < Len(l) /\ f[x[1]] = l[x[1]] /\ x[1] \in 1..Len(f)
      <4>1. PICK i \in 1..Len(l) : i = x[1] /\ i # Len(l)
        BY <2>1, <2>2
      <4>2. i \in 1..Len(l) /\ Len(l) \in Nat /\ i # Len(l)
        BY <1>1, <4>1
      <4>3. i < Len(l)
        BY ONLY <4>2
      <4> QED
        BY <1>8, <4>1, <4>3
    <3>2. x \in Places(f)
      BY <2>1, <3>1 DEF Places
    <3>3. Before(x, p) /\ x # p
      BY <1>9, <2>2, <3>1 DEF Before
    <3> QED
      BY <3>1, <3>2, <3>3
  <2>3. CASE x[1] = Len(l)
    <3>1. x[2] \in 1..Len(old) /\ x[2] < Len(old) + 1 /\ x[2] \in 1..Len(line)
      BY <1>2, <1>4, <2>1, <2>3
    <3>2. f[x[1]][x[2]] = l[x[1]][x[2]]
      BY <1>2, <1>4, <1>8, <2>3, <3>1
    <3> QED
      BY <1>8, <1>9, <2>1, <2>3, <3>1, <3>2 DEF Places, Before
  <2> QED
    BY <2>2, <2>3
<1>12. \A x \in Places(f) : x \in Places(l) \/ x = p
  <2> SUFFICES ASSUME NEW x \in Places(f) PROVE x \in Places(l) \/ x = p
    OBVIOUS
  <2>1. x \in Nat \X Nat /\ x[1] \in 1..Len(l) /\ x[2] \in 1..Len(f[x[1]])
    BY <1>8 DEF Places
  <2>2. CASE x[1] # Len(l)
    BY <1>8, <2>1, <2>2 DEF Places
  <2>3. CASE x[1] = Len(l)
    <3>1. x[2] \in 1..Len(old) + 1
      BY <1>4, <1>8, <2>1, <2>3
    <3>2. x[2] \in 1..Len(old) \/ x[2] = Len(old) + 1
      BY <1>4, <3>1
    <3> QED
      BY <1>2, <1>10, <2>1, <2>3, <3>2 DEF Places
  <2> QED
    BY <2>2, <2>3
<1>13. p \in Places(f) /\ f[p[1]][p[2]] = r
  <2>1. f[p[1]] = line /\ p[1] \in 1..Len(f) /\ p[2] \in 1..Len(line)
    <3>1. Len(old) + 1 \in 1..Len(line)
      BY <1>4
    <3> QED
      BY <1>1, <1>8, <1>9, <3>1
  <2> QED
    BY <1>4, <1>9, <2>1 DEF Places
<1>14. Extended(l, f, p, r)
  BY ONLY <1>11, <1>12, <1>13 DEF Extended
<1>15. ASSUME NEW e \in Seq(Seq(Entry)), Kept(l, e) PROVE Kept(f, e)
  <2> SUFFICES ASSUME NEW i \in 1..Len(e) PROVE Starts(e[i], f[i])
    BY <1>8, <1>15 DEF Kept
  <2>1. Len(e) \in Nat /\ i \in 1..Len(l) /\ Starts(e[i], l[i])
    BY <1>1, <1>15, LenProperties DEF Kept
  <2>2. CASE i # Len(l)
    BY <1>8, <2>1, <2>2
  <2>3. CASE i = Len(l)
    <3>1. PICK s \in Seq(Entry) : s = e[i]
      BY ElementOfSeq
    <3>2. Len(s) \in Nat /\ Len(s) <= Len(old) /\ \A k \in 1..Len(s) : s[k] = old[k]
      BY <1>2, <2>1, <2>3, <3>1, LenProperties DEF Starts
    <3>3. Starts(s, line)
      BY <1>4, <3>2 DEF Starts
    <3> QED
      BY <1>8, <2>3, <3>1, <3>3
  <2> QED
    BY <2>2, <2>3
<1> QED
  BY <1>2, <1>5, <1>7, <1>9, <1>14, <1>15

(* A message that is delivered may leave one record, or none.              *)
LEMMA TracedMore ==
  ASSUME NEW l, NEW e, NEW ms \in Seq(Message), NEW m \in Message, Traced(l, e, ms)
  PROVE  Traced(l, e, Append(ms, m))
<1>1. PICK d \in [Since(l, e) -> DOMAIN ms] :
        /\ \A x \in Since(l, e) : ms[d[x]] = l[x[1]][x[2]].msg
        /\ \A x, y \in Since(l, e) : Before(x, y) => d[x] < d[y]
  BY DEF Traced
<1>2. PICK t \in Seq(Message) : t = Append(ms, m)
  BY AppendProperties
<1>3. /\ Len(t) = Len(ms) + 1 /\ Len(ms) \in Nat /\ \A i \in 1..Len(ms) : t[i] = ms[i]
      /\ DOMAIN t = 1..Len(t) /\ DOMAIN ms = 1..Len(ms)
  BY <1>2, AppendProperties, LenProperties
<1>4. DOMAIN ms \subseteq DOMAIN t
  BY <1>3
<1>5. d \in [Since(l, e) -> DOMAIN t] /\ \A x \in Since(l, e) : t[d[x]] = ms[d[x]]
  BY <1>1, <1>3, <1>4
<1> QED
  BY <1>1, <1>2, <1>5 DEF Traced

LEMMA TracedOne ==
  ASSUME NEW l \in Seq(Seq(Entry)), NEW e \in Seq(Seq(Entry)), NEW f, NEW p, NEW r \in Entry,
         NEW ms \in Seq(Message), r.msg \in Message,
         Kept(l, e), Kept(f, e), Extended(l, f, p, r), Traced(l, e, ms)
  PROVE  Traced(f, e, Append(ms, r.msg))
<1>1. PICK d \in [Since(l, e) -> DOMAIN ms] :
        /\ \A x \in Since(l, e) : ms[d[x]] = l[x[1]][x[2]].msg
        /\ \A x, y \in Since(l, e) : Before(x, y) => d[x] < d[y]
  BY DEF Traced
<1>2. PICK t \in Seq(Message) : t = Append(ms, r.msg)
  BY AppendProperties
<1>3. /\ Len(t) = Len(ms) + 1 /\ Len(ms) \in Nat /\ t[Len(ms) + 1] = r.msg
      /\ \A i \in 1..Len(ms) : t[i] = ms[i]
      /\ DOMAIN t = 1..Len(t) /\ DOMAIN ms = 1..Len(ms)
  BY <1>2, AppendProperties, LenProperties
<1>4. /\ p \in Places(f) /\ p \notin Places(l) /\ Places(f) = Places(l) \cup {p}
      /\ f[p[1]][p[2]] = r
      /\ \A x \in Places(l) : Before(x, p) /\ f[x[1]][x[2]] = l[x[1]][x[2]]
  BY DEF Extended
<1>5. Since(l, e) \subseteq Since(f, e) /\ Since(f, e) \subseteq Since(l, e) \cup {p}
  BY <1>4 DEF Since
<1>6. PICK g : g = [x \in Since(f, e) |-> IF x = p THEN Len(ms) + 1 ELSE d[x]]
  OBVIOUS
<1>7. \A x \in Since(f, e) : \/ x = p /\ g[x] = Len(ms) + 1
                             \/ /\ x \in Since(l, e) /\ x # p /\ g[x] = d[x]
                                /\ d[x] \in 1..Len(ms)
  BY <1>1, <1>3, <1>5, <1>6
<1>8. g \in [Since(f, e) -> DOMAIN t]
  <2>1. \A x \in Since(f, e) : g[x] \in DOMAIN t
    BY <1>3, <1>7
  <2> QED
    BY <1>6, <2>1
<1>9. \A x \in Since(f, e) : t[g[x]] = f[x[1]][x[2]].msg
  <2> SUFFICES ASSUME NEW x \in Since(f, e) PROVE t[g[x]] = f[x[1]][x[2]].msg
    OBVIOUS
  <2>1. CASE x = p
    BY <1>3, <1>4, <1>7, <2>1
  <2>2. CASE x \in Since(l, e) /\ x # p
    <3>1. g[x] = d[x] /\ d[x] \in 1..Len(ms) /\ ms[d[x]] = l[x[1]][x[2]].msg
      BY <1>1, <1>7, <2>2
    <3>2. f[x[1]][x[2]] = l[x[1]][x[2]]
      BY <1>4, <2>2 DEF Since
    <3> QED
      BY <1>3, <3>1, <3>2
  <2> QED
    BY <1>7, <2>1, <2>2
<1>10. ASSUME NEW x \in Since(f, e), NEW y \in Since(f, e), Before(x, y)
       PROVE  g[x] < g[y]
  <2>1. /\ x \in Nat \X Nat /\ y \in Nat \X Nat /\ p \in Nat \X Nat
    BY <1>4 DEF Since, Places
  <2>2. x # p
    <3> SUFFICES ASSUME x = p PROVE FALSE
      OBVIOUS
    <3>1. y = p \/ Before(y, p)
      BY <1>4, <1>7 DEF Since
    <3> QED
      BY <1>10, <2>1, <3>1 DEF Before
  <2>3. g[x] = d[x] /\ d[x] \in 1..Len(ms) /\ x \in Since(l, e)
    BY <1>7, <2>2
  <2>4. CASE y = p
    BY <1>3, <1>7, <2>3, <2>4
  <2>5. CASE y # p
    BY <1>1, <1>7, <1>10, <2>3, <2>5
  <2> QED
    BY <2>4, <2>5
<1> QED
  BY <1>2, <1>8, <1>9, <1>10 DEF Traced

(* The trail: what is kept always, and what is traced until a kill.        *)
Trail == Kept(log, earlier) /\ (phase # "killed" => Traced(log, earlier, messages))

LEMMA TrailStep ==
  ASSUME Base, Trail, [Next]_vars
  PROVE  Trail'
<1>1. /\ log \in Seq(Seq(Entry)) /\ earlier \in Seq(Seq(Entry)) /\ (ragged => log # <<>>)
      /\ queue \in Seq(Message) /\ messages \in Seq(Message) /\ ragged \in BOOLEAN
  BY DEF Base, Bus, Types
<1>2. ASSUME NEW whole \in BOOLEAN, queue # <<>>, log' = Written(Head(queue), whole)
      PROVE  \E r \in Entry, p \in Places(log') :
               /\ r.msg = Head(queue) /\ Head(queue) \in Message
               /\ Extended(log, log', p, r) /\ Kept(log', earlier)
  <2>1. Head(queue) \in Message
    BY <1>1, <1>2, HeadTailProperties
  <2>2. PICK r \in Entry : r = Record(Head(queue), whole) /\ r.msg = Head(queue)
    <3>1. Record(Head(queue), whole) \in Entry /\ Record(Head(queue), whole).msg = Head(queue)
      BY <2>1 DEF Record, Entry
    <3> QED
      BY <3>1
  <2>3. CASE ragged
    <3>1. log' = [log EXCEPT ![Len(log)] = Append(@, r)]
      BY <1>2, <2>2, <2>3 DEF Written
    <3>2. PICK p : p = <<Len(log), Len(log[Len(log)]) + 1>>
      OBVIOUS
    <3>3. Extended(log, log', p, r) /\ \A e \in Seq(Seq(Entry)) : Kept(log, e) => Kept(log', e)
      BY <1>1, <2>2, <2>3, <3>1, <3>2, LineJoined
    <3>4. p \in Places(log')
      BY ONLY <3>3 DEF Extended
    <3>5. Kept(log', earlier)
      BY <1>1, <3>3 DEF Trail
    <3> QED
      BY <2>1, <2>2, <3>3, <3>4, <3>5
  <2>4. CASE ~ragged
    <3>1. log' = Append(log, <<r>>)
      BY <1>2, <2>2, <2>4 DEF Written
    <3>2. PICK p : p = <<Len(log) + 1, 1>>
      OBVIOUS
    <3>3. Extended(log, log', p, r) /\ \A e \in Seq(Seq(Entry)) : Kept(log, e) => Kept(log', e)
      BY <1>1, <2>2, <3>1, <3>2, LineAdded
    <3>4. p \in Places(log')
      BY ONLY <3>3 DEF Extended
    <3>5. Kept(log', earlier)
      BY <1>1, <3>3 DEF Trail
    <3> QED
      BY <2>1, <2>2, <3>3, <3>4, <3>5
  <2> QED
    BY <2>3, <2>4
<1>3. CASE Deliver
  <2>1. /\ phase = "deliver" /\ phase' = phase /\ queue # <<>> /\ earlier' = earlier
        /\ messages' = Append(messages, Head(queue)) /\ Head(queue) \in Message
    BY <1>1, <1>3, HeadTailProperties DEF Deliver
  <2>2. CASE log' = log
    BY <1>1, <2>1, <2>2, TracedMore DEF Trail
  <2>3. CASE \E whole \in BOOLEAN : log' = Written(Head(queue), whole)
    <3>1. PICK r \in Entry, p \in Places(log') :
                 /\ r.msg = Head(queue) /\ Head(queue) \in Message
                 /\ Extended(log, log', p, r) /\ Kept(log', earlier)
      BY <1>2, <2>1, <2>3
    <3>2. Traced(log', earlier, Append(messages, r.msg))
      BY <1>1, <2>1, <3>1, TracedOne DEF Trail
    <3> QED
      BY <2>1, <3>1, <3>2 DEF Trail
  <2> QED
    BY <1>3, <2>2, <2>3 DEF Deliver, Publish, PublishCutShort, busVars
<1>4. CASE Killed
  <2>1. phase' = "killed" /\ earlier' = earlier
    BY <1>4 DEF Killed
  <2>2. log' = log \/ (queue # <<>> /\ log' = Written(Head(queue), FALSE))
    BY <1>4 DEF Killed, PublishCutShort, busVars
  <2>3. Kept(log', earlier)
    BY <1>2, <2>2 DEF Trail
  <2> QED
    BY <2>1, <2>3 DEF Trail
<1>5. ASSUME UNCHANGED <<log, earlier, messages>>, phase = "killed" => phase' = "killed"
      PROVE  Trail'
  BY <1>5 DEF Trail
<1>6. CASE \/ OrderLayer \/ OrderFails \/ StartRun \/ StartFails \/ TakeNext \/ Gather \/ Skip
           \/ GatherFails \/ StartAgent
  BY <1>5, <1>6 DEF OrderLayer, OrderFails, StartRun, StartFails, TakeNext, Gather, Skip,
                    GatherFails, StartAgent, agentVars, busVars
<1>7. CASE AgentDone \/ AttemptFails \/ Retry \/ AgentFails \/ EndRun \/ Cancel \/ UNCHANGED vars
  BY <1>5, <1>7 DEF AgentDone, AttemptFails, Retry, AgentFails, EndRun, Cancel, agentVars, busVars, vars
<1> QED
  BY <1>3, <1>4, <1>6, <1>7 DEF Next, Step, Done

LEMMA InvarianceTrail == Spec => [](Base /\ Trail)
<1>1. Init => Base /\ Trail
  <2> SUFFICES ASSUME Init PROVE Trail
    BY InitBase
  <2>1. log \in Seq(Seq(Entry)) /\ earlier = log
    BY InitBase DEF Init, Base, Bus
  <2>2. Kept(log, log)
    <3>1. Len(log) \in Nat /\ \A i \in 1..Len(log) : Len(log[i]) \in Nat
      BY <2>1, ElementOfSeq, LenProperties
    <3> QED
      BY <3>1 DEF Kept, Starts
  <2>3. Since(log, log) = {}
    <3> SUFFICES ASSUME NEW x \in Since(log, log) PROVE FALSE
      OBVIOUS
    <3>1. x[1] \in 1..Len(log) /\ x[2] \in 1..Len(log[x[1]]) /\ x[2] > Len(log[x[1]])
      BY DEF Since, Places
    <3>2. Len(log[x[1]]) \in Nat
      BY <2>1, <3>1, ElementOfSeq, LenProperties
    <3> QED
      BY <3>1, <3>2
  <2>4. Traced(log, log, messages)
    <3>1. PICK d : d = [x \in {} |-> 1]
      OBVIOUS
    <3>2. d \in [{} -> DOMAIN messages]
      BY <3>1
    <3> QED
      BY <2>3, <3>2 DEF Traced
  <2> QED
    BY <2>1, <2>2, <2>4 DEF Trail
<1>2. Base /\ Trail /\ [Next]_vars => (Base /\ Trail)'
  <2>1. Base /\ [Next]_vars => Base'
    BY TypesStep, OrderedStep, BusStep DEF Base
  <2> QED
    BY <2>1, TrailStep
<1> QED
  BY <1>1, <1>2, PTL DEF Spec

(* What earlier runs left in the bus file is still there and, until the    *)
(* process is killed, every record added is a message that was delivered,  *)
(* each once and in their order, however many writes were cut short.       *)
THEOREM AuditTrailKept == Spec => []AuditTrail
<1>1. Base /\ Trail => AuditTrail
  <2> SUFFICES ASSUME Base, Trail PROVE AuditTrail
    OBVIOUS
  <2>1. /\ log \in Seq(Seq(Entry)) /\ earlier \in Seq(Seq(Entry))
        /\ Len(log) \in Nat /\ Len(earlier) \in Nat /\ DOMAIN log = 1..Len(log)
    BY LenProperties DEF Base, Bus
  <2>2. ASSUME NEW i \in 1..Len(earlier) PROVE IsPrefix(earlier[i], log[i])
    <3>1. i \in 1..Len(log) /\ Starts(earlier[i], log[i])
      BY <2>1 DEF Trail, Kept
    <3>2. PICK s \in Seq(Entry), t \in Seq(Entry) : s = earlier[i] /\ t = log[i]
      BY <2>1, <3>1, ElementOfSeq
    <3>3. Len(s) \in Nat /\ Len(t) \in Nat /\ Len(s) <= Len(t) /\ \A k \in 1..Len(s) : s[k] = t[k]
      BY <3>1, <3>2, LenProperties DEF Starts
    <3>4. SubSeq(s, 1, Len(s)) = SubSeq(t, 1, Len(s))
      BY <3>3
    <3> QED
      BY <3>2, <3>3, <3>4 DEF IsPrefix
  <2>3. \A i \in 1..Len(log) :
          /\ Len(log[i]) \in Nat /\ Found(i) \in Nat
          /\ i \in 1..Len(earlier) => Found(i) = Len(earlier[i])
          /\ i \notin 1..Len(earlier) => Found(i) = 0
    BY <2>1, ElementOfSeq, LenProperties DEF Found
  <2>4. NewRecords = Since(log, earlier)
    <3>1. ASSUME NEW x \in NewRecords PROVE x \in Since(log, earlier)
      <4>1. PICK i \in 1..Len(log) : x \in {i} \X (Found(i) + 1..Len(log[i]))
        BY <2>1 DEF NewRecords
      <4>2. PICK k \in Found(i) + 1..Len(log[i]) : x = <<i, k>>
        BY <4>1
      <4>3. k \in Nat /\ k > Found(i) /\ k \in 1..Len(log[i]) /\ i \in Nat
        BY <2>1, <2>3
      <4> QED
        BY <2>3, <4>2, <4>3 DEF Since, Places
    <3>2. ASSUME NEW x \in Since(log, earlier) PROVE x \in NewRecords
      <4>1. PICK i \in Nat, k \in Nat : x = <<i, k>> /\ i \in 1..Len(log) /\ k \in 1..Len(log[i])
        BY DEF Since, Places
      <4>2. k > Found(i)
        BY <2>3, <4>1 DEF Since
      <4>3. k \in Found(i) + 1..Len(log[i])
        BY <2>3, <4>1, <4>2
      <4>4. x \in {i} \X (Found(i) + 1..Len(log[i]))
        BY <4>1, <4>3
      <4> QED
        BY <2>1, <4>1, <4>4 DEF NewRecords
    <3> QED
      BY <3>1, <3>2
  <2> QED
    BY <2>2, <2>4 DEF AuditTrail, Trail, Kept, Traced
<1> QED
  BY <1>1, InvarianceTrail, PTL
=============================================================================
