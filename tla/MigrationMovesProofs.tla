------------------------ MODULE MigrationMovesProofs -----------------------
(***************************************************************************)
(* The steps of MigrationLedger as a relation of two contents of the       *)
(* database, and lemmas about it and about the plans of MigrationPlan.     *)
(*                                                                         *)
(* Moves is the ledger's next-state relation on values, so that it can     *)
(* also speak of a transaction that is not committed yet and of one that a *)
(* lost session may still commit.  A move keeps sound contents sound, and  *)
(* under a careful operator it is a step of the ledger.                    *)
(***************************************************************************)
EXTENDS MigrationStateProofs

-----------------------------------------------------------------------------
(* The steps of the ledger as a relation of two contents of the database.  *)

\* Version v comes after every row of the history, or is its last row.
Above(h, v) == \A w \in Keys(h) : w < v
Newest(h, v) == v \in Keys(h) /\ \A w \in Keys(h) : w <= v

\* Version v becomes the last row of the history, or stops being it.
Gains(g, h, v) ==
    /\ Above(g, v)
    /\ \E s \in Sums : h = [g EXCEPT ![v] = [sum |-> s, kind |-> "ordinary"]]
Loses(g, h, v) ==
    /\ Newest(g, v)
    /\ g[v].kind = "ordinary"
    /\ h = [g EXCEPT ![v] = None]
Follows(g, h, v, way) == IF way = "Up" THEN Gains(g, h, v) ELSE Loses(g, h, v)

\* The history is where a script of this version and direction starts from.
Ready(h, v, way) ==
    IF way = "Up" THEN Above(h, v) ELSE Newest(h, v) /\ h[v].kind = "ordinary"

\* Apply and Revert, Mark, Work, Complete and Withdraw, Accept of MigrationLedger.
\* The effect a step starts from is known only under a careful operator.
Migrates(d, e) ==
    /\ Transactional
    /\ d.marker = None /\ e.marker = None
    /\ \E v \in Versions, way \in Direction :
          /\ Follows(d.history, e.history, v, way)
          /\ CarefulOperator => d.schema[v] = Source(way)
          /\ e.schema = [d.schema EXCEPT ![v] = Outcome(way)]
Marks(d, e) ==
    /\ ~Transactional
    /\ d.marker = None /\ e.marker \in Marker
    /\ Ready(d.history, e.marker.version, e.marker.direction)
    /\ e.history = d.history /\ e.schema = d.schema
Works(d, e) ==
    /\ d.marker # None
    /\ \E x \in Effect : e.schema = [d.schema EXCEPT ![d.marker.version] = x]
    /\ e.history = d.history /\ e.marker = d.marker
Closes(d, e) ==
    /\ d.marker # None /\ e.marker = None
    /\ \/ /\ Follows(d.history, e.history, d.marker.version, d.marker.direction)
          /\ CarefulOperator => d.schema[d.marker.version] = Outcome(d.marker.direction)
       \/ /\ e.history = d.history
          /\ CarefulOperator => d.schema[d.marker.version] = Source(d.marker.direction)
    /\ e.schema = d.schema
Accepts(d, e) ==
    /\ d.marker = None /\ e.marker = None
    /\ Keys(d.history) = {} /\ Keys(e.history) = Baselined(e.history)
    /\ e.schema = d.schema
Moves(d, e) ==
    e = d \/ Migrates(d, e) \/ Marks(d, e) \/ Works(d, e) \/ Closes(d, e) \/ Accepts(d, e)

\* Contents every move starts from: only a nontransactional backend marks, the
\* marker is where a script starts from, and the schema follows the history
\* outside the marked version.
Sound(d) ==
    /\ d.marker # None => ~Transactional /\ Ready(d.history, d.marker.version, d.marker.direction)
    /\ CarefulOperator => \A v \in Versions : (d.marker # None /\ d.marker.version = v) \/ Agrees(d, v)

\* The versions S are what is left to do, in this direction, after history h:
\* pending with everything below them, or the newest rows, all ordinary.
Planned(cat, h, way, S) ==
    /\ HistoryFault(cat, h) = "Ok"
    /\ IF way = "Up"
       THEN S \cap Keys(h) = {} /\ \A v \in S : Below(cat, v) \subseteq S \cup Keys(h)
       ELSE \A v \in S : /\ h[v] # None /\ h[v].kind = "ordinary"
                         /\ \A w \in Keys(h) : v < w => w \in S

-----------------------------------------------------------------------------
(* Lemmas about the plan and the history.                                  *)

\* evaluate() accepts a history whose rows are the catalog's first migrations.
LEMMA HistoryInOrder ==
    ASSUME NEW cat \in CatalogType, NEW h \in History, HistoryFault(cat, h) = "Ok",
           NEW v \in Keys(h)
    PROVE  /\ v \in Keys(cat)
           /\ Below(h, v) = Below(cat, v)
           /\ h[v].kind = "baseline" => \A w \in Below(h, v) : h[w].kind # "ordinary"
           /\ h[v].sum = cat[v].sum
<1> DEFINE bad == {x \in Keys(h) : RowFault(cat, h, x) # "Ok"}
<1>1. bad = {}
  <2> SUFFICES ASSUME bad # {} PROVE FALSE
    OBVIOUS
  <2>1. Min(bad) \in bad
    BY Extremes DEF Keys
  <2>2. HistoryFault(cat, h) = RowFault(cat, h, Min(bad))
    BY DEF HistoryFault
  <2> QED BY <2>1, <2>2
<1>2. RowFault(cat, h, v) = "Ok"
  BY <1>1
<1> QED BY <1>2 DEF RowFault, Keys

\* requireValid() accepts only without a marker, and the plan only after it.
LEMMA AcceptedWithoutMarker ==
    ASSUME NEW cat, NEW h, NEW m, Invalid(cat, h, m) = "Ok"
    PROVE  HistoryFault(cat, h) = "Ok" /\ m = None
BY DEF Invalid, Fault, MarkerFault

\* The least pending version has exactly the history below it; the newest
\* planned row is the last of the history.
LEMMA NextIsReady ==
    ASSUME NEW cat \in CatalogType, NEW h \in History, NEW way \in Direction,
           NEW S \in SUBSET Keys(cat), S # {}, Planned(cat, h, way, S)
    PROVE  LET v == NextVersion(way, S)
           IN  /\ v \in S /\ v \in Versions
               /\ Ready(h, v, way)
               /\ (way = "Up") <=> (h[v] = None)
               /\ Fault(cat, h, [version |-> v, direction |-> way, sum |-> cat[v].sum]) = "Ok"
<1>1. PICK v : v = NextVersion(way, S)
  OBVIOUS
<1> DEFINE m == [version |-> v, direction |-> way, sum |-> cat[v].sum]
<1>2. S \in SUBSET Versions /\ \A w \in Versions : w \in Nat /\ w > 0
  BY VersionsAssumption DEF Keys
<1>3. v \in S /\ v \in Versions /\ v \in Nat /\ cat[v] \in Entry /\ v \in Keys(cat)
  BY <1>1, <1>2, Extremes DEF NextVersion, Keys, CatalogType
<1>4. HistoryFault(cat, h) = "Ok"
  BY DEF Planned
<1>5. m \in Marker /\ m # None
  BY <1>3, NoneAssumption DEF Marker, Entry
<1>6. \A w \in Keys(h) : w \in Versions /\ w \in Nat
  BY <1>2 DEF Keys
<1>7. CASE way = "Up"
  <2>1. \A w \in S : v <= w
    BY <1>1, <1>2, <1>7, Extremes DEF NextVersion
  <2>2. v \notin Keys(h) /\ h[v] = None
    BY <1>3, <1>7 DEF Planned, Keys
  <2>3. Below(cat, v) \subseteq Keys(h)
    <3>1. Below(cat, v) \subseteq S \cup Keys(h)
      BY <1>3, <1>7 DEF Planned
    <3>2. ASSUME NEW w \in Below(cat, v) PROVE w \notin S
      <4>1. w < v /\ w \in Nat
        BY <1>2 DEF Below, Keys
      <4> QED BY <1>3, <2>1, <4>1
    <3> QED BY <3>1, <3>2
  <2>4. ASSUME NEW w \in Keys(h) PROVE w \in Below(cat, v) /\ w < v
    <3>1. w \in Keys(cat) /\ Below(h, w) = Below(cat, w)
      BY <1>4, HistoryInOrder
    <3>2. ~(v < w)
      BY <3>1, <1>3, <2>2 DEF Below
    <3>3. w < v
      BY <3>2, <2>2, <1>3, <1>6
    <3> QED BY <3>1, <3>3 DEF Below
  <2>5. Keys(h) = Below(cat, v)
    BY <2>3, <2>4
  <2>6. MarkerInPlace(cat, h, m)
    BY <1>3, <1>7, <2>5 DEF MarkerInPlace, Keys
  <2>7. Fault(cat, h, m) = "Ok"
    BY <1>4, <1>5, <2>6 DEF Fault, MarkerFault
  <2>8. Ready(h, v, way)
    BY <1>7, <2>4 DEF Ready, Above
  <2> QED BY <1>1, <1>3, <1>7, <2>2, <2>7, <2>8
<1>8. CASE way = "Down"
  <2>1. \A w \in S : w <= v
    BY <1>1, <1>2, <1>8, Extremes DEF NextVersion
  <2>2. v \in Keys(h) /\ h[v] # None /\ h[v].kind = "ordinary"
    BY <1>3, <1>8 DEF Planned, Keys
  <2>3. ASSUME NEW w \in Keys(h) PROVE w <= v
    <3>1. v < w => w \in S
      BY <1>3, <1>8 DEF Planned
    <3> QED BY <1>3, <1>6, <2>1, <3>1
  <2>4. Keys(h) = Below(cat, v) \cup {v}
    <3>1. \A w \in Keys(h) : w # v => w < v
      BY <1>3, <1>6, <2>3
    <3>2. Keys(h) = Below(h, v) \cup {v}
      BY <2>2, <3>1 DEF Below
    <3> QED BY <1>4, <2>2, <3>2, HistoryInOrder
  <2>5. v > BaselineVersion(h)
    <3>1. CASE Baselined(h) = {}
      BY <3>1, <1>2, <1>3 DEF BaselineVersion
    <3>2. CASE Baselined(h) # {}
      <4>1. PICK b : b = Max(Baselined(h))
        OBVIOUS
      <4>2. b \in Baselined(h)
        BY <3>2, <4>1, Extremes DEF Baselined, Keys
      <4>3. b # v /\ b \in Keys(h)
        BY <4>2, <2>2 DEF Baselined
      <4>4. b <= v /\ b \in Nat
        BY <4>3, <2>3, <1>6
      <4>5. BaselineVersion(h) = b
        BY <3>2, <4>1 DEF BaselineVersion
      <4> QED BY <4>3, <4>4, <4>5, <1>3
    <3> QED BY <3>1, <3>2
  <2>6. MarkerInPlace(cat, h, m)
    BY <1>3, <1>8, <2>4, <2>5 DEF MarkerInPlace, Keys
  <2>7. Fault(cat, h, m) = "Ok"
    BY <1>4, <1>5, <2>6 DEF Fault, MarkerFault
  <2>8. Ready(h, v, way)
    BY <1>8, <2>2, <2>3 DEF Ready, Newest
  <2> QED BY <1>1, <1>3, <1>8, <2>2, <2>7, <2>8
<1> QED BY <1>7, <1>8 DEF Direction

\* A marker that evaluate() accepts is where a script starts from.
LEMMA MarkerIsReady ==
    ASSUME NEW cat \in CatalogType, NEW h \in History, NEW m \in Marker, Fault(cat, h, m) = "Ok"
    PROVE  Ready(h, m.version, m.direction) /\ m.sum = cat[m.version].sum
<1>1. m # None /\ m.version \in Versions /\ m.direction \in Direction
  BY NoneAssumption DEF Marker
<1>2. HistoryFault(cat, h) = "Ok" /\ MarkerInPlace(cat, h, m) /\ m.sum = cat[m.version].sum
  BY <1>1 DEF Fault, MarkerFault
<1>5. \A w \in Versions : w \in Nat
  BY VersionsAssumption
<1>3. CASE m.direction = "Up"
  <2>1. Keys(h) = Below(cat, m.version)
    BY <1>2, <1>3 DEF MarkerInPlace
  <2>2. Above(h, m.version)
    BY <2>1 DEF Above, Below
  <2> QED BY <1>2, <1>3, <2>2 DEF Ready
<1>4. CASE m.direction = "Down"
  <2>1. Keys(h) = Below(cat, m.version) \cup {m.version} /\ m.version > BaselineVersion(h)
    BY <1>2, <1>4 DEF MarkerInPlace
  <2>2. Newest(h, m.version)
    <3>1. m.version \in Keys(h)
      BY <2>1
    <3>2. ASSUME NEW w \in Keys(h) PROVE w <= m.version
      <4>1. w = m.version \/ w < m.version
        BY <2>1 DEF Below
      <4>2. w \in Nat /\ m.version \in Nat
        BY <1>1, <1>5 DEF Keys
      <4> QED BY <4>1, <4>2
    <3> QED BY <3>1, <3>2 DEF Newest
  <2>3. m.version \notin Baselined(h)
    <3> SUFFICES ASSUME m.version \in Baselined(h) PROVE FALSE
      OBVIOUS
    <3>1. PICK b : b = Max(Baselined(h))
      OBVIOUS
    <3>2. m.version <= b /\ b \in Versions
      BY <3>1, Extremes DEF Baselined, Keys
    <3>3. BaselineVersion(h) = b
      BY <3>1 DEF BaselineVersion
    <3>4. b \in Nat /\ m.version \in Nat
      BY <1>1, <1>5, <3>2
    <3> QED BY <2>1, <3>2, <3>3, <3>4
  <2>4. h[m.version].kind = "ordinary"
    <3>1. h[m.version] \in Row /\ m.version \in Keys(h)
      BY <1>1, <2>1 DEF Keys, History
    <3> QED BY <2>3, <3>1 DEF Baselined, Row
  <2> QED BY <1>2, <1>4, <2>2, <2>4 DEF Ready
<1> QED BY <1>1, <1>3, <1>4 DEF Direction

\* makePlan() selects what is pending up to the target, or the ordinary rows
\* above it.
LEMMA SelectedIsPlanned ==
    ASSUME NEW cat \in CatalogType, NEW h \in History, NEW m, NEW way \in Direction,
           NEW target \in Nat, PlanRefusal(cat, h, m, way, target) = "Ok"
    PROVE  /\ m = None
           /\ Selected(cat, h, way, target) \subseteq Keys(cat)
           /\ Planned(cat, h, way, Selected(cat, h, way, target))
<1> DEFINE S == Selected(cat, h, way, target)
<1>1. HistoryFault(cat, h) = "Ok" /\ m = None
  BY AcceptedWithoutMarker DEF PlanRefusal
<1>2. PICK x : x = CurrentVersion(h)
  OBVIOUS
<1>3. \A w \in Versions : w \in Nat /\ w > 0
  BY VersionsAssumption
<1>4. Keys(h) \in SUBSET Versions /\ Keys(cat) \in SUBSET Versions
  BY DEF Keys
<1>5. x \in Nat /\ (\A w \in Keys(h) : w <= x) /\ (x \in Keys(h) \/ x = 0)
  BY <1>2, <1>3, <1>4, Extremes DEF CurrentVersion
<1>6. ASSUME NEW w \in Keys(cat), w <= x PROVE w \in Keys(h)
  <2>1. w \in Nat /\ w > 0
    BY <1>3, <1>4
  <2>2. x \in Keys(h)
    BY <1>5, <1>6, <2>1
  <2>3. Below(h, x) = Below(cat, x)
    BY <1>1, <2>2, HistoryInOrder
  <2>4. CASE w = x
    BY <2>2, <2>4
  <2>5. CASE w # x
    <3>1. w < x
      BY <1>5, <1>6, <2>1, <2>5
    <3> QED BY <2>3, <3>1 DEF Below
  <2> QED BY <2>4, <2>5
<1>7. S \subseteq Keys(cat)
  BY DEF Selected
<1>8. CASE way = "Up"
  <2>1. \A v : v \in S <=> v \in Keys(cat) /\ x < v /\ v <= target
    BY <1>2, <1>8 DEF Selected
  <2>2. S \cap Keys(h) = {}
    BY <1>3, <1>4, <1>5, <2>1
  <2>3. ASSUME NEW v \in S, NEW w \in Below(cat, v) PROVE w \in S \cup Keys(h)
    <3>1. w \in Keys(cat) /\ w < v
      BY DEF Below
    <3>2. w \in Nat /\ v \in Nat /\ v <= target
      BY <1>3, <1>4, <2>1, <3>1
    <3>3. w <= target
      BY <3>1, <3>2
    <3>4. x < w => w \in S
      BY <2>1, <3>1, <3>3
    <3> QED BY <1>5, <1>6, <3>1, <3>2, <3>4
  <2> QED BY <1>1, <1>7, <1>8, <2>2, <2>3 DEF Planned
<1>9. CASE way = "Down"
  <2>1. \A v : v \in S <=> v \in Keys(cat) /\ target < v /\ v <= x
    BY <1>2, <1>9 DEF Selected
  <2>2. ~(target < BaselineVersion(h))
    BY <1>9 DEF PlanRefusal
  <2>3. ASSUME NEW v \in S PROVE h[v] # None /\ h[v].kind = "ordinary"
    <3>1. v \in Keys(h) /\ target < v /\ v \in Nat
      BY <1>3, <1>4, <1>6, <2>1
    <3>2. v \notin Baselined(h)
      <4> SUFFICES ASSUME v \in Baselined(h) PROVE FALSE
        OBVIOUS
      <4>1. PICK b : b = Max(Baselined(h))
        OBVIOUS
      <4>2. v <= b /\ b \in Versions
        BY <4>1, Extremes DEF Baselined, Keys
      <4>3. BaselineVersion(h) = b
        BY <4>1 DEF BaselineVersion
      <4> QED BY <1>3, <2>2, <3>1, <4>2, <4>3
    <3>3. h[v] \in Row
      BY <3>1 DEF Keys, History
    <3> QED BY <3>1, <3>2, <3>3 DEF Baselined, Keys, Row
  <2>4. ASSUME NEW v \in S, NEW w \in Keys(h), v < w PROVE w \in S
    <3>1. w \in Keys(cat)
      BY <1>1, HistoryInOrder
    <3>2. w <= x /\ w \in Nat /\ v \in Nat /\ target < v
      BY <1>3, <1>4, <1>5, <2>1
    <3> QED BY <2>1, <2>4, <3>1, <3>2
  <2> QED BY <1>1, <1>7, <1>9, <2>3, <2>4 DEF Planned
<1> QED BY <1>1, <1>7, <1>8, <1>9 DEF Direction

\* Once the next version is recorded, the rest of the plan is still a plan.
LEMMA PlanGoesOn ==
    ASSUME NEW cat \in CatalogType, NEW g \in History, NEW h \in History, NEW way \in Direction,
           NEW S, Planned(cat, g, way, S), NEW v \in Versions,
           Follows(g, h, v, way), HistoryFault(cat, h) = "Ok"
    PROVE  Planned(cat, h, way, S \ {v})
<1>1. CASE way = "Up"
  <2>1. PICK s \in Sums : h = [g EXCEPT ![v] = [sum |-> s, kind |-> "ordinary"]]
    BY <1>1 DEF Follows, Gains
  <2>2. h[v] # None
    BY <2>1, NoneAssumption DEF History, Row
  <2>3. Keys(h) = Keys(g) \cup {v}
    BY <2>1, <2>2 DEF Keys, History
  <2> QED BY <1>1, <2>3 DEF Planned
<1>2. CASE way = "Down"
  <2>1. h = [g EXCEPT ![v] = None]
    BY <1>2 DEF Follows, Loses
  <2>2. Keys(h) = Keys(g) \ {v}
    BY <2>1 DEF Keys, History
  <2>3. ASSUME NEW u \in S \ {v}
        PROVE  h[u] # None /\ h[u].kind = "ordinary" /\ \A w \in Keys(h) : u < w => w \in S \ {v}
    <3>1. g[u] # None /\ g[u].kind = "ordinary" /\ \A w \in Keys(g) : u < w => w \in S
      BY <1>2 DEF Planned
    <3>2. h[u] = g[u]
      BY <2>1 DEF History
    <3> QED BY <2>2, <3>1, <3>2
  <2> QED BY <1>2, <2>3 DEF Planned
<1> QED BY <1>1, <1>2 DEF Direction

\* What apply() reads back is the expected history with its own row more or
\* less, whatever the script did to the table before.
LEMMA ReadbackFollows ==
    ASSUME TypeOK, NEW c \in Client, ClientOK(c), pc[c] \in Busy, Migrating(c),
           Ready(expected[c], StepVersion(c), DirectionOf(c)),
           NEW g \in History, Readback(c, expected[c], Written(c, g))
    PROVE  Follows(expected[c], Written(c, g), StepVersion(c), DirectionOf(c))
<1> DEFINE v == StepVersion(c)
           old == expected[c]
           new == Written(c, g)
<1>1. v \in Versions /\ Catalog[c][v] \in Entry /\ DirectionOf(c) \in Direction
  BY StepVersionKnown
<1>2. old \in History /\ new \in History
  BY WrittenTyped DEF TypeOK
<1>3. new = Changed(c, g, v, DirectionOf(c))
  BY DEF Written, Migrating
<1>4. \A w \in Versions : w \in Nat
  BY VersionsAssumption
<1>5. CASE DirectionOf(c) = "Up"
  <2>1. new[v] = [sum |-> Catalog[c][v].sum, kind |-> "ordinary"]
    BY <1>1, <1>3, <1>5 DEF Changed, History
  <2>2. new[v] \in Row /\ new[v] # None
    BY <1>1, <2>1, NoneAssumption DEF Row, Entry
  <2>3. Above(old, v)
    BY <1>5 DEF Ready
  <2>4. v \notin Keys(old)
    BY <1>1, <1>4, <2>3 DEF Above
  <2>5. PICK u \in Keys(new) \ Keys(old) : \A w \in Versions \ {u} : new[w] = old[w]
    BY <1>5 DEF Readback, OneRowMore, Migrating
  <2>6. u = v
    BY <1>1, <2>2, <2>4, <2>5 DEF Keys
  <2>7. new = [old EXCEPT ![v] = [sum |-> Catalog[c][v].sum, kind |-> "ordinary"]]
    BY <1>1, <1>2, <2>1, <2>5, <2>6 DEF History
  <2> QED BY <1>1, <1>5, <2>3, <2>7 DEF Follows, Gains, Entry
<1>6. CASE DirectionOf(c) = "Down"
  <2>1. new[v] = None
    BY <1>1, <1>3, <1>6 DEF Changed, History
  <2>2. Newest(old, v) /\ old[v].kind = "ordinary"
    BY <1>6 DEF Ready
  <2>3. PICK u \in Keys(old) \ Keys(new) : \A w \in Versions \ {u} : new[w] = old[w]
    BY <1>6 DEF Readback, OneRowLess, Migrating
  <2>4. u = v
    BY <1>1, <2>1, <2>2, <2>3 DEF Newest, Keys
  <2>5. new = [old EXCEPT ![v] = None]
    BY <1>1, <1>2, <2>1, <2>3, <2>4 DEF History
  <2> QED BY <1>6, <2>2, <2>5 DEF Follows, Loses
<1> QED BY <1>1, <1>5, <1>6 DEF Direction

-----------------------------------------------------------------------------
(* What every move keeps.                                                  *)

\* The rows after a move of the history: only version v's row is another one.
LEMMA FollowsRows ==
    ASSUME NEW g \in History, NEW h \in History, NEW v \in Versions, NEW way \in Direction,
           Follows(g, h, v, way)
    PROVE  /\ \A w \in Versions \ {v} : h[w] = g[w]
           /\ way = "Up" => g[v] = None /\ h[v] # None /\ h[v].kind = "ordinary"
           /\ way = "Down" => g[v] # None /\ g[v].kind = "ordinary" /\ h[v] = None
<1>1. CASE way = "Up"
  <2>1. PICK s \in Sums : h = [g EXCEPT ![v] = [sum |-> s, kind |-> "ordinary"]]
    BY <1>1 DEF Follows, Gains
  <2>2. h[v] = [sum |-> s, kind |-> "ordinary"] /\ h[v] \in Row
    BY <2>1 DEF History, Row
  <2>3. v \notin Keys(g)
    <3>1. v \in Nat
      BY VersionsAssumption
    <3> QED BY <1>1, <3>1 DEF Follows, Gains, Above
  <2> QED BY <1>1, <2>1, <2>2, <2>3, NoneAssumption DEF History, Keys
<1>2. CASE way = "Down"
  BY <1>2 DEF Follows, Loses, Newest, Keys, History
<1> QED BY <1>1, <1>2 DEF Direction

\* Sound contents stay sound.
LEMMA MovesSound ==
    ASSUME NEW d \in Database, NEW e \in Database, Sound(d), Moves(d, e)
    PROVE  Sound(e)
<1> DEFINE In(x, v) == (x.marker # None /\ x.marker.version = v) \/ Agrees(x, v)
<1>0. /\ d.history \in History /\ d.schema \in Schema /\ d.marker \in Marker \cup {None}
      /\ e.history \in History /\ e.schema \in Schema /\ e.marker \in Marker \cup {None}
  BY DEF Database
<1>1. CASE e = d
  BY <1>1
<1>2. CASE Migrates(d, e)
  <2>1. e.marker = None /\ d.marker = None
    BY <1>2 DEF Migrates
  <2>2. ASSUME CarefulOperator, NEW w \in Versions PROVE In(e, w)
    <3>1. PICK v \in Versions, way \in Direction :
            /\ Follows(d.history, e.history, v, way)
            /\ e.schema = [d.schema EXCEPT ![v] = Outcome(way)]
      BY <1>2 DEF Migrates
    <3>2. Agrees(d, w)
      BY <2>1, <2>2 DEF Sound
    <3>3. CASE w = v
      <4>1. e.schema[w] = Outcome(way)
        BY <1>0, <3>1, <3>3 DEF Schema
      <4>2. /\ way = "Up" => e.history[w] # None /\ e.history[w].kind = "ordinary"
            /\ way = "Down" => e.history[w] = None
        BY <1>0, <3>1, <3>3, FollowsRows
      <4>3. Agrees(e, w)
        BY <4>1, <4>2 DEF Agrees, Outcome, Direction
      <4> QED BY <4>3
    <3>4. CASE w # v
      <4>1. e.schema[w] = d.schema[w] /\ e.history[w] = d.history[w]
        BY <1>0, <3>1, <3>4, FollowsRows DEF Schema
      <4>2. Agrees(e, w)
        BY <3>2, <4>1 DEF Agrees
      <4> QED BY <4>2
    <3> QED BY <3>3, <3>4
  <2> QED BY <2>1, <2>2 DEF Sound
<1>3. CASE Marks(d, e)
  <2>1. /\ ~Transactional /\ d.marker = None /\ e.marker \in Marker
        /\ Ready(e.history, e.marker.version, e.marker.direction)
        /\ e.history = d.history /\ e.schema = d.schema
    BY <1>3 DEF Marks
  <2>2. ASSUME CarefulOperator, NEW w \in Versions PROVE In(e, w)
    <3>1. Agrees(d, w)
      BY <2>1, <2>2 DEF Sound
    <3>2. Agrees(e, w)
      BY <2>1, <3>1 DEF Agrees
    <3> QED BY <3>2
  <2> QED BY <2>1, <2>2 DEF Sound
<1>4. CASE Works(d, e)
  <2>1. PICK x \in Effect : e.schema = [d.schema EXCEPT ![d.marker.version] = x]
    BY <1>4 DEF Works
  <2>2. d.marker # None /\ e.history = d.history /\ e.marker = d.marker
    BY <1>4 DEF Works
  <2>3. ASSUME CarefulOperator, NEW w \in Versions PROVE In(e, w)
    <3>1. CASE d.marker.version = w
      BY <2>2, <3>1
    <3>2. CASE d.marker.version # w
      <4>1. Agrees(d, w)
        BY <2>3, <3>2 DEF Sound
      <4>2. e.schema[w] = d.schema[w]
        BY <1>0, <2>1, <3>2 DEF Schema
      <4>3. Agrees(e, w)
        BY <2>2, <4>1, <4>2 DEF Agrees
      <4> QED BY <4>3
    <3> QED BY <3>1, <3>2
  <2> QED BY <2>2, <2>3 DEF Sound
<1>5. CASE Closes(d, e)
  <2> DEFINE v == d.marker.version
             way == d.marker.direction
  <2>1. /\ d.marker # None /\ e.marker = None /\ e.schema = d.schema
        /\ v \in Versions /\ way \in Direction
        /\ Ready(d.history, v, way)
    BY <1>0, <1>5 DEF Closes, Marker, Sound
  <2>2. ASSUME CarefulOperator, NEW w \in Versions PROVE Agrees(e, w)
    <3>1. w # v => Agrees(d, w)
      BY <2>2 DEF Sound
    <3>2. CASE Follows(d.history, e.history, v, way) /\ d.schema[v] = Outcome(way)
      <4>1. CASE w = v
        BY <1>0, <2>1, <3>2, <4>1, FollowsRows DEF Agrees, Outcome, Direction
      <4>2. CASE w # v
        <5>1. e.history[w] = d.history[w]
          BY <1>0, <2>1, <3>2, <4>2, FollowsRows
        <5> QED BY <2>1, <3>1, <4>2, <5>1 DEF Agrees
      <4> QED BY <4>1, <4>2
    <3>3. CASE e.history = d.history /\ d.schema[v] = Source(way)
      <4>1. CASE w = v
        <5>1. way = "Up" => d.history[v] = None
          <6>1. \A x \in Versions : ~(x < x)
            BY VersionsAssumption
          <6> QED BY <2>1, <6>1 DEF Ready, Above, Keys
        <5>2. way = "Down" => d.history[v] # None /\ d.history[v].kind = "ordinary"
          BY <2>1 DEF Ready, Newest, Keys
        <5> QED BY <2>1, <3>3, <4>1, <5>1, <5>2 DEF Agrees, Source, Direction
      <4>2. CASE w # v
        BY <2>1, <3>1, <3>3, <4>2 DEF Agrees
      <4> QED BY <4>1, <4>2
    <3> QED BY <1>5, <2>2, <3>2, <3>3 DEF Closes
  <2> QED BY <2>1, <2>2 DEF Sound
<1>6. CASE Accepts(d, e)
  <2>1. /\ d.marker = None /\ e.marker = None /\ e.schema = d.schema
        /\ Keys(d.history) = {} /\ Keys(e.history) = Baselined(e.history)
    BY <1>6 DEF Accepts
  <2>2. ASSUME CarefulOperator, NEW w \in Versions PROVE Agrees(e, w)
    <3>1. Agrees(d, w) /\ d.history[w] = None
      BY <2>1, <2>2 DEF Sound, Keys
    <3>2. e.history[w] # None => e.history[w].kind = "baseline"
      BY <2>1 DEF Keys, Baselined
    <3> QED BY <2>1, <3>1, <3>2 DEF Agrees
  <2> QED BY <2>1, <2>2 DEF Sound
<1> QED BY <1>1, <1>2, <1>3, <1>4, <1>5, <1>6 DEF Moves

\* A move changes the history at its end, or fills an empty one with baselines.
LEMMA MovesAtTheEnd ==
    ASSUME NEW d \in Database, NEW e \in Database, Sound(d), Moves(d, e)
    PROVE  \/ e.history = d.history
           \/ \E v \in Versions, way \in Direction : Follows(d.history, e.history, v, way)
           \/ Keys(d.history) = {} /\ Keys(e.history) = Baselined(e.history)
BY DEF Moves, Migrates, Marks, Works, Closes, Accepts, Database, Marker

\* That change is the one row apply() looks for when it reads the history back.
LEMMA FollowsOneRow ==
    ASSUME NEW g \in History, NEW h \in History, NEW v \in Versions, NEW way \in Direction,
           Follows(g, h, v, way)
    PROVE  OneRowMore(g, h) \/ OneRowLess(g, h)
<1>1. \A w \in Versions \ {v} : h[w] = g[w]
  BY FollowsRows
<1>2. CASE way = "Up"
  <2>1. v \in Keys(h) \ Keys(g)
    BY <1>2, FollowsRows DEF Keys
  <2>2. \A w \in Keys(g) : w < v
    BY <1>2 DEF Follows, Gains, Above
  <2> QED BY <1>1, <2>1, <2>2 DEF OneRowMore
<1>3. CASE way = "Down"
  <2>1. v \in Keys(g) \ Keys(h)
    BY <1>3, FollowsRows DEF Keys
  <2>2. \A w \in Keys(g) : w <= v
    BY <1>3 DEF Follows, Loses, Newest
  <2> QED BY <1>1, <2>1, <2>2 DEF OneRowLess
<1> QED BY <1>2, <1>3 DEF Direction

\* No move takes a baseline row away.
LEMMA MovesAboveFloor ==
    ASSUME NEW d \in Database, NEW e \in Database, Sound(d), Moves(d, e),
           NEW w \in Baselined(d.history)
    PROVE  e.history[w] = d.history[w]
<1>1. w \in Keys(d.history) /\ w \in Versions /\ d.history[w] # None /\ d.history[w].kind = "baseline"
  BY DEF Baselined, Keys
<1>2. ASSUME NEW v \in Versions, NEW way \in Direction, Follows(d.history, e.history, v, way)
      PROVE  e.history[w] = d.history[w]
  <2>1. d.history \in History /\ e.history \in History
    BY DEF Database
  <2>2. w # v
    BY <1>1, <1>2, <2>1, FollowsRows DEF Direction
  <2> QED BY <1>1, <1>2, <2>1, <2>2, FollowsRows
<1> QED BY <1>1, <1>2, MovesAtTheEnd

\* No move but the one that closes it touches the marked history or its marker.
LEMMA MovesUnderMarker ==
    ASSUME NEW d \in Database, NEW e \in Database, Sound(d), Moves(d, e), d.marker # None
    PROVE  /\ e.marker \in {d.marker, None}
           /\ e.history # d.history => e.marker = None
BY DEF Moves, Migrates, Marks, Works, Closes, Accepts

\* Under a careful operator a move is a step of MigrationLedger.
LEMMA MovesInLedger ==
    ASSUME CarefulOperator, db \in Database, db' \in Database, Sound(db), Moves(db, db')
    PROVE  [Ledger!Next]_(Ledger!ledger)
<1>0. /\ db.history \in History /\ db.schema \in Schema /\ db.marker \in Marker \cup {None}
      /\ db'.history \in History /\ db'.schema \in Schema /\ db'.marker \in Marker \cup {None}
  BY DEF Database
<1>1. \A f : Ledger!Keys(f) = Keys(f)
  BY DEF Ledger!Keys, Keys
<1>2. \A f : Ledger!Baselined(f) = Baselined(f)
  BY <1>1 DEF Ledger!Baselined, Baselined
<1>3. Ledger!History = History /\ Ledger!Direction = Direction
  BY DEF Ledger!History, History, Ledger!Row, Row, Ledger!Direction, Direction
<1>4. \A h, v : /\ Ledger!Above(h, v) <=> Above(h, v)
                /\ Ledger!Newest(h, v) <=> Newest(h, v)
  BY <1>1 DEF Ledger!Above, Above, Ledger!Newest, Newest
<1>5. ASSUME NEW v \in Versions, NEW way \in Direction, Follows(db.history, db'.history, v, way)
      PROVE  /\ way = "Up" => Ledger!Append(v)
             /\ way = "Down" => Ledger!Remove(v)
  BY <1>4, <1>5 DEF Follows, Gains, Loses, Ledger!Append, Ledger!Remove
<1>6. CASE Migrates(db, db')
  <2>1. PICK v \in Versions, way \in Direction :
          /\ Follows(db.history, db'.history, v, way)
          /\ db.schema[v] = Source(way)
          /\ db'.schema = [db.schema EXCEPT ![v] = Outcome(way)]
    BY <1>6 DEF Migrates
  <2>2. Transactional /\ db'.marker = db.marker
    BY <1>6 DEF Migrates
  <2>3. CASE way = "Up"
    <3>1. Ledger!Apply(v)
      BY <1>5, <2>1, <2>2, <2>3 DEF Ledger!Apply, Source, Outcome
    <3> QED BY <3>1 DEF Ledger!Next
  <2>4. CASE way = "Down"
    <3>1. Ledger!Revert(v)
      BY <1>5, <2>1, <2>2, <2>4 DEF Ledger!Revert, Source, Outcome
    <3> QED BY <3>1 DEF Ledger!Next
  <2> QED BY <2>3, <2>4 DEF Direction
<1>7. CASE Marks(db, db')
  <2> DEFINE m == db'.marker
  <2>1. /\ ~Transactional /\ db.marker = None
        /\ m \in Marker
        /\ Ready(db.history, m.version, m.direction)
        /\ db'.history = db.history /\ db'.schema = db.schema
    BY <1>7 DEF Marks
  <2>2. /\ m.version \in Versions /\ m.direction \in Direction /\ m.sum \in Sums
        /\ m = [version |-> m.version, direction |-> m.direction, sum |-> m.sum]
    BY <2>1 DEF Marker
  <2>3. Ledger!Mark(m.version, m.direction)
    BY <1>4, <2>1, <2>2 DEF Ledger!Mark, Ready
  <2> QED BY <1>3, <2>2, <2>3 DEF Ledger!Next
<1>8. CASE Works(db, db')
  <2>1. Ledger!Work
    BY <1>8 DEF Works, Ledger!Work, Effect
  <2> QED BY <2>1 DEF Ledger!Next
<1>9. CASE Closes(db, db')
  <2> DEFINE v == db.marker.version
             way == db.marker.direction
  <2>1. db.marker # None /\ db'.marker = None /\ db'.schema = db.schema
    BY <1>9 DEF Closes
  <2>2. v \in Versions /\ way \in Direction
    BY <1>0, <2>1 DEF Marker
  <2>3. CASE Follows(db.history, db'.history, v, way) /\ db.schema[v] = Outcome(way)
    <3>1. Ledger!Complete
      BY <1>5, <2>1, <2>2, <2>3 DEF Ledger!Complete, Outcome, Direction
    <3> QED BY <3>1 DEF Ledger!Next
  <2>4. CASE db'.history = db.history /\ db.schema[v] = Source(way)
    <3>1. Ledger!Withdraw
      BY <2>1, <2>4 DEF Ledger!Withdraw, Source
    <3> QED BY <3>1 DEF Ledger!Next
  <2> QED BY <1>9, <2>3, <2>4 DEF Closes
<1>10. CASE Accepts(db, db')
  <2>1. Ledger!Accept
    BY <1>0, <1>1, <1>2, <1>3, <1>10 DEF Accepts, Ledger!Accept
  <2> QED BY <2>1 DEF Ledger!Next
<1>11. CASE db' = db
  BY <1>11 DEF Ledger!ledger
<1> QED BY <1>6, <1>7, <1>8, <1>9, <1>10, <1>11 DEF Moves
=============================================================================
