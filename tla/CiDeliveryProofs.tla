-------------------------- MODULE CiDeliveryProofs --------------------------
(***************************************************************************)
(* Proofs about CiDelivery for any number of notices, commits and          *)
(* conversations and any number of faults: nothing is lost on the way to   *)
(* the journal, nothing is sent twice, destinations stay, and a            *)
(* conversation gets its notices in order.                                 *)
(***************************************************************************)
EXTENDS CiDelivery, TLAPS, SequenceTheorems, WellFoundedInduction

-----------------------------------------------------------------------------
(* The inductive invariant.                                                *)

\* The journal has a row for whatever it knows the status of, and one only.
RowsOK ==
    /\ \A n \in Notice : n \in ToSet(rows) <=> status[n] # "absent"
    /\ \A i, j \in DOMAIN rows : rows[i] = rows[j] => i = j

\* An id leaves the outbox when the journal has it: only such ones are
\* acknowledged, in this connection or the one before.
OutboxOK ==
    /\ \A n \in Notice : issued[n] > 0 => n \in Ids(outbox) \/ status[n] # "absent"
    /\ link.up # None => status[link.up] # "absent"
    /\ stale # None => status[stale] # "absent"

\* A destination is the route of the commit.
RouteOK ==
    \A n \in Notice : /\ dest[n] # None => dest[n] = route[CommitOf[n]]
                      /\ status[n] = "absent" => dest[n] = None

\* What a conversation that is served has sent.
Sending == {"command", "done", "failed"}
WorkOK ==
    \A t \in Thread : active[t] # None /\ active[t].at \in Sending =>
        LET n == active[t].id
        IN  /\ dest[n] = t /\ status[n] = "dispatching" /\ n \notin limbo /\ sent[n] <= 1
            /\ active[t].at = "command" => sent[n] = 0
            /\ active[t].at = "done" => sent[n] = 1

\* Whoever has the dispatcher lock finds nothing under way but what is in limbo.
IdleOK ==
    /\ bridge = "down" => \A t \in Thread : active[t] = None
    /\ \A n \in limbo : status[n] \in {"dispatching", "uncertain"} /\ sent[n] = 0

IInv == TypeOK /\ RowsOK /\ OutboxOK /\ RouteOK /\ WorkOK /\ IdleOK /\ SentOnce

-----------------------------------------------------------------------------
(* Lemmas about sequences.                                                 *)

\* The contents of a queue after an insertion.
LEMMA AppendFacts ==
    ASSUME NEW S, NEW s \in Seq(S), NEW e \in S
    PROVE  /\ Append(s, e) \in Seq(S) /\ ToSet(Append(s, e)) = ToSet(s) \cup {e}
           /\ (\A i, j \in DOMAIN s : s[i] = s[j] => i = j) /\ e \notin ToSet(s) =>
                 \A i, j \in DOMAIN Append(s, e) : Append(s, e)[i] = Append(s, e)[j] => i = j
<1>1. /\ Append(s, e) \in Seq(S) /\ Len(Append(s, e)) = Len(s) + 1
      /\ DOMAIN Append(s, e) = 1..Len(s) + 1 /\ DOMAIN s = 1..Len(s) /\ Len(s) \in Nat
      /\ \A i \in 1..Len(s) : Append(s, e)[i] = s[i]
      /\ Append(s, e)[Len(s) + 1] = e
  BY AppendProperties, LenProperties
<1>2. ToSet(Append(s, e)) = ToSet(s) \cup {e}
  BY <1>1 DEF ToSet
<1>3. ASSUME \A i, j \in DOMAIN s : s[i] = s[j] => i = j, e \notin ToSet(s),
             NEW i \in DOMAIN Append(s, e), NEW j \in DOMAIN Append(s, e), Append(s, e)[i] = Append(s, e)[j]
      PROVE  i = j
  BY <1>1, <1>3 DEF ToSet
<1> QED BY <1>1, <1>2, <1>3

\* A deletion deletes nothing else.
LEMMA WithoutFacts ==
    ASSUME NEW s \in Seq(Entry), NEW n
    PROVE  /\ Without(s, n) \in Seq(Entry)
           /\ \A m \in Ids(s) : m # n => m \in Ids(Without(s, n))
<1>1. CASE n \notin Ids(s)
  BY <1>1 DEF Without
<1>2. CASE n \in Ids(s)
  <2> DEFINE i == CHOOSE i \in DOMAIN s : s[i].id = n
             a == SubSeq(s, 1, i - 1)
             b == SubSeq(s, i + 1, Len(s))
  <2>1. i \in DOMAIN s /\ s[i].id = n
    <3>1. \E k \in DOMAIN s : s[k].id = n
      BY <1>2 DEF Ids, ToSet
    <3> QED BY <3>1
  <2>2. DOMAIN s = 1..Len(s) /\ Len(s) \in Nat
    BY LenProperties
  <2> HIDE DEF i
  <2>3. /\ a \in Seq(Entry) /\ Len(a) = i - 1 /\ \A j \in 1..i - 1 : a[j] = s[j]
        /\ b \in Seq(Entry) /\ Len(b) = Len(s) - i /\ \A j \in 1..Len(s) - i : b[j] = s[i + j]
    BY <2>1, <2>2, SubSeqProperties, SMTT(30)
  <2>4. Without(s, n) = a \o b
    BY <1>2 DEF Without, RemoveAt, i
  <2> HIDE DEF a, b
  <2>5. /\ a \o b \in Seq(Entry) /\ Len(a \o b) = Len(a) + Len(b)
        /\ \A j \in 1..Len(a) + Len(b) : (a \o b)[j] = IF j <= Len(a) THEN a[j] ELSE b[j - Len(a)]
    BY <2>3, ConcatProperties
  <2>6. DOMAIN (a \o b) = 1..Len(s) - 1
    <3>1. DOMAIN (a \o b) = 1..Len(a \o b)
      BY <2>5, LenProperties
    <3>2. Len(a \o b) = Len(s) - 1
      BY <2>1, <2>2, <2>3, <2>5
    <3> QED BY <3>1, <3>2
  <2>7. ASSUME NEW m \in Ids(s), m # n PROVE m \in Ids(a \o b)
    <3>1. PICK k \in 1..Len(s) : s[k].id = m
      BY <2>2 DEF Ids, ToSet
    <3>2. CASE k < i
      <4>1. k \in 1..Len(s) - 1 /\ (a \o b)[k].id = m
        BY <2>1, <2>2, <2>3, <2>5, <3>1, <3>2
      <4> QED BY <2>6, <4>1 DEF Ids, ToSet
    <3>3. CASE k > i
      <4>1. k - 1 \in 1..Len(s) - 1 /\ k - 1 \in 1..Len(a) + Len(b) /\ ~(k - 1 <= Len(a)) /\ k - 1 - Len(a) = k - i
        BY <2>1, <2>2, <2>3, <3>1, <3>3
      <4>2. (a \o b)[k - 1] = b[k - i]
        BY <2>5, <4>1
      <4>3. k - i \in 1..Len(s) - i /\ i + (k - i) = k
        BY <2>1, <2>2, <3>1, <3>3
      <4>4. b[k - i].id = m
        BY <2>3, <3>1, <4>3
      <4> QED BY <2>6, <4>1, <4>2, <4>4 DEF Ids, ToSet
    <3> QED BY <2>1, <2>2, <2>7, <3>1, <3>2, <3>3
  <2> QED BY <2>4, <2>5, <2>7
<1> QED BY <1>1, <1>2

\* An insertion into the outbox adds an id.
LEMMA IdsFacts ==
    ASSUME NEW box \in Seq(Entry), NEW e \in Entry
    PROVE  Append(box, e) \in Seq(Entry) /\ Ids(Append(box, e)) = Ids(box) \cup {e.id}
<1>1. Append(box, e) \in Seq(Entry) /\ ToSet(Append(box, e)) = ToSet(box) \cup {e}
  BY AppendFacts
<1> QED BY <1>1 DEF Ids

\* What sendNext() makes of a connection.
LEMMA SendNextFacts ==
    ASSUME NEW l \in Link, NEW box \in Seq(Entry)
    PROVE  SendNext(l, box) \in Link /\ SendNext(l, box).up = l.up
<1>1. CASE l.bridge /\ ~Inflight(l) /\ box # <<>>
  <2> DEFINE m == [type |-> "notice", id |-> Head(box).id, data |-> Head(box).data]
  <2>1. Head(box) \in Entry
    BY <1>1, HeadTailProperties
  <2>2. m \in Message
    BY <2>1 DEF Message, Entry
  <2>3. l.down \in Seq(Message)
    BY DEF Link
  <2>4. SendNext(l, box) = [l EXCEPT !.down = Append(@, m)]
    BY <1>1 DEF SendNext
  <2> HIDE DEF m
  <2>5. Append(l.down, m) \in Seq(Message)
    BY <2>2, <2>3, AppendProperties
  <2> QED BY <2>4, <2>5 DEF Link
<1>2. CASE ~(l.bridge /\ ~Inflight(l) /\ box # <<>>)
  BY <1>2 DEF SendNext
<1> QED BY <1>1, <1>2

\* Connections that are cut or new.
LEMMA LinkFacts ==
    /\ NoLink \in Link /\ NoLink.up = None
    /\ [NoLink EXCEPT !.bridge = TRUE] \in Link /\ [NoLink EXCEPT !.bridge = TRUE].up = None
    /\ \A l \in Link : Cut(l) \in Link /\ Cut(l).up = l.up
<1>1. <<>> \in Seq(Message)
  BY EmptySeq
<1> QED BY <1>1 DEF NoLink, Link, Cut

\* What the bridge receives: a message, and contents if it is a notice.
LEMMA HeadFacts ==
    ASSUME TypeOK, link.down # <<>>
    PROVE  /\ Head(link.down).id \in Notice /\ Tail(link.down) \in Seq(Message)
           /\ Head(link.down).type = "notice" => Head(link.down).data \in Nat
<1>1. link.down \in Seq(Message)
  BY DEF TypeOK, Link
<1>2. Head(link.down) \in Message /\ Tail(link.down) \in Seq(Message)
  BY <1>1, HeadTailProperties
<1> QED BY <1>2 DEF Message

-----------------------------------------------------------------------------
(* The receiver and the connection.                                        *)

\* ingest().
LEMMA IssueStep ==
    ASSUME IInv, NEW n \in Notice, Issue(n)
    PROVE  IInv'
<1> USE DeliveryAssumption DEF Issue, journal
<1>0. TypeOK /\ RowsOK /\ OutboxOK /\ RouteOK /\ WorkOK /\ IdleOK /\ SentOnce
  BY DEF IInv
<1>9. issued' \in [Notice -> Nat] /\ issued'[n] \in Nat /\ \A m \in Notice : m # n => issued'[m] = issued[m]
  BY <1>0 DEF TypeOK
<1>8. /\ outbox' \in Seq(Entry) /\ Ids(outbox') = Ids(outbox) \cup {n}
      /\ link' \in Link /\ link'.up = link.up
  <2> DEFINE e == [id |-> n, data |-> issued'[n]]
  <2>1. e \in Entry /\ e.id = n
    BY <1>9 DEF Entry
  <2>2. outbox' = IF n \in Ids(outbox) THEN outbox ELSE Append(outbox, e)
    OBVIOUS
  <2>3. outbox \in Seq(Entry) /\ link \in Link
    BY <1>0 DEF TypeOK
  <2> HIDE DEF e
  <2>4. outbox' \in Seq(Entry) /\ Ids(outbox') = Ids(outbox) \cup {n}
    BY <2>1, <2>2, <2>3, IdsFacts
  <2>5. SendNext(link, outbox') \in Link /\ SendNext(link, outbox').up = link.up
    BY <2>3, <2>4, SendNextFacts
  <2> QED BY <2>4, <2>5
<1>1. TypeOK'
  BY <1>0, <1>8, <1>9 DEF TypeOK
<1>2. RowsOK'
  BY <1>0 DEF TypeOK, RowsOK
<1>3. OutboxOK'
  BY <1>0, <1>8, <1>9 DEF TypeOK, OutboxOK
<1>4. RouteOK'
  BY <1>0 DEF TypeOK, RouteOK
<1>5. WorkOK'
  BY <1>0 DEF TypeOK, WorkOK, Sending
<1>6. IdleOK'
  BY <1>0 DEF TypeOK, IdleOK
<1>7. SentOnce'
  BY <1>0 DEF TypeOK, SentOnce
<1> QED BY <1>1, <1>2, <1>3, <1>4, <1>5, <1>6, <1>7 DEF IInv

\* An acknowledgment is received.
LEMMA ReceiveAckStep ==
    ASSUME IInv, ReceiveAck
    PROVE  IInv'
<1> USE DEF journal
<1>0. TypeOK /\ RowsOK /\ OutboxOK /\ RouteOK /\ WorkOK /\ IdleOK /\ SentOnce
  BY DEF IInv
<1>8. outbox' \in Seq(Entry) /\ \A m \in Ids(outbox) : m # link.up => m \in Ids(outbox')
  BY <1>0, WithoutFacts DEF TypeOK, ReceiveAck
<1>9. /\ link' \in Link /\ link'.up = None /\ link.up # None
      /\ UNCHANGED <<issued, stale, bridge, rows, status, data, dest, route, owner, active, limbo, sent, faults>>
  <2> DEFINE l == [link EXCEPT !.up = None,
                      !.down = IF link.bridge THEN Append(@, [type |-> "acked", id |-> link.up]) ELSE @]
  <2>1. link \in Link /\ link.up \in Notice /\ link.down \in Seq(Message)
    BY <1>0 DEF TypeOK, ReceiveAck, Link
  <2>2. Append(link.down, [type |-> "acked", id |-> link.up]) \in Seq(Message)
    BY <2>1, AppendProperties DEF Message
  <2>3. l \in Link /\ l.up = None
    BY <2>1, <2>2 DEF Link
  <2>4. link' = SendNext(l, outbox')
    BY DEF ReceiveAck
  <2> HIDE DEF l
  <2> QED BY <1>8, <2>3, <2>4, SendNextFacts DEF ReceiveAck
<1>1. TypeOK'
  BY <1>0, <1>8, <1>9 DEF TypeOK
<1>2. RowsOK'
  BY <1>0, <1>9 DEF RowsOK
<1>3. OutboxOK'
  BY <1>0, <1>8, <1>9 DEF TypeOK, OutboxOK, Link
<1>4. RouteOK'
  BY <1>0, <1>9 DEF RouteOK
<1>5. WorkOK'
  BY <1>0, <1>9 DEF WorkOK
<1>6. IdleOK'
  BY <1>0, <1>9 DEF IdleOK
<1>7. SentOnce'
  BY <1>0, <1>9 DEF SentOnce
<1> QED BY <1>1, <1>2, <1>3, <1>4, <1>5, <1>6, <1>7 DEF IInv

\* An acknowledgment of the connection before.
LEMMA ReceiveStaleAckStep ==
    ASSUME IInv, ReceiveStaleAck
    PROVE  IInv'
<1> USE DeliveryAssumption DEF ReceiveStaleAck, journal
<1>0. TypeOK /\ RowsOK /\ OutboxOK /\ RouteOK /\ WorkOK /\ IdleOK /\ SentOnce
  BY DEF IInv
<1>8. outbox' \in Seq(Entry) /\ \A m \in Ids(outbox) : m # stale => m \in Ids(outbox')
  BY <1>0, WithoutFacts DEF TypeOK
<1>1. TypeOK'
  BY <1>0, <1>8 DEF TypeOK
<1>2. RowsOK'
  BY <1>0 DEF TypeOK, RowsOK
<1>3. OutboxOK'
  BY <1>0, <1>8 DEF TypeOK, OutboxOK
<1>4. RouteOK'
  BY <1>0 DEF TypeOK, RouteOK
<1>5. WorkOK'
  BY <1>0 DEF TypeOK, WorkOK, Sending
<1>6. IdleOK'
  BY <1>0 DEF TypeOK, IdleOK
<1>7. SentOnce'
  BY <1>0 DEF TypeOK, SentOnce
<1> QED BY <1>1, <1>2, <1>3, <1>4, <1>5, <1>6, <1>7 DEF IInv

\* A new connection.
LEMMA ConnectStep ==
    ASSUME IInv, Connect
    PROVE  IInv'
<1> USE DeliveryAssumption DEF Connect, journal
<1>0. TypeOK /\ RowsOK /\ OutboxOK /\ RouteOK /\ WorkOK /\ IdleOK /\ SentOnce
  BY DEF IInv
<1>8. link' \in Link /\ link'.up = None /\ (stale' = None \/ stale' = link.up) /\ stale' \in Notice \cup {None}
  <2> DEFINE l == [NoLink EXCEPT !.bridge = TRUE]
  <2>1. l \in Link /\ l.up = None
    BY LinkFacts
  <2>2. link' = SendNext(l, outbox) /\ outbox \in Seq(Entry)
    BY <1>0 DEF TypeOK
  <2> HIDE DEF l
  <2>3. link' \in Link /\ link'.up = None
    BY <2>1, <2>2, SendNextFacts
  <2>4. link.up \in Notice \cup {None}
    BY <1>0 DEF TypeOK, Link
  <2> QED BY <2>3, <2>4
<1>1. TypeOK'
  BY <1>0, <1>8 DEF TypeOK
<1>2. RowsOK'
  BY <1>0 DEF TypeOK, RowsOK
<1>3. OutboxOK'
  BY <1>0, <1>8 DEF TypeOK, OutboxOK
<1>4. RouteOK'
  BY <1>0 DEF TypeOK, RouteOK
<1>5. WorkOK'
  BY <1>0 DEF TypeOK, WorkOK, Sending
<1>6. IdleOK'
  BY <1>0 DEF TypeOK, IdleOK
<1>7. SentOnce'
  BY <1>0 DEF TypeOK, SentOnce
<1> QED BY <1>1, <1>2, <1>3, <1>4, <1>5, <1>6, <1>7 DEF IInv

\* A broken connection.
LEMMA DisconnectStep ==
    ASSUME IInv, Disconnect
    PROVE  IInv'
<1> USE DeliveryAssumption DEF Disconnect, Break, journal
<1>0. TypeOK /\ RowsOK /\ OutboxOK /\ RouteOK /\ WorkOK /\ IdleOK /\ SentOnce
  BY DEF IInv
<1>8. link' \in Link /\ (link'.up = None \/ link'.up = link.up)
  <2>1. link \in Link
    BY <1>0 DEF TypeOK
  <2>2. link' = Cut(link) \/ link' = NoLink
    OBVIOUS
  <2> QED BY <2>1, <2>2, LinkFacts
<1>1. TypeOK'
  BY <1>0, <1>8 DEF TypeOK
<1>2. RowsOK'
  BY <1>0 DEF TypeOK, RowsOK
<1>3. OutboxOK'
  BY <1>0, <1>8 DEF TypeOK, OutboxOK
<1>4. RouteOK'
  BY <1>0 DEF TypeOK, RouteOK
<1>5. WorkOK'
  BY <1>0 DEF TypeOK, WorkOK, Sending
<1>6. IdleOK'
  BY <1>0 DEF TypeOK, IdleOK
<1>7. SentOnce'
  BY <1>0 DEF TypeOK, SentOnce
<1> QED BY <1>1, <1>2, <1>3, <1>4, <1>5, <1>6, <1>7 DEF IInv

-----------------------------------------------------------------------------
(* The journal.                                                            *)

\* resolveWaiting() moves notices from waiting to ready and gives them the route
\* of their commit; nothing else changes.
LEMMA ResolveFacts ==
    ASSUME TypeOK, NEW r \in [Commit -> Thread \cup {None}], Resolve(r)
    PROVE  /\ dest' \in [Notice -> Thread \cup {None}]
           /\ status' \in [Notice -> {"absent", "waiting_for_route", "ready", "dispatching", "uncertain", "accepted"}]
           /\ \A n \in Notice :
                 \/ status'[n] = status[n] /\ dest'[n] = dest[n]
                 \/ /\ status[n] = "waiting_for_route" /\ dest[n] = None
                    /\ status'[n] = "ready" /\ dest'[n] = r[CommitOf[n]]
BY DeliveryAssumption DEF TypeOK, Resolve, Waiting

\* register() and adopt().
LEMMA RegisterStep ==
    ASSUME IInv, NEW c \in Commit, NEW t \in Thread, Register(c, t)
    PROVE  IInv'
<1> USE DeliveryAssumption DEF Register, MayRegister, transport
<1>0. TypeOK /\ RowsOK /\ OutboxOK /\ RouteOK /\ WorkOK /\ IdleOK /\ SentOnce
  BY DEF IInv
<1>8. /\ dest' \in [Notice -> Thread \cup {None}]
      /\ status' \in [Notice -> {"absent", "waiting_for_route", "ready", "dispatching", "uncertain", "accepted"}]
      /\ \A n \in Notice :
            \/ status'[n] = status[n] /\ dest'[n] = dest[n]
            \/ /\ status[n] = "waiting_for_route" /\ dest[n] = None
               /\ status'[n] = "ready" /\ dest'[n] = route'[CommitOf[n]]
  BY <1>0, ResolveFacts DEF TypeOK
<1>9. \A u \in Thread : active[u] # None => active[u].id \in Notice
  BY <1>0 DEF TypeOK, Dispatch
<1>10. link.up \in Notice \cup {None} /\ limbo \subseteq Notice
  BY <1>0 DEF TypeOK, Link
<1>1. TypeOK'
  BY <1>0, <1>8 DEF TypeOK, Owner
<1>2. RowsOK'
  BY <1>0, <1>8 DEF RowsOK
<1>3. OutboxOK'
  BY <1>0, <1>8, <1>10 DEF TypeOK, OutboxOK
<1>4. RouteOK'
  BY <1>0, <1>8 DEF TypeOK, RouteOK
<1>5. WorkOK'
  BY <1>0, <1>8, <1>9 DEF WorkOK, Sending
<1>6. IdleOK'
  BY <1>0, <1>8, <1>10 DEF IdleOK
<1>7. SentOnce'
  BY <1>0, <1>8 DEF TypeOK, SentOnce
<1> QED BY <1>1, <1>2, <1>3, <1>4, <1>5, <1>6, <1>7 DEF IInv

\* transfer().
LEMMA TransferStep ==
    ASSUME IInv, NEW from \in Thread, NEW to \in Thread, Transfer(from, to)
    PROVE  IInv'
<1> USE DeliveryAssumption DEF Transfer, transport
<1>0. TypeOK /\ RowsOK /\ OutboxOK /\ RouteOK /\ WorkOK /\ IdleOK /\ SentOnce
  BY DEF IInv
<1>1. TypeOK'
  BY <1>0 DEF TypeOK, Owner
<1>2. RowsOK'
  BY <1>0 DEF TypeOK, RowsOK
<1>3. OutboxOK'
  BY <1>0 DEF TypeOK, OutboxOK
<1>4. RouteOK'
  BY <1>0 DEF TypeOK, RouteOK
<1>5. WorkOK'
  BY <1>0 DEF TypeOK, WorkOK, Sending
<1>6. IdleOK'
  BY <1>0 DEF TypeOK, IdleOK
<1>7. SentOnce'
  BY <1>0 DEF TypeOK, SentOnce
<1> QED BY <1>1, <1>2, <1>3, <1>4, <1>5, <1>6, <1>7 DEF IInv

\* closeBranch().
LEMMA CloseBranchStep ==
    ASSUME IInv, NEW t \in Thread, CloseBranch(t)
    PROVE  IInv'
<1> USE DeliveryAssumption DEF CloseBranch, transport
<1>0. TypeOK /\ RowsOK /\ OutboxOK /\ RouteOK /\ WorkOK /\ IdleOK /\ SentOnce
  BY DEF IInv
<1>1. TypeOK'
  BY <1>0 DEF TypeOK, Owner
<1>2. RowsOK'
  BY <1>0 DEF TypeOK, RowsOK
<1>3. OutboxOK'
  BY <1>0 DEF TypeOK, OutboxOK
<1>4. RouteOK'
  BY <1>0 DEF TypeOK, RouteOK
<1>5. WorkOK'
  BY <1>0 DEF TypeOK, WorkOK, Sending
<1>6. IdleOK'
  BY <1>0 DEF TypeOK, IdleOK
<1>7. SentOnce'
  BY <1>0 DEF TypeOK, SentOnce
<1> QED BY <1>1, <1>2, <1>3, <1>4, <1>5, <1>6, <1>7 DEF IInv

\* reconcile(), while no dispatch() is under way.
LEMMA ReconcileStep ==
    ASSUME IInv, NEW n \in Notice, Reconcile(n)
    PROVE  IInv'
<1> USE DeliveryAssumption DEF Reconcile, LockFree, transport
<1>0. TypeOK /\ RowsOK /\ OutboxOK /\ RouteOK /\ WorkOK /\ IdleOK /\ SentOnce
  BY DEF IInv
<1>1. TypeOK'
  BY <1>0 DEF TypeOK
<1>2. RowsOK'
  BY <1>0 DEF TypeOK, RowsOK
<1>3. OutboxOK'
  BY <1>0 DEF TypeOK, OutboxOK
<1>4. RouteOK'
  BY <1>0 DEF TypeOK, RouteOK
<1>5. WorkOK'
  BY <1>0 DEF TypeOK, WorkOK, IdleOK
<1>6. IdleOK'
  BY <1>0 DEF TypeOK, IdleOK
<1>7. SentOnce'
  BY <1>0 DEF TypeOK, SentOnce
<1> QED BY <1>1, <1>2, <1>3, <1>4, <1>5, <1>6, <1>7 DEF IInv

-----------------------------------------------------------------------------
(* The bridge.                                                             *)

\* connectBridge() recovers what was being sent.
LEMMA StartStep ==
    ASSUME IInv, Start
    PROVE  IInv'
<1> USE DeliveryAssumption DEF Start, Recovered, transport
<1>0. TypeOK /\ RowsOK /\ OutboxOK /\ RouteOK /\ WorkOK /\ IdleOK /\ SentOnce
  BY DEF IInv
<1>1. TypeOK'
  BY <1>0 DEF TypeOK
<1>2. RowsOK'
  BY <1>0 DEF TypeOK, RowsOK
<1>3. OutboxOK'
  BY <1>0 DEF TypeOK, OutboxOK, Link
<1>4. RouteOK'
  BY <1>0 DEF TypeOK, RouteOK
<1>5. WorkOK'
  BY <1>0 DEF TypeOK, WorkOK, IdleOK
<1>6. IdleOK'
  BY <1>0 DEF TypeOK, IdleOK
<1>7. SentOnce'
  BY <1>0 DEF TypeOK, SentOnce
<1> QED BY <1>1, <1>2, <1>3, <1>4, <1>5, <1>6, <1>7 DEF IInv

\* intake() records a notice once and pins the route there is.
LEMMA IntakeFacts ==
    ASSUME IInv, NEW n \in Notice, NEW p \in Nat, Intake(n, p)
    PROVE  /\ rows' \in Seq(Notice) /\ data' \in [Notice -> Nat]
           /\ dest' \in [Notice -> Thread \cup {None}]
           /\ status' \in [Notice -> {"absent", "waiting_for_route", "ready", "dispatching", "uncertain", "accepted"}]
           /\ status'[n] # "absent"
           /\ \A m \in Notice :
                 \/ status'[m] = status[m] /\ dest'[m] = dest[m]
                 \/ /\ m = n /\ status[m] = "absent" /\ status'[m] \in {"waiting_for_route", "ready"}
                    /\ dest'[m] = route[CommitOf[m]]
           /\ \A m \in Notice : m \in ToSet(rows') <=> status'[m] # "absent"
           /\ \A i, j \in DOMAIN rows' : rows'[i] = rows'[j] => i = j
<1>0. TypeOK /\ RowsOK
  BY DEF IInv
<1>1. CASE status[n] = "absent"
  <2>1. /\ rows' = Append(rows, n) /\ data' = [data EXCEPT ![n] = p]
        /\ dest' = [dest EXCEPT ![n] = route[CommitOf[n]]]
        /\ status' = [status EXCEPT ![n] = IF route[CommitOf[n]] = None THEN "waiting_for_route" ELSE "ready"]
    BY <1>1 DEF Intake
  <2>2. route[CommitOf[n]] \in Thread \cup {None}
    BY <1>0, DeliveryAssumption DEF TypeOK
  <2>3. n \notin ToSet(rows)
    BY <1>0, <1>1 DEF RowsOK
  <2>4. rows' \in Seq(Notice) /\ ToSet(rows') = ToSet(rows) \cup {n} /\ \A i, j \in DOMAIN rows' : rows'[i] = rows'[j] => i = j
    <3>1. rows \in Seq(Notice) /\ \A i, j \in DOMAIN rows : rows[i] = rows[j] => i = j
      BY <1>0 DEF TypeOK, RowsOK
    <3> DEFINE r == Append(rows, n)
    <3>2. r \in Seq(Notice) /\ ToSet(r) = ToSet(rows) \cup {n} /\ \A i, j \in DOMAIN r : r[i] = r[j] => i = j
      BY <2>3, <3>1, AppendFacts
    <3>3. rows' = r
      BY <2>1
    <3> QED BY <3>2, <3>3
  <2>5. dest' \in [Notice -> Thread \cup {None}] /\ \A m \in Notice : dest'[m] = IF m = n THEN route[CommitOf[n]] ELSE dest[m]
    BY <1>0, <2>1, <2>2 DEF TypeOK
  <2>6. /\ status' \in [Notice -> {"absent", "waiting_for_route", "ready", "dispatching", "uncertain", "accepted"}]
        /\ status'[n] \in {"waiting_for_route", "ready"}
        /\ \A m \in Notice : m # n => status'[m] = status[m]
    BY <1>0, <2>1 DEF TypeOK
  <2>7. \A m \in Notice : m \in ToSet(rows') <=> status'[m] # "absent"
    BY <1>0, <2>4, <2>6 DEF RowsOK
  <2>8. data' \in [Notice -> Nat]
    BY <1>0, <2>1 DEF TypeOK
  <2> QED BY <1>1, <2>4, <2>5, <2>6, <2>7, <2>8
<1>2. CASE status[n] # "absent"
  <2>1. UNCHANGED <<rows, status, data, dest>>
    BY <1>2 DEF Intake
  <2> QED BY <1>0, <1>2, <2>1 DEF TypeOK, RowsOK
<1> QED BY <1>1, <1>2

\* A notice is received, recorded and acknowledged.
LEMMA ReceiveNoticeStep ==
    ASSUME IInv, ReceiveNotice
    PROVE  IInv'
<1> DEFINE n == Head(link.down).id
           p == Head(link.down).data
<1>0. TypeOK /\ RowsOK /\ OutboxOK /\ RouteOK /\ WorkOK /\ IdleOK /\ SentOnce
  BY DEF IInv
<1>8. n \in Notice /\ p \in Nat /\ link' \in Link /\ link'.up = n
  <2>1. link.down # <<>> /\ link \in Link /\ Head(link.down).type = "notice"
    BY <1>0 DEF TypeOK, ReceiveNotice, Receives
  <2>2. n \in Notice /\ p \in Nat /\ Tail(link.down) \in Seq(Message)
    BY <1>0, <2>1, HeadFacts
  <2>3. link' = [link EXCEPT !.down = Tail(@), !.up = n]
    BY DEF ReceiveNotice
  <2> HIDE DEF n, p
  <2> QED BY <2>1, <2>2, <2>3 DEF Link
<1>9. Intake(n, p) /\ UNCHANGED <<issued, outbox, stale, bridge, route, owner, active, limbo, sent, faults>>
  BY DEF ReceiveNotice
<1> HIDE DEF n, p
<1>10. /\ rows' \in Seq(Notice) /\ data' \in [Notice -> Nat]
       /\ dest' \in [Notice -> Thread \cup {None}]
       /\ status' \in [Notice -> {"absent", "waiting_for_route", "ready", "dispatching", "uncertain", "accepted"}]
       /\ status'[n] # "absent"
       /\ \A m \in Notice :
             \/ status'[m] = status[m] /\ dest'[m] = dest[m]
             \/ /\ status[m] = "absent" /\ status'[m] \in {"waiting_for_route", "ready"}
                /\ dest'[m] = route[CommitOf[m]]
       /\ \A m \in Notice : m \in ToSet(rows') <=> status'[m] # "absent"
       /\ \A i, j \in DOMAIN rows' : rows'[i] = rows'[j] => i = j
  BY <1>8, <1>9, IntakeFacts
<1>1. TypeOK'
  BY <1>0, <1>8, <1>9, <1>10 DEF TypeOK
<1>2. RowsOK'
  BY <1>10 DEF RowsOK
<1>3. OutboxOK'
  BY <1>0, <1>8, <1>9, <1>10 DEF TypeOK, OutboxOK
<1>4. RouteOK'
  BY <1>0, <1>9, <1>10 DEF RouteOK
<1>5. WorkOK'
  <2>1. \A t \in Thread : active[t] # None => active[t].id \in Notice
    BY <1>0 DEF TypeOK, Dispatch
  <2> QED BY <1>0, <1>9, <1>10, <2>1 DEF WorkOK, Sending
<1>6. IdleOK'
  BY <1>0, <1>9, <1>10 DEF TypeOK, IdleOK
<1>7. SentOnce'
  BY <1>0, <1>9, <1>10 DEF SentOnce
<1> QED BY <1>1, <1>2, <1>3, <1>4, <1>5, <1>6, <1>7 DEF IInv

\* What conflicts with the journal is refused.
LEMMA RefuseNoticeStep ==
    ASSUME IInv, RefuseNotice
    PROVE  IInv'
<1> USE DeliveryAssumption DEF RefuseNotice, journal
<1>0. TypeOK /\ RowsOK /\ OutboxOK /\ RouteOK /\ WorkOK /\ IdleOK /\ SentOnce
  BY DEF IInv
<1>8. link' \in Link /\ link'.up = None
  BY LinkFacts
<1>1. TypeOK'
  BY <1>0, <1>8 DEF TypeOK
<1>2. RowsOK'
  BY <1>0 DEF TypeOK, RowsOK
<1>3. OutboxOK'
  BY <1>0, <1>8 DEF OutboxOK
<1>4. RouteOK'
  BY <1>0 DEF TypeOK, RouteOK
<1>5. WorkOK'
  BY <1>0 DEF TypeOK, WorkOK, Sending
<1>6. IdleOK'
  BY <1>0 DEF TypeOK, IdleOK
<1>7. SentOnce'
  BY <1>0 DEF TypeOK, SentOnce
<1> QED BY <1>1, <1>2, <1>3, <1>4, <1>5, <1>6, <1>7 DEF IInv

\* The receiver has released a notice.
LEMMA ReceiveAckedStep ==
    ASSUME IInv, ReceiveAcked
    PROVE  IInv'
<1> USE DeliveryAssumption DEF ReceiveAcked, journal
<1>0. TypeOK /\ RowsOK /\ OutboxOK /\ RouteOK /\ WorkOK /\ IdleOK /\ SentOnce
  BY DEF IInv
<1>8. link' \in Link /\ link'.up = link.up
  <2>1. link.down # <<>> /\ link \in Link
    BY <1>0 DEF TypeOK, Receives
  <2>2. Tail(link.down) \in Seq(Message)
    BY <1>0, <2>1, HeadFacts
  <2> QED BY <2>1, <2>2 DEF Link
<1>1. TypeOK'
  BY <1>0, <1>8 DEF TypeOK
<1>2. RowsOK'
  BY <1>0 DEF TypeOK, RowsOK
<1>3. OutboxOK'
  BY <1>0, <1>8 DEF OutboxOK
<1>4. RouteOK'
  BY <1>0 DEF TypeOK, RouteOK
<1>5. WorkOK'
  BY <1>0 DEF TypeOK, WorkOK, Sending
<1>6. IdleOK'
  BY <1>0 DEF TypeOK, IdleOK
<1>7. SentOnce'
  BY <1>0 DEF TypeOK, SentOnce
<1> QED BY <1>1, <1>2, <1>3, <1>4, <1>5, <1>6, <1>7 DEF IInv

\* candidates(): a conversation that has open notices has a first one.
LEMMA FirstIsOpen ==
    ASSUME TypeOK, NEW t \in Thread, Open(t) # {}
    PROVE  First(t) \in Open(t) /\ First(t) \in Notice
<1>1. \A n \in Open(t) : n \in ToSet(rows)
  BY DEF Open
<1>2. \A n \in ToSet(rows) : n \in Notice /\ Position(n) \in DOMAIN rows
  <2>1. DOMAIN rows = 1..Len(rows) /\ \A i \in 1..Len(rows) : rows[i] \in Notice
    BY LenProperties, ElementOfSeq DEF TypeOK
  <2> QED BY <2>1 DEF ToSet, Position
<1>3. DOMAIN rows \subseteq Nat
  BY LenProperties DEF TypeOK
<1> DEFINE P == {Position(n) : n \in Open(t)}
<1>4. P \subseteq Nat /\ P # {}
  <2>1. \A n \in Open(t) : Position(n) \in Nat
    BY <1>1, <1>2, <1>3
  <2> QED BY <2>1, Zenon
<1>5. PICK p \in P : \A q \in P : ~(<<q, p>> \in OpToRel(<, Nat))
  BY <1>4, WFMin, NatLessThanWellFounded
<1>6. PICK n \in Open(t) : p = Position(n)
  BY <1>5
<1>7. ASSUME NEW m \in Open(t) PROVE Position(n) <= Position(m)
  <2>1. Position(m) \in P
    OBVIOUS
  <2>2. ~(Position(m) < Position(n))
    BY <1>4, <1>5, <1>6, <2>1 DEF OpToRel
  <2>3. Position(m) \in Nat /\ Position(n) \in Nat
    BY <1>4, <1>6, <2>1
  <2> QED BY <2>2, <2>3
<1>8. First(t) \in Open(t)
  BY <1>7 DEF First
<1> QED BY <1>1, <1>2, <1>8

\* wake().
LEMMA WakeStep ==
    ASSUME IInv, Wake
    PROVE  IInv'
<1>0. TypeOK /\ RowsOK /\ OutboxOK /\ RouteOK /\ WorkOK /\ IdleOK /\ SentOnce
  BY DEF IInv
<1>8. /\ dest' \in [Notice -> Thread \cup {None}]
      /\ status' \in [Notice -> {"absent", "waiting_for_route", "ready", "dispatching", "uncertain", "accepted"}]
      /\ \A n \in Notice :
            \/ status'[n] = status[n] /\ dest'[n] = dest[n]
            \/ /\ status[n] = "waiting_for_route" /\ dest[n] = None
               /\ status'[n] = "ready" /\ dest'[n] = route[CommitOf[n]]
  BY <1>0, ResolveFacts DEF TypeOK, Wake
<1>9. \A t \in Thread : active[t] # None => active[t].id \in Notice
  BY <1>0 DEF TypeOK, Dispatch
<1>10. link.up \in Notice \cup {None} /\ limbo \subseteq Notice
  BY <1>0 DEF TypeOK, Link
<1>11. /\ active' \in [Thread -> Dispatch \cup {None}]
       /\ \A t \in Thread : active'[t] = active[t] \/ active'[t].at = "probe"
  <2>1. PICK chosen \in SUBSET Thread :
            /\ \A t \in chosen : Open(t) # {}
            /\ active' = [t \in Thread |-> IF t \in chosen THEN [id |-> First(t), at |-> "probe"] ELSE active[t]]
    BY DEF Wake
  <2>2. \A t \in chosen : First(t) \in Notice
    BY <1>0, <2>1, FirstIsOpen
  <2>3. \A t \in chosen : [id |-> First(t), at |-> "probe"] \in Dispatch
    BY <2>2 DEF Dispatch
  <2> QED BY <1>0, <2>1, <2>3 DEF TypeOK
<1>12. bridge = "up" /\ UNCHANGED <<issued, outbox, link, stale, bridge, rows, data, route, owner, limbo, sent, faults>>
  BY DEF Wake, transport
<1>1. TypeOK'
  BY <1>0, <1>8, <1>11, <1>12 DEF TypeOK
<1>2. RowsOK'
  BY <1>0, <1>8, <1>12 DEF RowsOK
<1>3. OutboxOK'
  BY <1>0, <1>8, <1>10, <1>12 DEF TypeOK, OutboxOK
<1>4. RouteOK'
  BY <1>0, <1>8, <1>12 DEF TypeOK, RouteOK
<1>5. WorkOK'
  BY <1>0, <1>8, <1>9, <1>11, <1>12 DEF WorkOK, Sending
<1>6. IdleOK'
  BY <1>0, <1>8, <1>10, <1>12 DEF IdleOK
<1>7. SentOnce'
  BY <1>0, <1>8, <1>12 DEF TypeOK, SentOnce
<1> QED BY <1>1, <1>2, <1>3, <1>4, <1>5, <1>6, <1>7 DEF IInv

\* A dispatch() goes on.
LEMMA AdvanceFacts ==
    ASSUME TypeOK, NEW t \in Thread, active[t] # None, NEW x \in {"probe", "command", "done", "failed"},
           active' = [active EXCEPT ![t].at = x]
    PROVE  /\ active' \in [Thread -> Dispatch \cup {None}]
           /\ active'[t].id = active[t].id /\ active'[t].at = x
           /\ \A u \in Thread \ {t} : active'[u] = active[u]
<1> DEFINE d == [active[t] EXCEPT !.at = x]
<1>1. active[t] \in Dispatch
  BY DEF TypeOK
<1>2. d \in Dispatch /\ d.id = active[t].id /\ d.at = x
  BY <1>1 DEF Dispatch
<1>3. active' = [active EXCEPT ![t] = d]
  OBVIOUS
<1> HIDE DEF d
<1> QED BY <1>2, <1>3 DEF TypeOK

\* The probe fails.
LEMMA ProbeFailsStep ==
    ASSUME IInv, NEW t \in Thread, ProbeFails(t)
    PROVE  IInv'
<1> USE DeliveryAssumption DEF ProbeFails, Break, journal, transport
<1>0. TypeOK /\ RowsOK /\ OutboxOK /\ RouteOK /\ WorkOK /\ IdleOK /\ SentOnce
  BY DEF IInv
<1>1. TypeOK'
  BY <1>0 DEF TypeOK
<1>2. RowsOK'
  BY <1>0 DEF TypeOK, RowsOK
<1>3. OutboxOK'
  BY <1>0 DEF TypeOK, OutboxOK
<1>4. RouteOK'
  BY <1>0 DEF TypeOK, RouteOK
<1>5. WorkOK'
  BY <1>0 DEF TypeOK, WorkOK, Sending
<1>6. IdleOK'
  BY <1>0 DEF TypeOK, IdleOK
<1>7. SentOnce'
  BY <1>0 DEF TypeOK, SentOnce
<1> QED BY <1>1, <1>2, <1>3, <1>4, <1>5, <1>6, <1>7 DEF IInv

\* claim().
LEMMA ClaimStep ==
    ASSUME IInv, NEW t \in Thread, Claim(t)
    PROVE  IInv'
<1> DEFINE n == active[t].id
<1>0. TypeOK /\ RowsOK /\ OutboxOK /\ RouteOK /\ WorkOK /\ IdleOK /\ SentOnce
  BY DEF IInv
<1>8. /\ active[t] # None /\ active[t].at = "probe" /\ n \in Notice
      /\ \A u \in Thread : active[u] # None => active[u].id \in Notice
  BY <1>0 DEF TypeOK, Dispatch, Claim, At
<1>9. UNCHANGED <<issued, outbox, link, stale, bridge, rows, data, dest, route, owner, limbo, sent, faults>>
  BY DEF Claim, transport
<1>10. CASE bridge = "up" /\ Claims(n, t)
  <2>1. status' = [status EXCEPT ![n] = "dispatching"] /\ active' = [active EXCEPT ![t].at = "command"]
    BY <1>10 DEF Claim
  <2>2. status[n] = "ready" /\ dest[n] = t
    BY <1>10 DEF Claims
  <2>3. \A m \in Notice : status'[m] = IF m = n THEN "dispatching" ELSE status[m]
    BY <1>0, <1>8, <2>1 DEF TypeOK
  <2>4. /\ active' \in [Thread -> Dispatch \cup {None}]
        /\ active'[t].id = n /\ active'[t].at = "command"
        /\ \A u \in Thread \ {t} : active'[u] = active[u]
    BY <1>0, <1>8, <2>1, AdvanceFacts
  <2> HIDE DEF n
  <2>5. TypeOK'
    BY <1>0, <1>8, <1>9, <2>1, <2>4 DEF TypeOK
  <2>6. RowsOK' /\ OutboxOK' /\ RouteOK'
    BY <1>0, <1>8, <1>9, <2>2, <2>3 DEF TypeOK, RowsOK, OutboxOK, RouteOK, Link
  <2>7. ASSUME NEW u \in Thread, active'[u] # None, active'[u].at \in Sending
        PROVE  LET m == active'[u].id
               IN  /\ dest'[m] = u /\ status'[m] = "dispatching" /\ m \notin limbo' /\ sent'[m] <= 1
                   /\ active'[u].at = "command" => sent'[m] = 0
                   /\ active'[u].at = "done" => sent'[m] = 1
    <3>1. CASE u = t
      BY <1>0, <1>8, <1>9, <2>2, <2>3, <2>4, <3>1 DEF SentOnce
    <3>2. CASE u # t
      BY <1>0, <1>8, <1>9, <2>2, <2>3, <2>4, <2>7, <3>2 DEF WorkOK
    <3> QED BY <3>1, <3>2
  <2>8. WorkOK'
    BY <2>7 DEF WorkOK
  <2>9. IdleOK' /\ SentOnce'
    BY <1>0, <1>8, <1>9, <1>10, <2>2, <2>3 DEF TypeOK, IdleOK, SentOnce
  <2> QED BY <2>5, <2>6, <2>8, <2>9 DEF IInv
<1>11. CASE ~(bridge = "up" /\ Claims(n, t))
  <2>1. status' = status /\ active' = [active EXCEPT ![t] = None]
    BY <1>11 DEF Claim
  <2>2. TypeOK'
    BY <1>0, <1>9, <2>1 DEF TypeOK
  <2>3. RowsOK' /\ OutboxOK' /\ RouteOK' /\ SentOnce'
    BY <1>0, <1>9, <2>1 DEF RowsOK, OutboxOK, RouteOK, SentOnce
  <2>4. WorkOK' /\ IdleOK'
    BY <1>0, <1>9, <2>1 DEF TypeOK, WorkOK, IdleOK
  <2> QED BY <2>2, <2>3, <2>4 DEF IInv
<1> QED BY <1>10, <1>11

\* At most one message arrives.
LEMMA SentFacts ==
    ASSUME TypeOK, NEW n \in Notice, sent' = [sent EXCEPT ![n] = @ + 1] \/ UNCHANGED sent
    PROVE  /\ sent' \in [Notice -> Nat]
           /\ sent'[n] \in {sent[n], sent[n] + 1}
           /\ \A m \in Notice : m # n => sent'[m] = sent[m]
<1>1. sent \in [Notice -> Nat] /\ sent[n] \in Nat
  BY DEF TypeOK
<1>2. CASE sent' = [sent EXCEPT ![n] = @ + 1]
  BY <1>1, <1>2
<1>3. CASE UNCHANGED sent
  BY <1>1, <1>3
<1> QED BY <1>2, <1>3

\* The command succeeds.
LEMMA CommandSucceedsStep ==
    ASSUME IInv, NEW t \in Thread, CommandSucceeds(t)
    PROVE  IInv'
<1> USE DeliveryAssumption DEF CommandSucceeds, At, journal, transport
<1>0. TypeOK /\ RowsOK /\ OutboxOK /\ RouteOK /\ WorkOK /\ IdleOK /\ SentOnce
  BY DEF IInv
<1>8. \A u \in Thread : active[u] # None => active[u] \in Dispatch /\ active[u].id \in Notice
  BY <1>0 DEF TypeOK, Dispatch
<1>9. active' \in [Thread -> Dispatch \cup {None}]
  BY <1>0, AdvanceFacts
<1>10. /\ active[t].id \in Notice /\ status[active[t].id] = "dispatching" /\ sent[active[t].id] = 0
       /\ active[t].id \notin limbo
  BY <1>0, <1>8 DEF WorkOK, Sending
<1>11. /\ sent' \in [Notice -> Nat]
       /\ sent'[active[t].id] \in {0, 1}
       /\ \A m \in Notice : m # active[t].id => sent'[m] = sent[m]
  <2> DEFINE n == active[t].id
  <2>1. sent' = [sent EXCEPT ![n] = @ + 1] \/ UNCHANGED sent
    OBVIOUS
  <2> HIDE DEF n
  <2>2. /\ sent' \in [Notice -> Nat] /\ sent'[n] \in {sent[n], sent[n] + 1}
        /\ \A m \in Notice : m # n => sent'[m] = sent[m]
    BY <1>0, <1>10, <2>1, SentFacts DEF n
  <2> QED BY <1>10, <2>2 DEF n
<1>1. TypeOK'
  <2>1. UNCHANGED <<issued, outbox, link, stale, bridge, rows, status, data, dest, route, owner, limbo, faults>>
    OBVIOUS
  <2> QED BY <1>0, <1>9, <1>11, <2>1 DEF TypeOK
<1>2. RowsOK'
  BY <1>0 DEF TypeOK, RowsOK
<1>3. OutboxOK'
  BY <1>0 DEF TypeOK, OutboxOK
<1>4. RouteOK'
  BY <1>0 DEF TypeOK, RouteOK
<1>5. WorkOK'
  BY <1>0, <1>8 DEF TypeOK, WorkOK, Sending, Dispatch
<1>6. IdleOK'
  BY <1>0, <1>8 DEF TypeOK, IdleOK, WorkOK, Sending
<1>7. SentOnce'
  <2>1. UNCHANGED <<status, limbo>>
    OBVIOUS
  <2> QED BY <1>0, <1>10, <1>11, <2>1 DEF SentOnce
<1> QED BY <1>1, <1>2, <1>3, <1>4, <1>5, <1>6, <1>7 DEF IInv

\* The command fails.
LEMMA CommandFailsStep ==
    ASSUME IInv, NEW t \in Thread, CommandFails(t)
    PROVE  IInv'
<1> USE DeliveryAssumption DEF CommandFails, Break, At, journal, transport
<1>0. TypeOK /\ RowsOK /\ OutboxOK /\ RouteOK /\ WorkOK /\ IdleOK /\ SentOnce
  BY DEF IInv
<1>8. \A u \in Thread : active[u] # None => active[u] \in Dispatch /\ active[u].id \in Notice
  BY <1>0 DEF TypeOK, Dispatch
<1>9. /\ active' \in [Thread -> Dispatch \cup {None}]
      /\ active'[t].id = active[t].id /\ active'[t].at = "failed"
      /\ \A u \in Thread \ {t} : active'[u] = active[u]
  BY <1>0, AdvanceFacts
<1>10. /\ active[t].id \in Notice /\ status[active[t].id] = "dispatching" /\ sent[active[t].id] = 0
       /\ active[t].id \notin limbo
  BY <1>0, <1>8 DEF WorkOK, Sending
<1>11. /\ sent' \in [Notice -> Nat]
       /\ sent'[active[t].id] \in {0, 1}
       /\ \A m \in Notice : m # active[t].id => sent'[m] = sent[m]
  <2> DEFINE n == active[t].id
  <2>1. sent' = [sent EXCEPT ![n] = @ + 1] \/ UNCHANGED sent
    OBVIOUS
  <2> HIDE DEF n
  <2>2. /\ sent' \in [Notice -> Nat] /\ sent'[n] \in {sent[n], sent[n] + 1}
        /\ \A m \in Notice : m # n => sent'[m] = sent[m]
    BY <1>0, <1>10, <2>1, SentFacts DEF n
  <2> QED BY <1>10, <2>2 DEF n
<1>1. TypeOK'
  <2>1. /\ UNCHANGED <<issued, outbox, link, stale, bridge, rows, status, data, dest, route, owner, limbo>>
        /\ faults' \in 0..MaxFaults
    BY <1>0 DEF TypeOK
  <2> QED BY <1>0, <1>9, <1>11, <2>1 DEF TypeOK
<1>2. RowsOK'
  BY <1>0 DEF TypeOK, RowsOK
<1>3. OutboxOK'
  BY <1>0 DEF TypeOK, OutboxOK
<1>4. RouteOK'
  BY <1>0 DEF TypeOK, RouteOK
<1>5. WorkOK'
  BY <1>0, <1>8, SMTT(30) DEF TypeOK, WorkOK, Sending, Dispatch
<1>6. IdleOK'
  <2>1. active[t].id \notin limbo
    BY <1>0 DEF WorkOK, Sending
  <2>2. UNCHANGED <<bridge, status, limbo>> /\ \A m \in Notice : m # active[t].id => sent'[m] = sent[m]
    BY <1>0 DEF TypeOK
  <2>3. bridge # "down"
    BY <1>0 DEF IdleOK
  <2>4. limbo \subseteq Notice
    BY <1>0 DEF TypeOK
  <2> QED BY <1>0, <2>1, <2>2, <2>3, <2>4 DEF IdleOK
<1>7. SentOnce'
  <2>1. UNCHANGED <<status, limbo>>
    OBVIOUS
  <2> QED BY <1>0, <1>10, <1>11, <2>1 DEF SentOnce
<1> QED BY <1>1, <1>2, <1>3, <1>4, <1>5, <1>6, <1>7 DEF IInv

\* mark().
LEMMA MarkStep ==
    ASSUME IInv, NEW t \in Thread, Mark(t)
    PROVE  IInv'
<1> USE DeliveryAssumption DEF Mark, At, transport
<1>0. TypeOK /\ RowsOK /\ OutboxOK /\ RouteOK /\ WorkOK /\ IdleOK /\ SentOnce
  BY DEF IInv
<1>8. \A u \in Thread : active[u] # None => active[u] \in Dispatch /\ active[u].id \in Notice
  BY <1>0 DEF TypeOK, Dispatch
<1>1. TypeOK'
  BY <1>0, <1>8 DEF TypeOK, Dispatch
<1>2. RowsOK'
  BY <1>0, <1>8 DEF TypeOK, RowsOK, WorkOK, Sending
<1>3. OutboxOK'
  BY <1>0, <1>8 DEF TypeOK, OutboxOK, Link
<1>4. RouteOK'
  BY <1>0, <1>8 DEF TypeOK, RouteOK
<1>5. WorkOK'
  BY <1>0, <1>8 DEF TypeOK, WorkOK, Sending, Dispatch
<1>6. IdleOK'
  BY <1>0, <1>8 DEF TypeOK, IdleOK, WorkOK, Sending
<1>7. SentOnce'
  BY <1>0, <1>8 DEF TypeOK, SentOnce, WorkOK, Sending
<1> QED BY <1>1, <1>2, <1>3, <1>4, <1>5, <1>6, <1>7 DEF IInv

\* A write of the journal fails.
LEMMA MarkFailsStep ==
    ASSUME IInv, NEW t \in Thread, MarkFails(t)
    PROVE  IInv'
<1> USE DeliveryAssumption DEF MarkFails, Break, At, journal
<1>0. TypeOK /\ RowsOK /\ OutboxOK /\ RouteOK /\ WorkOK /\ IdleOK /\ SentOnce
  BY DEF IInv
<1>8. \A u \in Thread : active[u] # None => active[u] \in Dispatch /\ active[u].id \in Notice
  BY <1>0 DEF TypeOK, Dispatch
<1>9. link' \in Link /\ link'.up = link.up
  <2>1. link' = link \/ link' = Cut(link)
    OBVIOUS
  <2>2. link \in Link
    BY <1>0 DEF TypeOK
  <2>3. Cut(link) \in Link /\ Cut(link).up = link.up
    BY <2>2, LinkFacts
  <2> QED BY <2>1, <2>2, <2>3
<1>10. /\ active' \in [Thread -> Dispatch \cup {None}]
       /\ \/ active'[t] = None
          \/ active[t].at = "done" /\ active'[t].id = active[t].id /\ active'[t].at = "failed"
       /\ \A u \in Thread \ {t} : active'[u] = active[u]
  <2>1. CASE At(t, "done")
    BY <1>0, <2>1, AdvanceFacts
  <2>2. CASE At(t, "failed")
    <3>1. active' = [active EXCEPT ![t] = None]
      BY <2>2
    <3>2. active \in [Thread -> Dispatch \cup {None}]
      BY <1>0 DEF TypeOK
    <3> QED BY <3>1, <3>2
  <2> QED BY <2>1, <2>2
<1>11. /\ UNCHANGED <<issued, outbox, stale, rows, status, data, dest, route, owner, limbo, sent>>
       /\ faults' \in 0..MaxFaults /\ bridge' \in {bridge, "stopping"}
  BY <1>0 DEF TypeOK
<1>1. TypeOK'
  BY <1>0, <1>9, <1>10, <1>11 DEF TypeOK
<1>2. RowsOK'
  BY <1>0 DEF TypeOK, RowsOK
<1>3. OutboxOK'
  BY <1>0, <1>9 DEF OutboxOK
<1>4. RouteOK'
  BY <1>0 DEF TypeOK, RouteOK
<1>5. WorkOK'
  <2> SUFFICES ASSUME NEW u \in Thread, active'[u] # None, active'[u].at \in Sending
               PROVE  LET m == active'[u].id
                      IN  /\ dest[m] = u /\ status[m] = "dispatching" /\ m \notin limbo /\ sent[m] <= 1
                          /\ active'[u].at = "command" => sent[m] = 0
                          /\ active'[u].at = "done" => sent[m] = 1
    BY <1>11 DEF WorkOK
  <2>1. CASE u = t
    BY <1>0, <1>10, <2>1 DEF WorkOK, Sending
  <2>2. CASE u # t
    BY <1>0, <1>10, <2>2 DEF WorkOK
  <2> QED BY <2>1, <2>2
<1>6. IdleOK'
  BY <1>0 DEF TypeOK, IdleOK
<1>7. SentOnce'
  BY <1>0 DEF TypeOK, SentOnce
<1> QED BY <1>1, <1>2, <1>3, <1>4, <1>5, <1>6, <1>7 DEF IInv

\* stop().
LEMMA StopStep ==
    ASSUME IInv, Stop
    PROVE  IInv'
<1> USE DeliveryAssumption DEF Stop, Break, journal
<1>0. TypeOK /\ RowsOK /\ OutboxOK /\ RouteOK /\ WorkOK /\ IdleOK /\ SentOnce
  BY DEF IInv
<1>8. link' \in Link /\ link'.up = link.up
  BY <1>0, LinkFacts DEF TypeOK
<1>1. TypeOK'
  BY <1>0, <1>8 DEF TypeOK
<1>2. RowsOK'
  BY <1>0 DEF TypeOK, RowsOK
<1>3. OutboxOK'
  BY <1>0, <1>8 DEF OutboxOK
<1>4. RouteOK'
  BY <1>0 DEF TypeOK, RouteOK
<1>5. WorkOK'
  BY <1>0 DEF TypeOK, WorkOK, Sending
<1>6. IdleOK'
  BY <1>0 DEF TypeOK, IdleOK
<1>7. SentOnce'
  BY <1>0 DEF TypeOK, SentOnce
<1> QED BY <1>1, <1>2, <1>3, <1>4, <1>5, <1>6, <1>7 DEF IInv

\* The lock is released.
LEMMA StoppedStep ==
    ASSUME IInv, Stopped
    PROVE  IInv'
<1> USE DeliveryAssumption DEF Stopped, Active, journal, transport
<1>0. TypeOK /\ RowsOK /\ OutboxOK /\ RouteOK /\ WorkOK /\ IdleOK /\ SentOnce
  BY DEF IInv
<1>1. TypeOK'
  BY <1>0 DEF TypeOK
<1>2. RowsOK'
  BY <1>0 DEF TypeOK, RowsOK
<1>3. OutboxOK'
  BY <1>0 DEF TypeOK, OutboxOK
<1>4. RouteOK'
  BY <1>0 DEF TypeOK, RouteOK
<1>5. WorkOK'
  BY <1>0 DEF TypeOK, WorkOK, Sending
<1>6. IdleOK'
  BY <1>0 DEF TypeOK, IdleOK
<1>7. SentOnce'
  BY <1>0 DEF TypeOK, SentOnce
<1> QED BY <1>1, <1>2, <1>3, <1>4, <1>5, <1>6, <1>7 DEF IInv

\* The bridge ends, and its commands go on.
LEMMA CrashStep ==
    ASSUME IInv, Crash
    PROVE  IInv'
<1> USE DeliveryAssumption DEF Crash, Break, journal
<1>0. TypeOK /\ RowsOK /\ OutboxOK /\ RouteOK /\ WorkOK /\ IdleOK /\ SentOnce
  BY DEF IInv
<1>8. link' \in Link /\ link'.up = link.up
  BY <1>0, LinkFacts DEF TypeOK
<1>9. /\ limbo' \subseteq Notice
      /\ \A n \in limbo' \ limbo : status[n] = "dispatching" /\ sent[n] = 0
  BY <1>0 DEF TypeOK, At, Dispatch, WorkOK, Sending
<1>1. TypeOK'
  BY <1>0, <1>8, <1>9 DEF TypeOK
<1>2. RowsOK'
  BY <1>0 DEF TypeOK, RowsOK
<1>3. OutboxOK'
  BY <1>0, <1>8 DEF OutboxOK
<1>4. RouteOK'
  BY <1>0 DEF TypeOK, RouteOK
<1>5. WorkOK'
  BY <1>0 DEF TypeOK, WorkOK, Sending
<1>6. IdleOK'
  BY <1>0, <1>9 DEF TypeOK, IdleOK
<1>7. SentOnce'
  BY <1>0, <1>9 DEF TypeOK, SentOnce
<1> QED BY <1>1, <1>2, <1>3, <1>4, <1>5, <1>6, <1>7 DEF IInv

\* A command without its bridge ends.
LEMMA CommandEndsStep ==
    ASSUME IInv, NEW n \in Notice, CommandEnds(n)
    PROVE  IInv'
<1> USE DeliveryAssumption DEF CommandEnds, journal, transport
<1>0. TypeOK /\ RowsOK /\ OutboxOK /\ RouteOK /\ WorkOK /\ IdleOK /\ SentOnce
  BY DEF IInv
<1>8. sent' \in [Notice -> Nat]
  BY <1>0, SentFacts
<1>1. TypeOK'
  <2>1. UNCHANGED <<issued, outbox, link, stale, bridge, rows, status, data, dest, route, owner, active, faults>>
    OBVIOUS
  <2>2. limbo' \subseteq Notice
    BY <1>0 DEF TypeOK
  <2> QED BY <1>0, <1>8, <2>1, <2>2 DEF TypeOK
<1>2. RowsOK'
  BY <1>0 DEF TypeOK, RowsOK
<1>3. OutboxOK'
  BY <1>0 DEF TypeOK, OutboxOK
<1>4. RouteOK'
  BY <1>0 DEF TypeOK, RouteOK
<1>5. WorkOK'
  <2>1. \A t \in Thread : active[t] # None => active[t].id \in Notice
    BY <1>0 DEF TypeOK, Dispatch
  <2>2. \A m \in Notice : m \notin limbo => sent'[m] = sent[m] /\ m \notin limbo'
    BY <1>0 DEF TypeOK
  <2>3. UNCHANGED <<dest, status, active>>
    OBVIOUS
  <2> SUFFICES ASSUME NEW t \in Thread, active[t] # None, active[t].at \in Sending
               PROVE  LET m == active[t].id
                      IN  /\ dest[m] = t /\ status[m] = "dispatching" /\ m \notin limbo' /\ sent'[m] <= 1
                          /\ active[t].at = "command" => sent'[m] = 0
                          /\ active[t].at = "done" => sent'[m] = 1
    BY <2>3 DEF WorkOK
  <2>4. active[t].id \in Notice /\ active[t].id \notin limbo
    BY <1>0, <2>1 DEF WorkOK
  <2> QED BY <1>0, <2>2, <2>4 DEF WorkOK
<1>6. IdleOK'
  BY <1>0 DEF TypeOK, IdleOK
<1>7. SentOnce'
  BY <1>0 DEF TypeOK, SentOnce, IdleOK
<1> QED BY <1>1, <1>2, <1>3, <1>4, <1>5, <1>6, <1>7 DEF IInv

-----------------------------------------------------------------------------
(* The theorems.                                                           *)

\* Every step preserves the invariant.
LEMMA Inductive ==
    IInv /\ [Next]_vars => IInv'
<1> SUFFICES ASSUME IInv, [Next]_vars PROVE IInv'
  OBVIOUS
<1>1. ASSUME NEW n \in Notice, Issue(n) \/ Reconcile(n) \/ CommandEnds(n) PROVE IInv'
  BY <1>1, IssueStep, ReconcileStep, CommandEndsStep
<1>2. ASSUME NEW c \in Commit, NEW t \in Thread, Register(c, t) PROVE IInv'
  BY <1>2, RegisterStep
<1>3. ASSUME NEW t \in Thread, NEW u \in Thread, Transfer(t, u) PROVE IInv'
  BY <1>3, TransferStep
<1>4. ASSUME NEW t \in Thread, CloseBranch(t) \/ ProbeFails(t) \/ CommandFails(t) \/ MarkFails(t) PROVE IInv'
  BY <1>4, CloseBranchStep, ProbeFailsStep, CommandFailsStep, MarkFailsStep
<1>5. ASSUME NEW t \in Thread, Dispatching(t) PROVE IInv'
  BY <1>5, ClaimStep, CommandSucceedsStep, MarkStep DEF Dispatching
<1>6. ASSUME ReceiveAck \/ ReceiveStaleAck \/ Connect \/ Disconnect PROVE IInv'
  BY <1>6, ReceiveAckStep, ReceiveStaleAckStep, ConnectStep, DisconnectStep
<1>7. ASSUME Start \/ ReceiveNotice \/ RefuseNotice \/ ReceiveAcked \/ Wake \/ Stop \/ Stopped \/ Crash PROVE IInv'
  BY <1>7, StartStep, ReceiveNoticeStep, RefuseNoticeStep, ReceiveAckedStep, WakeStep, StopStep, StoppedStep, CrashStep
<1>8. ASSUME UNCHANGED vars PROVE IInv'
  BY <1>8 DEF vars, IInv, TypeOK, RowsOK, OutboxOK, RouteOK, WorkOK, IdleOK, SentOnce
<1> QED BY <1>1, <1>2, <1>3, <1>4, <1>5, <1>6, <1>7, <1>8 DEF Next

\* The invariant holds in every reachable state.
THEOREM Invariance == Spec => []IInv
<1>1. Init => IInv
  <2> SUFFICES ASSUME Init PROVE IInv
    OBVIOUS
  <2> USE DeliveryAssumption DEF Init
  <2>1. <<>> \in Seq(Notice) /\ <<>> \in Seq(Entry) /\ ToSet(<<>>) = {} /\ DOMAIN <<>> = {}
    BY EmptySeq DEF ToSet
  <2>2. link \in Link /\ link.up = None
    BY LinkFacts
  <2>3. TypeOK
    BY <2>1, <2>2 DEF TypeOK
  <2>4. RowsOK /\ OutboxOK /\ RouteOK
    BY <2>1, <2>2 DEF RowsOK, OutboxOK, RouteOK
  <2>5. WorkOK /\ IdleOK /\ SentOnce
    BY DEF WorkOK, IdleOK, SentOnce
  <2> QED BY <2>3, <2>4, <2>5 DEF IInv
<1> QED BY <1>1, Inductive, PTL DEF Spec

\* The types of the outbox, the connection and the journal.
THEOREM TypeCorrect == Spec => []TypeOK
<1>1. IInv => TypeOK
  BY DEF IInv
<1> QED BY <1>1, Invariance, PTL

\* What was issued is in the outbox or, once, in the journal.
THEOREM NothingIsLost == Spec => []NothingLost
<1>1. IInv => NothingLost
  BY DEF IInv, TypeOK, RowsOK, OutboxOK, NothingLost
<1> QED BY <1>1, Invariance, PTL

\* No conversation gets a notice twice.
THEOREM SendsOnce == Spec => []SentOnce
<1>1. IInv => SentOnce
  BY DEF IInv
<1> QED BY <1>1, Invariance, PTL

\* What a step may do to destinations and statuses: nothing, unless it resolves
\* waiting notices, takes one in, or ends what is "dispatching".
Pins ==
    \A n \in Notice : dest[n] # None => dest'[n] = dest[n]
Claimed ==
    \A n \in Notice : status[n] # "dispatching" /\ status'[n] = "dispatching" =>
        \A m \in ToSet(rows) : dest[m] = dest[n] /\ Position(m) < Position(n) => status[m] = "accepted"

\* Every step but claim() leaves the notices that are being sent, and every step
\* leaves the destinations there are.
LEMMA StepFacts ==
    ASSUME IInv, [Next]_vars
    PROVE  Pins /\ Claimed
<1> USE DEF Pins, Claimed
<1>0. TypeOK /\ RouteOK
  BY DEF IInv
<1>1. ASSUME UNCHANGED <<status, dest>> PROVE Pins /\ Claimed
  BY <1>1
<1>2. ASSUME NEW r \in [Commit -> Thread \cup {None}], Resolve(r) PROVE Pins /\ Claimed
  BY <1>0, <1>2, ResolveFacts
<1>3. ASSUME NEW n \in Notice, Issue(n) \/ Reconcile(n) \/ CommandEnds(n) PROVE Pins /\ Claimed
  <2>1. CASE Issue(n) \/ CommandEnds(n)
    BY <1>1, <2>1 DEF Issue, CommandEnds, journal
  <2>2. CASE Reconcile(n)
    BY <1>0, <2>2 DEF Reconcile, TypeOK
  <2> QED BY <1>3, <2>1, <2>2
<1>4. ASSUME NEW c \in Commit, NEW t \in Thread, Register(c, t) PROVE Pins /\ Claimed
  <2>1. route' \in [Commit -> Thread \cup {None}] /\ Resolve(route')
    BY <1>0, <1>4 DEF Register, TypeOK
  <2> QED BY <1>2, <2>1
<1>5. ASSUME NEW t \in Thread, NEW u \in Thread, Transfer(t, u) PROVE Pins /\ Claimed
  BY <1>1, <1>5 DEF Transfer
<1>6. ASSUME NEW t \in Thread,
             CloseBranch(t) \/ CommandSucceeds(t) \/ ProbeFails(t) \/ CommandFails(t) \/ MarkFails(t)
      PROVE  Pins /\ Claimed
  BY <1>1, <1>6 DEF CloseBranch, CommandSucceeds, ProbeFails, CommandFails, MarkFails, journal
<1>7. ASSUME NEW t \in Thread, Claim(t) PROVE Pins /\ Claimed
  <2> DEFINE n == active[t].id
  <2>1. CASE bridge = "up" /\ Claims(n, t)
    <3>1. status' = [status EXCEPT ![n] = "dispatching"] /\ dest' = dest
      BY <1>7, <2>1 DEF Claim
    <3> HIDE DEF n
    <3> QED BY <1>0, <2>1, <3>1 DEF Claims, TypeOK
  <2>2. CASE ~(bridge = "up" /\ Claims(n, t))
    BY <1>1, <1>7, <2>2 DEF Claim
  <2> QED BY <2>1, <2>2
<1>8. ASSUME NEW t \in Thread, Mark(t) PROVE Pins /\ Claimed
  BY <1>0, <1>8 DEF Mark, TypeOK
<1>9. ASSUME ReceiveAck \/ ReceiveStaleAck \/ Connect \/ Disconnect PROVE Pins /\ Claimed
  BY <1>1, <1>9 DEF ReceiveAck, ReceiveStaleAck, Connect, Disconnect, journal
<1>10. ASSUME RefuseNotice \/ ReceiveAcked \/ Stop \/ Stopped \/ Crash PROVE Pins /\ Claimed
  BY <1>1, <1>10 DEF RefuseNotice, ReceiveAcked, Stop, Stopped, Crash, journal
<1>11. CASE Start
  BY <1>0, <1>11 DEF Start, Recovered, TypeOK
<1>12. CASE Wake
  <2>1. route \in [Commit -> Thread \cup {None}] /\ Resolve(route)
    BY <1>0, <1>12 DEF Wake, TypeOK
  <2> QED BY <1>2, <2>1
<1>13. CASE ReceiveNotice
  <2> DEFINE n == Head(link.down).id
             p == Head(link.down).data
  <2>1. link.down # <<>> /\ Head(link.down).type = "notice" /\ Intake(n, p)
    BY <1>13 DEF ReceiveNotice, Receives
  <2>2. n \in Notice /\ p \in Nat
    BY <1>0, <2>1, HeadFacts
  <2> HIDE DEF n, p
  <2> QED BY <1>0, <2>1, <2>2, IntakeFacts DEF RouteOK
<1>14. CASE UNCHANGED vars
  BY <1>1, <1>14 DEF vars
<1> QED BY <1>3, <1>4, <1>5, <1>6, <1>7, <1>8, <1>9, <1>10, <1>11, <1>12, <1>13, <1>14 DEF Next, Dispatching

\* A destination stays what it is, whoever owns the branch.
THEOREM DestinationsArePinned == Spec => DestinationIsPinned
<1>1. IInv /\ IInv' /\ [Next]_vars => \/ /\ \A n \in Notice : dest[n] # None => dest'[n] = dest[n]
                                         /\ \A n \in Notice : dest'[n] # None => dest'[n] = route'[CommitOf[n]]
                                      \/ UNCHANGED vars
  BY StepFacts DEF IInv, RouteOK, Pins
<1> QED BY <1>1, Invariance, PTL DEF Spec, DestinationIsPinned

\* A command is started when the earlier notices for its conversation are accepted.
THEOREM ConversationsAreInOrder == Spec => InOrder
<1>1. IInv /\ [Next]_vars =>
        \/ \A n \in Notice : status[n] # "dispatching" /\ status'[n] = "dispatching" =>
               \A m \in ToSet(rows) : dest[m] = dest[n] /\ Position(m) < Position(n) => status[m] = "accepted"
        \/ UNCHANGED vars
  BY StepFacts DEF Claimed
<1> QED BY <1>1, Invariance, PTL DEF Spec, InOrder

=============================================================================
