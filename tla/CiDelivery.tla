----------------------------- MODULE CiDelivery -----------------------------
(***************************************************************************)
(* The way of a CI notice from the outbox of the receiver to a             *)
(* conversation: tools/ci-webhook/src/index.ts (sockets), bridge/main.mjs, *)
(* bridge/dispatcher.mjs and bridge/journal.mjs, composed.                 *)
(*                                                                         *)
(* The receiver sends the head of its outbox and removes it when it is     *)
(* acknowledged; the bridge acknowledges what its journal has committed;   *)
(* its dispatcher runs one command per conversation that has no way to     *)
(* recognise a repetition.  Connections break, the bridge and the commands *)
(* it started end at any point, and registrations come from other          *)
(* processes at any time.  A backoff is a delay of the next Wake.          *)
(*                                                                         *)
(* A notice is known by its id.  reduce() may issue the same id again with *)
(* other contents (see IdentityFixesPayload in CiCommit), which the bridge *)
(* refuses by ending the connection.                                       *)
(***************************************************************************)
EXTENDS Naturals, Sequences, SequencesExt, FiniteSets

CONSTANTS
    Notice,      \* identities of notices
    Issues,      \* Issues[n]: how often reduce() may issue the id n, with newer contents each time
    Commit,
    CommitOf,    \* CommitOf[n]: branch and commit of a notice, all of one branch
    Thread,      \* conversations
    Concurrency, \* how many conversations the dispatcher serves at once
    MaxFaults,   \* bound: broken connections, crashes and failed commands
    None

ASSUME DeliveryAssumption ==
    /\ CommitOf \in [Notice -> Commit]
    /\ Issues \in [Notice -> Nat]
    /\ Concurrency \in Nat \ {0}
    /\ MaxFaults \in Nat
    /\ None \notin Notice \cup Thread

VARIABLES
    issued,  \* issued[n]: how often reduce() has issued n, and which contents it had last
    outbox,  \* the outbox of the receiver
    link,    \* the newest connection: whether the bridge has it, and what is on the way
    stale,   \* an acknowledgment on its way in the connection before
    bridge,  \* "down", "up", or "stopping": the holder of the dispatcher lock
    rows,    \* notices in the order of their rowid in the journal
    status,  \* status[n] in the journal
    data,    \* data[n]: its contents in the journal, 0 for none
    dest,    \* dest[n]: the pinned destination
    route,   \* route[c]: routes_by_branch
    owner,   \* branch_owners of the branch
    active,  \* active[t]: the dispatch() under way for t and how far it is
    limbo,   \* notices whose command outlived the bridge
    sent,    \* sent[n]: how often n has arrived in a conversation
    faults

vars == <<issued, outbox, link, stale, bridge, rows, status, data, dest, route, owner, active, limbo, sent,
          faults>>
transport == <<issued, outbox, link, stale>>
journal == <<rows, status, data, dest, route, owner>>

Entry == [id : Notice, data : Nat]
Message == [type : {"notice"}, id : Notice, data : Nat] \cup [type : {"acked"}, id : Notice]
Link == [bridge : BOOLEAN, down : Seq(Message), up : Notice \cup {None}]
NoLink == [bridge |-> FALSE, down |-> <<>>, up |-> None]
Owner == [thread : Thread, state : {"active", "closed"}]
Dispatch == [id : Notice, at : {"probe", "command", "done", "failed"}]

\* The type invariant.
TypeOK ==
    /\ issued \in [Notice -> Nat]
    /\ outbox \in Seq(Entry)
    /\ link \in Link
    /\ stale \in Notice \cup {None}
    /\ bridge \in {"down", "up", "stopping"}
    /\ rows \in Seq(Notice)
    /\ status \in [Notice -> {"absent", "waiting_for_route", "ready", "dispatching", "uncertain", "accepted"}]
    /\ data \in [Notice -> Nat]
    /\ dest \in [Notice -> Thread \cup {None}]
    /\ route \in [Commit -> Thread \cup {None}]
    /\ owner \in Owner \cup {None}
    /\ active \in [Thread -> Dispatch \cup {None}]
    /\ limbo \subseteq Notice
    /\ sent \in [Notice -> Nat]
    /\ faults \in 0..MaxFaults

Init ==
    /\ issued = [n \in Notice |-> 0]
    /\ outbox = <<>>
    /\ link = NoLink
    /\ stale = None
    /\ bridge = "down"
    /\ rows = <<>>
    /\ status = [n \in Notice |-> "absent"]
    /\ data = [n \in Notice |-> 0]
    /\ dest = [n \in Notice |-> None]
    /\ route = [c \in Commit |-> None]
    /\ owner = None
    /\ active = [t \in Thread |-> None]
    /\ limbo = {}
    /\ sent = [n \in Notice |-> 0]
    /\ faults = 0

Break == faults < MaxFaults /\ faults' = faults + 1

-----------------------------------------------------------------------------
(* The receiver.                                                           *)

\* The attachment of a socket: a notice, or the acknowledgment of one, is on its way.
Inflight(l) == l.up # None \/ \E i \in DOMAIN l.down : l.down[i].type = "notice"

\* sendNext(): one notice at a time in a connection, always the head.
SendNext(l, box) ==
    IF l.bridge /\ ~Inflight(l) /\ box # <<>>
    THEN [l EXCEPT !.down = Append(@, [type |-> "notice", id |-> Head(box).id, data |-> Head(box).data])]
    ELSE l

\* The ids in the outbox.
Ids(box) == {e.id : e \in ToSet(box)}

\* ingest() has a new notice: INSERT OR IGNORE, so that one with the id of a notice
\* that is still in the outbox is dropped.  The runs it tells of are newer than when
\* the id was issued before, so its contents are others.
Issue(n) ==
    /\ issued[n] < Issues[n]
    /\ issued' = [issued EXCEPT ![n] = @ + 1]
    /\ outbox' = IF n \in Ids(outbox) THEN outbox ELSE Append(outbox, [id |-> n, data |-> issued'[n]])
    /\ link' = SendNext(link, outbox')
    /\ UNCHANGED <<stale, bridge, journal, active, limbo, sent, faults>>

\* DELETE FROM outbox WHERE id = ?, whatever the contents; an id is in it once.
Without(box, n) ==
    IF n \in Ids(box) THEN RemoveAt(box, CHOOSE i \in DOMAIN box : box[i].id = n) ELSE box

\* webSocketMessage(): the acknowledgment of what is in flight.
ReceiveAck ==
    /\ link.up # None
    /\ outbox' = Without(outbox, link.up)
    /\ link' = SendNext([link EXCEPT !.up = None,
                             !.down = IF link.bridge THEN Append(@, [type |-> "acked", id |-> link.up]) ELSE @],
                        outbox')
    /\ UNCHANGED <<issued, stale, bridge, journal, active, limbo, sent, faults>>

\* The same in a connection that has been replaced: nothing can be answered.
ReceiveStaleAck ==
    /\ stale # None
    /\ outbox' = Without(outbox, stale)
    /\ stale' = None
    /\ UNCHANGED <<issued, link, bridge, journal, active, limbo, sent, faults>>

\* fetch(): the new connection closes the one before, whose last acknowledgment
\* may still be on its way.
Connect ==
    /\ bridge = "up"
    /\ ~link.bridge
    /\ stale' \in {None, link.up}
    /\ link' = SendNext([NoLink EXCEPT !.bridge = TRUE], outbox)
    /\ UNCHANGED <<issued, outbox, bridge, journal, active, limbo, sent, faults>>

\* The connection breaks: the bridge notices, and an acknowledgment that is on its
\* way still arrives or is lost.
Cut(l) == [l EXCEPT !.bridge = FALSE, !.down = <<>>]
Disconnect ==
    /\ Break
    /\ link.bridge
    /\ link' \in {Cut(link), NoLink}
    /\ UNCHANGED <<issued, outbox, stale, bridge, journal, active, limbo, sent>>

-----------------------------------------------------------------------------
(* The journal: every action is one transaction.                           *)

\* resolveWaiting(): with routes r, waiting notices get their destinations.
Waiting(r) == {n \in Notice : status[n] = "waiting_for_route" /\ dest[n] = None /\ r[CommitOf[n]] # None}
Resolve(r) ==
    /\ dest' = [n \in Notice |-> IF n \in Waiting(r) THEN r[CommitOf[n]] ELSE dest[n]]
    /\ status' = [n \in Notice |-> IF n \in Waiting(r) THEN "ready" ELSE status[n]]

\* Variant: the route is replaced.
MayRegisterAny(c, t) == TRUE

\* The branch has one active owner, and a commit one conversation.
MayRegister(c, t) ==
    /\ owner = None \/ owner = [thread |-> t, state |-> "active"]
    /\ route[c] \in {None, t}

\* register(), and adopt() of a waiting notice.
Register(c, t) ==
    /\ MayRegister(c, t)
    /\ owner' = [thread |-> t, state |-> "active"]
    /\ route' = [route EXCEPT ![c] = t]
    /\ Resolve(route')
    /\ UNCHANGED <<transport, bridge, rows, data, active, limbo, sent, faults>>

Transfer(from, to) ==
    /\ owner # None /\ owner.thread = from
    /\ owner' = [thread |-> to, state |-> "active"]
    /\ UNCHANGED <<transport, bridge, rows, status, data, dest, route, active, limbo, sent, faults>>

CloseBranch(t) ==
    /\ owner = [thread |-> t, state |-> "active"]
    /\ owner' = [thread |-> t, state |-> "closed"]
    /\ UNCHANGED <<transport, bridge, rows, status, data, dest, route, active, limbo, sent, faults>>

\* The recovery command holds the dispatcher lock.
LockFree == bridge = "down"

\* reconcile(): the operator has seen that the message arrived, or that it did
\* not and its command has ended.
Reconcile(n) ==
    /\ LockFree
    /\ status[n] \in {"dispatching", "uncertain"}
    /\ n \notin limbo
    /\ status' = [status EXCEPT ![n] = IF sent[n] > 0 THEN "accepted" ELSE "ready"]
    /\ UNCHANGED <<transport, bridge, rows, data, dest, route, owner, active, limbo, sent, faults>>

-----------------------------------------------------------------------------
(* The bridge.                                                             *)

\* Variant: what was being sent is sent again.
Restarted(n) == IF status[n] = "dispatching" THEN "ready" ELSE status[n]

\* recoverDispatching()
Recovered(n) == IF status[n] = "dispatching" THEN "uncertain" ELSE status[n]

\* connectBridge() has the dispatcher lock.
Start ==
    /\ bridge = "down"
    /\ bridge' = "up"
    /\ status' = [n \in Notice |-> Recovered(n)]
    /\ UNCHANGED <<transport, rows, data, dest, route, owner, active, limbo, sent, faults>>

\* Variant: acknowledged first.
Unrecorded(n, p) == p \in Nat /\ UNCHANGED <<rows, status, data, dest>>

\* samePayload(): the journal has the id with other contents.
Conflicts(n, p) == status[n] # "absent" /\ data[n] # p

\* intake() of what does not conflict is idempotent.
Intake(n, p) ==
    IF status[n] = "absent"
    THEN /\ rows' = Append(rows, n)
         /\ data' = [data EXCEPT ![n] = p]
         /\ dest' = [dest EXCEPT ![n] = route[CommitOf[n]]]
         /\ status' = [status EXCEPT ![n] = IF route[CommitOf[n]] = None THEN "waiting_for_route" ELSE "ready"]
    ELSE UNCHANGED <<rows, status, data, dest>>

Receives(type) == bridge = "up" /\ link.bridge /\ link.down # <<>> /\ Head(link.down).type = type

\* The message handler commits and then answers.  (The Wake that follows is a
\* transaction of its own; the timer repeats it.)
ReceiveNotice ==
    /\ Receives("notice")
    /\ LET m == Head(link.down)
       IN  /\ ~Conflicts(m.id, m.data)
           /\ Intake(m.id, m.data)
           /\ link' = [link EXCEPT !.down = Tail(@), !.up = m.id]
    /\ UNCHANGED <<issued, outbox, stale, bridge, route, owner, active, limbo, sent, faults>>

\* "Conflicting payload": intake() throws, and the handler terminates the connection,
\* on which no acknowledgment is under way.
RefuseNotice ==
    /\ Receives("notice")
    /\ Conflicts(Head(link.down).id, Head(link.down).data)
    /\ link' = NoLink
    /\ UNCHANGED <<issued, outbox, stale, bridge, journal, active, limbo, sent, faults>>

\* acknowledged(): nothing but receiver_released, which no decision depends on.
ReceiveAcked ==
    /\ Receives("acked")
    /\ link' = [link EXCEPT !.down = Tail(@)]
    /\ UNCHANGED <<issued, outbox, stale, bridge, journal, active, limbo, sent, faults>>

Active == {t \in Thread : active[t] # None}

Position(n) == CHOOSE i \in DOMAIN rows : rows[i] = n

\* Variant: accepted notices are not passed over.
Pinned(t) == {n \in ToSet(rows) : dest'[n] = t}

\* The first notice in rows for t that is not accepted, after Resolve.
Open(t) == {n \in ToSet(rows) : dest'[n] = t /\ status'[n] # "accepted"}
First(t) == CHOOSE n \in Open(t) : \A m \in Open(t) : Position(n) <= Position(m)

\* wake() with candidates(): for every conversation that is not being served, its
\* first notice if that is ready, in the order of rows while there is room.
Wake ==
    /\ bridge = "up"
    /\ Resolve(route)
    /\ LET eligible == {t \in Thread \ Active : Open(t) # {} /\ status'[First(t)] = "ready"}
           before(t) == {u \in eligible : Position(First(u)) < Position(First(t))}
           chosen == {t \in eligible : Cardinality(Active) + Cardinality(before(t)) < Concurrency}
       IN  /\ chosen # {}
           /\ active' = [t \in Thread |-> IF t \in chosen THEN [id |-> First(t), at |-> "probe"] ELSE active[t]]
    /\ UNCHANGED <<transport, bridge, rows, data, route, owner, limbo, sent, faults>>

At(t, step) == active[t] # None /\ active[t].at = step

\* The probe fails: retry() leaves the notice ready.
ProbeFails(t) ==
    /\ Break
    /\ At(t, "probe")
    /\ active' = [active EXCEPT ![t] = None]
    /\ UNCHANGED <<transport, bridge, journal, limbo, sent>>

\* Variant: the choice of candidates() is trusted.
ClaimsCandidate(n, t) == status[n] = "ready"

\* claim(): still ready, and first among the notices for its destination.
Claims(n, t) ==
    /\ status[n] = "ready"
    /\ dest[n] = t
    /\ \A m \in ToSet(rows) : dest[m] = t /\ Position(m) < Position(n) => status[m] = "accepted"

\* The probe succeeds.
Claim(t) ==
    /\ At(t, "probe")
    /\ LET n == active[t].id
       IN  IF bridge = "up" /\ Claims(n, t)
           THEN /\ status' = [status EXCEPT ![n] = "dispatching"]
                /\ active' = [active EXCEPT ![t].at = "command"]
           ELSE /\ active' = [active EXCEPT ![t] = None]
                /\ UNCHANGED status
    /\ UNCHANGED <<transport, bridge, rows, data, dest, route, owner, limbo, sent, faults>>

\* The command has queued the message and says so.
CommandSucceeds(t) ==
    /\ At(t, "command")
    /\ sent' = [sent EXCEPT ![active[t].id] = @ + 1]
    /\ active' = [active EXCEPT ![t].at = "done"]
    /\ UNCHANGED <<transport, bridge, journal, limbo, faults>>

\* It fails or is killed after its timeout, and may have queued the message.
CommandFails(t) ==
    /\ Break
    /\ At(t, "command")
    /\ \/ sent' = [sent EXCEPT ![active[t].id] = @ + 1]
       \/ UNCHANGED sent
    /\ active' = [active EXCEPT ![t].at = "failed"]
    /\ UNCHANGED <<transport, bridge, journal, limbo>>

\* mark()
Mark(t) ==
    /\ At(t, "done") \/ At(t, "failed")
    /\ status' = [status EXCEPT ![active[t].id] = IF At(t, "done") THEN "accepted" ELSE "uncertain"]
    /\ active' = [active EXCEPT ![t] = None]
    /\ UNCHANGED <<transport, bridge, rows, data, dest, route, owner, limbo, sent, faults>>

\* The write of "accepted" fails; if that of "uncertain" fails too, fail() stops
\* the bridge and the notice stays "dispatching".
MarkFails(t) ==
    /\ Break
    /\ \/ /\ At(t, "done")
          /\ active' = [active EXCEPT ![t].at = "failed"]
          /\ UNCHANGED <<link, bridge>>
       \/ /\ At(t, "failed")
          /\ active' = [active EXCEPT ![t] = None]
          /\ bridge' = "stopping"
          /\ link' = Cut(link)
    /\ UNCHANGED <<issued, outbox, stale, journal, limbo, sent>>

\* stop(): no new work; the lock is released when every dispatch() has ended.
Stop ==
    /\ Break
    /\ bridge = "up"
    /\ bridge' = "stopping"
    /\ link' = Cut(link)
    /\ UNCHANGED <<issued, outbox, stale, journal, active, limbo, sent>>

Stopped ==
    /\ bridge = "stopping"
    /\ Active = {}
    /\ bridge' = "down"
    /\ UNCHANGED <<transport, journal, active, limbo, sent, faults>>

\* The process ends; the commands it runs go on.
Crash ==
    /\ Break
    /\ bridge # "down"
    /\ bridge' = "down"
    /\ link' = Cut(link)
    /\ active' = [t \in Thread |-> None]
    /\ limbo' = limbo \cup {active[t].id : t \in {u \in Thread : At(u, "command")}}
    /\ UNCHANGED <<issued, outbox, stale, journal, sent>>

\* A command without its bridge ends, with or without success.
CommandEnds(n) ==
    /\ n \in limbo
    /\ limbo' = limbo \ {n}
    /\ \/ sent' = [sent EXCEPT ![n] = @ + 1]
       \/ UNCHANGED sent
    /\ UNCHANGED <<transport, bridge, journal, active, faults>>

Dispatching(t) == Claim(t) \/ CommandSucceeds(t) \/ Mark(t)

Next ==
    \/ \E n \in Notice : Issue(n) \/ Reconcile(n) \/ CommandEnds(n)
    \/ \E c \in Commit, t \in Thread : Register(c, t)
    \/ \E t, u \in Thread : Transfer(t, u)
    \/ \E t \in Thread : \/ CloseBranch(t) \/ Dispatching(t)
                         \/ ProbeFails(t) \/ CommandFails(t) \/ MarkFails(t)
    \/ ReceiveAck \/ ReceiveStaleAck \/ Connect \/ Disconnect
    \/ Start \/ ReceiveNotice \/ RefuseNotice \/ ReceiveAcked \/ Wake \/ Stop \/ Stopped \/ Crash

Spec == Init /\ [][Next]_vars

-----------------------------------------------------------------------------
(* Properties.                                                             *)

\* A notice is "removed from the remote outbox only after a committed local inbox
\* record is acknowledged" (tools/ci-webhook/README.md): whatever breaks, its id is
\* in the outbox or in the journal, and in the journal once.  (Not always with the
\* contents issued last: INSERT OR IGNORE and acknowledgments look at ids only.)
NothingLost ==
    /\ \A n \in Notice : issued[n] > 0 => n \in Ids(outbox) \/ n \in ToSet(rows)
    /\ \A i, j \in DOMAIN rows : rows[i] = rows[j] => i = j

\* Nothing is sent twice, though the command has no idempotency key: a notice that
\* may have arrived is not ready to be sent, and one marked accepted has arrived.
\* (The operator is believed, and waits for a command that outlived its bridge.)
SentOnce ==
    \A n \in Notice :
        /\ sent[n] <= 1
        /\ status[n] \in {"absent", "waiting_for_route", "ready"} => sent[n] = 0 /\ n \notin limbo
        /\ status[n] = "accepted" => sent[n] = 1

\* A destination, once pinned, and the route of a commit never change, and they
\* agree, although the branch changes owners while notices wait or are sent.
DestinationIsPinned ==
    [][/\ \A n \in Notice : dest[n] # None => dest'[n] = dest[n]
       /\ \A n \in Notice : dest'[n] # None => dest'[n] = route'[CommitOf[n]]]_vars

\* "Each conversation retains FIFO order once destinations are known": when the
\* command for a notice is started, every earlier notice for its conversation has
\* been accepted, also one that got its route while the probe was under way.
InOrder ==
    [][\A n \in Notice : status[n] # "dispatching" /\ status'[n] = "dispatching" =>
           \A m \in ToSet(rows) :
               dest[m] = dest[n] /\ Position(m) < Position(n) => status[m] = "accepted"]_vars

(***************************************************************************)
(* Liveness.  Timers restart, reconnect and wake the bridge; what is on    *)
(* the way arrives; a command ends (it is killed after 30 s).  Faults, and *)
(* probes that fail, stop some time.                                       *)
(***************************************************************************)

\* What the bridge does next but for its dispatcher; at most one of these is possible.
Bridge == Start \/ Stopped \/ Connect \/ ReceiveNotice \/ RefuseNotice \/ ReceiveAcked

FairSpec ==
    /\ Spec
    /\ WF_vars(Bridge) /\ WF_vars(ReceiveAck) /\ WF_vars(Wake)
    /\ \A t \in Thread : WF_vars(Dispatching(t))

\* The head of the outbox is what the bridge will refuse.
Blocked == outbox # <<>> /\ Conflicts(Head(outbox).id, Head(outbox).data)

\* Every notice reaches the journal, unless from some time on the outbox is blocked
\* for ever by an id that was issued again with other contents; and from the journal
\* it reaches its conversation, unless it or another one for that conversation is
\* uncertain and waits for an operator.
NoticesArrive ==
    \A n \in Notice :
        /\ issued[n] > 0 ~> (n \in ToSet(rows) \/ []Blocked)
        /\ dest[n] # None ~> \/ status[n] = "accepted"
                             \/ \E m \in Notice : dest[m] = dest[n] /\ status[m] = "uncertain"
=============================================================================
