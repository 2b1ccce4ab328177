--------------------------- MODULE CiCommitProofs ---------------------------
(***************************************************************************)
(* Proofs about CiCommit for any workflows, any numbers of attempts and    *)
(* pull request runs, and any number of deliveries: what is stored is      *)
(* well-formed, it does not depend on the order of the events, and the     *)
(* notice issued last is never out of date.                                *)
(***************************************************************************)
EXTENDS CiCommit, TLAPS, SequenceTheorems, WellFoundedInduction

-----------------------------------------------------------------------------
(* The inductive invariant.                                                *)

\* What S, the events that have arrived, says of run p of workflow w.
Seen(S, w, p) == \E e \in S : e.type = "run" /\ e.workflow = w /\ e.run = p
Ended(S, w, p, c) == \E e \in S : /\ e.type = "run" /\ e.workflow = w /\ e.run = p
                                  /\ e.status = "completed" /\ e.conclusion = c
JobFailed(S, w, p) == \E e \in S : e.type = "job" /\ e.workflow = w /\ e.run = p

\* The run r that is stored for a workflow is the newest of S, with its
\* conclusion if S has one, and otherwise with the failure of one of its jobs.
Agrees(S, w, r) ==
    IF r = None THEN \A p \in AnyRun : ~Seen(S, w, p)
    ELSE /\ Seen(S, w, r.run)
         /\ \A p \in AnyRun : Seen(S, w, p) => ~Newer(p, r.run)
         /\ r.status = "completed" => \A c \in Conclusion : Ended(S, w, r.run, c) <=> c = r.conclusion
         /\ r.status = "completed" => r.conclusion \in Conclusion
         /\ r.status = "open" => /\ \A c \in Conclusion : ~Ended(S, w, r.run, c)
                                 /\ r.failedJob = JobFailed(S, w, r.run)
                                 /\ r.conclusion = IF JobFailed(S, w, r.run) THEN "failure" ELSE None

\* The jobs that wait are those of runs that are newer than the one stored.
Waiting(S, J, w, r) ==
    \A p \in AnyRun : <<w, p>> \in J <=> JobFailed(S, w, p) /\ (r = None \/ Newer(p, r.run))

\* The order of the record is that of its runs.
Ordered(s) == ToSet(s.order) = {w \in Workflow : s.runs[w] # None}

Fails(s) == \E w \in Workflow : s.runs[w] # None /\ s.runs[w].conclusion = "failure"

\* The success that was announced last is of runs that are not newer than those
\* of the record, and if it is of the same runs they have passed and it is the
\* last word.
SuccessOK(s, l) ==
    s.successSent # None =>
        /\ \A w \in Workflow : s.runs[w] # None /\ ~Newer(s.successSent[w], s.runs[w].run)
        /\ s.successSent = Fingerprint(s) => /\ AllPassed(s)
                                             /\ l # None /\ l.id = <<"success", Fingerprint(s)>>

\* The failure that was announced was issued for the runs as they are, and it is
\* the last word unless they have passed after all.
FailureOK(s, l) ==
    s.failureSent =>
        /\ l # None
        /\ \A w \in Workflow : l.runs[w] # None => s.runs[w] # None /\ l.runs[w].run = s.runs[w].run
        /\ l.id[1] = "failure" \/ AllPassed(s)

\* What is due has been announced.
Announced(s) ==
    /\ Fails(s) => s.failureSent
    /\ AllPassed(s) => s.successSent = Fingerprint(s)

\* The record ingest() starts from.
Record == IF commit = None THEN Fresh ELSE commit

IInv ==
    /\ TypeOK
    /\ \A w \in Workflow : Agrees(said, w, Record.runs[w]) /\ Waiting(said, jobs, w, Record.runs[w])
    /\ SuccessOK(Record, last) /\ FailureOK(Record, last) /\ Announced(Record)

-----------------------------------------------------------------------------
(* Lemmas about runs and events.                                           *)

\* Runs are pairs of numbers, those of the push among them.
LEMMA RunsArePairs ==
    /\ \A p \in AnyRun : /\ p \in Nat \X Nat
                         /\ p = <<p[1], p[2]>> /\ p[1] \in Nat /\ p[2] \in Nat
    /\ PushRun \subseteq AnyRun
<1>1. ASSUME NEW p \in AnyRun PROVE p \in Nat \X Nat
  <2>1. \A w \in Workflow : Attempt[w] \subseteq Nat \X Nat /\ Foreign[w] \subseteq Nat \X Nat
    BY CommitAssumption
  <2>2. \E w \in Workflow : p \in Attempt[w] \/ p \in Foreign[w]
    BY Zenon DEF AnyRun, PushRun
  <2> QED BY <2>1, <2>2, Zenon
<1>2. \A p \in Nat \X Nat : p = <<p[1], p[2]>> /\ p[1] \in Nat /\ p[2] \in Nat
  OBVIOUS
<1>3. PushRun \subseteq AnyRun
  BY Zenon DEF AnyRun
<1> QED BY <1>1, <1>2, <1>3

\* Newer is a strict total order of them.
LEMMA NewerIsOrder ==
    \A p, q \in AnyRun : /\ ~Newer(p, p)
                         /\ Newer(p, q) => ~Newer(q, p)
                         /\ ~Newer(p, q) /\ ~Newer(q, p) => p = q
                         /\ \A r \in AnyRun : /\ Newer(p, q) /\ Newer(q, r) => Newer(p, r)
                                              /\ ~Newer(p, q) /\ ~Newer(q, r) => ~Newer(p, r)
<1> SUFFICES ASSUME NEW p \in AnyRun, NEW q \in AnyRun
             PROVE  /\ ~Newer(p, p)
                    /\ Newer(p, q) => ~Newer(q, p)
                    /\ ~Newer(p, q) /\ ~Newer(q, p) => p = q
                    /\ \A r \in AnyRun : /\ Newer(p, q) /\ Newer(q, r) => Newer(p, r)
                                         /\ ~Newer(p, q) /\ ~Newer(q, r) => ~Newer(p, r)
  OBVIOUS
<1>1. /\ p[1] \in Nat /\ p[2] \in Nat /\ p = <<p[1], p[2]>>
      /\ q[1] \in Nat /\ q[2] \in Nat /\ q = <<q[1], q[2]>>
  BY RunsArePairs
<1>2. /\ ~Newer(p, p)
      /\ Newer(p, q) => ~Newer(q, p)
  BY <1>1 DEF Newer
<1>3. ASSUME ~Newer(p, q), ~Newer(q, p) PROVE p = q
  <2>1. p[1] = q[1] /\ p[2] = q[2]
    BY <1>1, <1>3 DEF Newer
  <2> QED BY <1>1, <2>1, Zenon
<1>4. ASSUME NEW r \in AnyRun
      PROVE  /\ Newer(p, q) /\ Newer(q, r) => Newer(p, r)
             /\ ~Newer(p, q) /\ ~Newer(q, r) => ~Newer(p, r)
  <2>1. r[1] \in Nat /\ r[2] \in Nat
    BY RunsArePairs
  <2> QED BY <1>1, <2>1 DEF Newer
<1> QED BY <1>2, <1>3, <1>4

\* The fields of the events.
LEMMA EventFields ==
    /\ \A e \in RunEvent : /\ e.type = "run" /\ e.workflow \in Workflow
                           /\ e.run \in PushRun /\ e.run \in AnyRun
                           /\ e.status \in Status /\ e.conclusion \in Conclusion \cup {None}
                           /\ e.status = "completed" <=> e.conclusion # None
    /\ \A e \in JobEvent : /\ e.type = "job" /\ e.workflow \in Workflow /\ e.run \in AnyRun
                           /\ e.status = "open" /\ e.conclusion = "failure"
    /\ Push.type = "push"
<1>1. ASSUME NEW e \in RunEvent
      PROVE  /\ e.type = "run" /\ e.workflow \in Workflow /\ e.run \in AnyRun
             /\ e.status \in Status /\ e.conclusion \in Conclusion \cup {None}
             /\ e.status = "completed" <=> e.conclusion # None
             /\ e.run \in Attempt[e.workflow]
  BY DEF RunEvent
<1>2. ASSUME NEW e \in RunEvent PROVE e.run \in PushRun
  BY <1>1, Zenon DEF PushRun
<1>3. ASSUME NEW e \in JobEvent
      PROVE  /\ e.type = "job" /\ e.workflow \in Workflow /\ e.run \in AnyRun
             /\ e.status = "open" /\ e.conclusion = "failure"
  BY DEF JobEvent
<1>4. Push.type = "push"
  BY DEF Push
<1> QED BY <1>1, <1>2, <1>3, <1>4

\* What the event of a run adds to what has been said.
LEMMA RunSays ==
    ASSUME NEW S, NEW e \in RunEvent, NEW w, NEW p, NEW c
    PROVE  /\ Seen(S \cup {e}, w, p) <=> Seen(S, w, p) \/ (w = e.workflow /\ p = e.run)
           /\ Ended(S \cup {e}, w, p, c) <=>
                  \/ Ended(S, w, p, c)
                  \/ w = e.workflow /\ p = e.run /\ e.status = "completed" /\ c = e.conclusion
           /\ JobFailed(S \cup {e}, w, p) <=> JobFailed(S, w, p)
<1>1. e.type = "run" /\ e.type # "job"
  BY EventFields
<1> QED BY <1>1, Zenon DEF Seen, Ended, JobFailed

\* A failed job adds its failure and nothing about runs.
LEMMA JobSays ==
    ASSUME NEW S, NEW e \in JobEvent, NEW w, NEW p, NEW c
    PROVE  /\ Seen(S \cup {e}, w, p) <=> Seen(S, w, p)
           /\ Ended(S \cup {e}, w, p, c) <=> Ended(S, w, p, c)
           /\ JobFailed(S \cup {e}, w, p) <=> JobFailed(S, w, p) \/ (w = e.workflow /\ p = e.run)
<1>1. e.type # "run" /\ e.type = "job"
  BY EventFields
<1> QED BY <1>1, Zenon DEF Seen, Ended, JobFailed

\* The push says nothing of runs or jobs.
LEMMA PushSays ==
    ASSUME NEW S, NEW w, NEW p, NEW c
    PROVE  /\ Seen(S \cup {Push}, w, p) <=> Seen(S, w, p)
           /\ Ended(S \cup {Push}, w, p, c) <=> Ended(S, w, p, c)
           /\ JobFailed(S \cup {Push}, w, p) <=> JobFailed(S, w, p)
<1>1. Push.type # "run" /\ Push.type # "job"
  BY EventFields
<1> QED BY <1>1, Zenon DEF Seen, Ended, JobFailed

-----------------------------------------------------------------------------
(* Lemmas about reduce().                                                  *)

\* The transaction of ingest() so far.
Transaction == [state : Commit, outbox : Seq(Notice), last : Notice \cup {None}]

\* The outbox takes any notice.
LEMMA EnqueueType ==
    ASSUME NEW box \in Seq(Notice), NEW n \in Notice
    PROVE  Enqueue(box, n) \in Seq(Notice)
BY AppendProperties DEF Enqueue

\* The search for the first failed run finds one if there is one.
LEMMA FailingFacts ==
    ASSUME NEW s \in Commit, Ordered(s)
    PROVE  /\ Failing(s) # 0 <=> Fails(s)
           /\ Failing(s) # 0 => LET w == s.order[Failing(s)]
                                IN  /\ w \in Workflow /\ s.runs[w] \in Run
                                    /\ s.runs[w] # None /\ s.runs[w].conclusion = "failure"
<1> DEFINE I == {i \in 1..Len(s.order) : s.runs[s.order[i]].conclusion = "failure"}
<1>1. s.order \in Seq(Workflow) /\ s.runs \in [Workflow -> Run \cup {None}]
  BY DEF Commit, Runs
<1>2. /\ Len(s.order) \in Nat /\ DOMAIN s.order = 1..Len(s.order)
      /\ \A i \in 1..Len(s.order) : s.order[i] \in Workflow /\ s.runs[s.order[i]] # None
  <2>1. Len(s.order) \in Nat /\ DOMAIN s.order = 1..Len(s.order)
    BY <1>1, LenProperties
  <2>2. \A i \in 1..Len(s.order) : s.order[i] \in ToSet(s.order)
    BY <2>1 DEF ToSet
  <2> QED BY <2>1, <2>2 DEF Ordered
<1>3. I # {} <=> Fails(s)
  <2>1. ASSUME NEW i \in I PROVE Fails(s)
    BY <1>2, <2>1 DEF Fails
  <2>2. ASSUME NEW w \in Workflow, s.runs[w] # None, s.runs[w].conclusion = "failure" PROVE I # {}
    <3>1. w \in ToSet(s.order)
      BY <2>2 DEF Ordered
    <3>2. PICK i \in DOMAIN s.order : s.order[i] = w
      BY <3>1 DEF ToSet
    <3> QED BY <1>2, <2>2, <3>2
  <2> QED BY <2>1, <2>2, Zenon DEF Fails
<1>4. ASSUME I # {} PROVE Min(I) \in I
  <2>1. I \subseteq Nat
    BY <1>2
  <2>2. PICK x \in I : \A y \in I : ~(<<y, x>> \in OpToRel(<, Nat))
    BY <1>4, <2>1, WFMin, NatLessThanWellFounded
  <2>3. \A y \in I : ~(y < x)
    BY <2>1, <2>2, Zenon DEF OpToRel
  <2>4. \A y \in I : x =< y
    BY <2>1, <2>3
  <2>5. \E x1 \in I : \A y \in I : x1 =< y
    BY <2>4
  <2> HIDE DEF I
  <2> QED BY <2>5 DEF Min
<1>5. Failing(s) = IF I # {} THEN Min(I) ELSE 0
  BY Zenon DEF Failing, SelectInSeq
<1>6. CASE I = {}
  BY <1>3, <1>5, <1>6
<1>7. CASE I # {}
  <2>1. PICK i : i = Failing(s) /\ i \in I
    BY <1>4, <1>5, <1>7
  <2>2. i # 0 /\ s.order[i] \in Workflow /\ s.runs[s.order[i]] # None /\ s.runs[s.order[i]].conclusion = "failure"
    BY <1>2, <2>1
  <2>3. s.runs[s.order[i]] \in Run
    BY <1>1, <2>2
  <2> QED BY <1>3, <1>7, <2>1, <2>2, <2>3
<1> QED BY <1>6, <1>7

\* What reduce() keeps: the record is well-formed, and what it says of the
\* notices is true.
Good(r) ==
    /\ r \in Transaction /\ Ordered(r.state)
    /\ SuccessOK(r.state, r.last) /\ FailureOK(r.state, r.last) /\ Announced(r.state)

\* The fields of a record.
LEMMA CommitFields ==
    ASSUME NEW s \in Commit
    PROVE  /\ s.runs \in [Workflow -> Run \cup {None}] /\ s.order \in Seq(Workflow)
           /\ s.failureSent \in BOOLEAN /\ s.successSent \in Passed \cup {None}
           /\ s = [runs |-> s.runs, order |-> s.order, failureSent |-> s.failureSent, successSent |-> s.successSent]
           /\ \A w \in Workflow : s.runs[w] # None => s.runs[w] \in Run
BY DEF Commit, Runs

\* The fields of a run.
LEMMA RunFields ==
    ASSUME NEW r \in Run
    PROVE  /\ r.run \in PushRun /\ r.run \in AnyRun /\ r.status \in Status /\ r.status \in {"open", "completed"}
           /\ r.conclusion \in Conclusion \cup {None} /\ r.failedJob \in BOOLEAN
           /\ r # None
BY RunsArePairs, NoneAssumption DEF Run, Status

\* The fingerprint is of the runs of the record; of all of them, it is the name
\* of a success.
LEMMA FingerprintFacts ==
    ASSUME NEW s \in Commit, Ordered(s)
    PROVE  /\ \A t \in Commit : t.runs = s.runs /\ t.order = s.order => Fingerprint(t) = Fingerprint(s)
           /\ \A w \in Workflow : s.runs[w] # None => Fingerprint(s)[w] = s.runs[w].run
           /\ (\A w \in Workflow : s.runs[w] # None) => Fingerprint(s) \in Passed /\ Fingerprint(s) # None
           /\ AllPassed(s) => Fingerprint(s) \in Passed
<1>1. ASSUME NEW w \in Workflow, s.runs[w] # None
      PROVE  w \in ToSet(s.order) /\ s.runs[w].run \in PushRun
  BY <1>1, CommitFields, RunFields DEF Ordered
<1>2. \A w \in Workflow : s.runs[w] # None => Fingerprint(s)[w] = s.runs[w].run
  BY <1>1 DEF Fingerprint
<1>3. ASSUME \A w \in Workflow : s.runs[w] # None PROVE Fingerprint(s) \in Passed /\ Fingerprint(s) # None
  <2>1. ToSet(s.order) = Workflow
    BY <1>3 DEF Ordered
  <2>2. Fingerprint(s) \in Passed
    BY <1>1, <1>3, <2>1 DEF Fingerprint, Passed
  <2> QED BY <2>2, NoneAssumption
<1>4. ASSUME NEW t \in Commit, t.runs = s.runs, t.order = s.order PROVE Fingerprint(t) = Fingerprint(s)
  BY <1>4 DEF Fingerprint
<1> QED BY <1>2, <1>3, <1>4 DEF AllPassed

\* The second half of reduce() announces what is due and leaves the runs alone.
LEMMA AnnounceFacts ==
    ASSUME NEW r \in Transaction, Ordered(r.state), SuccessOK(r.state, r.last), FailureOK(r.state, r.last)
    PROVE  Good(Announce(r)) /\ Announce(r).state.runs = r.state.runs
<1> DEFINE s == r.state
           w == s.order[Failing(s)]
<1>1. s \in Commit /\ r.outbox \in Seq(Notice) /\ r.last \in Notice \cup {None}
  BY DEF Transaction
<1>2. s.runs \in Runs
  BY <1>1, CommitFields DEF Runs
<1>3. CASE Failing(s) # 0 /\ ~s.failureSent
  <2> DEFINE n == [id |-> <<"failure", w, s.runs[w].run>>, runs |-> s.runs]
             t == [s EXCEPT !.failureSent = TRUE]
  <2>1. w \in Workflow /\ s.runs[w] \in Run /\ s.runs[w] # None /\ s.runs[w].conclusion = "failure"
    BY <1>1, <1>3, FailingFacts
  <2>2. n \in Notice /\ n # None
    <3>1. <<"failure", w, s.runs[w].run>> \in {"failure"} \X Workflow \X PushRun
      BY <2>1, RunFields
    <3>2. n \in Notice
      BY <1>2, <3>1 DEF Notice
    <3> QED BY <3>2, NoneAssumption
  <2>3. /\ t \in Commit /\ t.runs = s.runs /\ t.order = s.order
        /\ t.failureSent = TRUE /\ t.successSent = s.successSent
    BY <1>1 DEF Commit
  <2>4. Announce(r) = [state |-> t, outbox |-> Enqueue(r.outbox, n), last |-> n]
    BY <1>3 DEF Announce
  <2>5. Announce(r) \in Transaction
    BY <1>1, <2>2, <2>3, <2>4, EnqueueType DEF Transaction
  <2>6. ~AllPassed(s) /\ ~AllPassed(t) /\ Fingerprint(t) = Fingerprint(s)
    BY <1>1, <2>1, <2>3, FingerprintFacts DEF AllPassed
  <2>7. Ordered(t)
    BY <2>3 DEF Ordered
  <2>8. SuccessOK(t, n)
    BY <2>3, <2>6 DEF SuccessOK
  <2>9. FailureOK(t, n)
    <3>1. n.runs = s.runs /\ n.id[1] = "failure"
      OBVIOUS
    <3> QED BY <2>2, <2>3, <3>1 DEF FailureOK
  <2>10. Announced(t)
    BY <2>3, <2>6 DEF Announced
  <2>11. Announce(r).state = t /\ Announce(r).last = n
    BY <2>4
  <2> HIDE DEF t, n
  <2> QED BY <2>3, <2>5, <2>7, <2>8, <2>9, <2>10, <2>11 DEF Good
<1>4. CASE ~(Failing(s) # 0 /\ ~s.failureSent) /\ AllPassed(s) /\ s.successSent # Fingerprint(s)
  <2> DEFINE n == [id |-> <<"success", Fingerprint(s)>>, runs |-> s.runs]
             t == [s EXCEPT !.successSent = Fingerprint(s)]
  <2>1. Fingerprint(s) \in Passed /\ \A v \in Workflow : s.runs[v] # None /\ Fingerprint(s)[v] = s.runs[v].run
    BY <1>1, <1>4, FingerprintFacts DEF AllPassed
  <2>2. n \in Notice /\ n # None
    <3>1. <<"success", Fingerprint(s)>> \in {"success"} \X Passed
      BY <2>1
    <3>2. n \in Notice
      BY <1>2, <3>1 DEF Notice
    <3> QED BY <3>2, NoneAssumption
  <2>3. /\ t \in Commit /\ t.runs = s.runs /\ t.order = s.order
        /\ t.failureSent = s.failureSent /\ t.successSent = Fingerprint(s)
    BY <1>1, <2>1 DEF Commit
  <2>4. Announce(r) = [state |-> t, outbox |-> Enqueue(r.outbox, n), last |-> n]
    BY <1>4 DEF Announce
  <2>5. Announce(r) \in Transaction
    BY <1>1, <2>2, <2>3, <2>4, EnqueueType DEF Transaction
  <2>6. AllPassed(t) /\ Fingerprint(t) = Fingerprint(s) /\ Fails(t) = Fails(s)
    BY <1>1, <1>4, <2>3, FingerprintFacts, ZenonT(40) DEF AllPassed, Fails
  <2>7. Ordered(t)
    BY <2>3 DEF Ordered
  <2>8. SuccessOK(t, n)
    <3>1. \A v \in Workflow : ~Newer(s.runs[v].run, s.runs[v].run)
      BY <1>1, <2>1, CommitFields, RunFields, NewerIsOrder
    <3>2. n.id = <<"success", Fingerprint(s)>>
      OBVIOUS
    <3> QED BY <2>1, <2>2, <2>3, <2>6, <3>1, <3>2 DEF SuccessOK
  <2>9. FailureOK(t, n)
    <3>1. n.runs = s.runs
      OBVIOUS
    <3> QED BY <2>2, <2>3, <2>6, <3>1 DEF FailureOK
  <2>10. Announced(t)
    <3>1. ~Fails(s)
      BY <1>4, NoneAssumption DEF AllPassed, Fails
    <3> QED BY <2>3, <2>6, <3>1 DEF Announced
  <2>11. Announce(r).state = t /\ Announce(r).last = n
    BY <2>4
  <2> HIDE DEF t, n
  <2> QED BY <2>3, <2>5, <2>7, <2>8, <2>9, <2>10, <2>11 DEF Good
<1>5. CASE ~(Failing(s) # 0 /\ ~s.failureSent) /\ ~(AllPassed(s) /\ s.successSent # Fingerprint(s))
  <2>1. Announce(r) = r
    BY <1>5 DEF Announce
  <2>2. Announced(s)
    BY <1>1, <1>5, FailingFacts DEF Announced
  <2> QED BY <2>1, <2>2 DEF Good
<1> QED BY <1>3, <1>4, <1>5

\* The run that is stored is one, and it is the one of the event.
LEMMA RecordedFacts ==
    ASSUME NEW prior \in Run \cup {None}, NEW e \in RunEvent \cup JobEvent, NEW job \in BOOLEAN, Counts(prior, e)
    PROVE  Recorded(prior, e, job) \in Run /\ Recorded(prior, e, job).run = e.run
<1>1. CASE e \in JobEvent
  <2>1. e.type = "job" /\ e.conclusion = "failure"
    BY <1>1, EventFields
  <2>2. prior \in Run /\ prior.run = e.run
    BY <2>1 DEF Counts
  <2>3. Recorded(prior, e, job) = [prior EXCEPT !.failedJob = TRUE, !.conclusion = e.conclusion]
    BY <2>1 DEF Recorded
  <2> QED BY <2>1, <2>2, <2>3, CommitAssumption DEF Run
<1>2. CASE e \in RunEvent
  <2>1. /\ e.type # "job" /\ e.run \in PushRun /\ e.status \in Status
        /\ e.conclusion \in Conclusion \cup {None}
    BY <1>2, EventFields
  <2> DEFINE failed == prior # None /\ prior.run = e.run /\ prior.failedJob
             c == IF failed /\ e.status # "completed" THEN prior.conclusion ELSE e.conclusion
             f == e.conclusion # "success" /\ (job \/ failed)
  <2>2. c \in Conclusion \cup {None} /\ f \in BOOLEAN
    BY <2>1, RunFields
  <2>3. Recorded(prior, e, job) = [run |-> e.run, status |-> e.status, conclusion |-> c, failedJob |-> f]
    BY <2>1 DEF Recorded
  <2> HIDE DEF c, f
  <2> QED BY <2>1, <2>2, <2>3 DEF Run
<1> QED BY <1>1, <1>2

\* An event that counts and is not about a run that is over leaves the record
\* well-formed, and what it says of the notices is still true.
LEMMA StoredFacts ==
    ASSUME NEW s \in Commit, Ordered(s), NEW l, SuccessOK(s, l), FailureOK(s, l),
           NEW e \in RunEvent \cup JobEvent, NEW job \in BOOLEAN, Counts(s.runs[e.workflow], e),
           s.runs[e.workflow] # None /\ s.runs[e.workflow].run = e.run => s.runs[e.workflow].status # "completed"
    PROVE  LET t == Stored(s, e, job)
           IN  /\ t \in Commit /\ Ordered(t) /\ SuccessOK(t, l) /\ FailureOK(t, l)
               /\ t.runs = [s.runs EXCEPT ![e.workflow] = Recorded(s.runs[e.workflow], e, job)]
<1> DEFINE w == e.workflow
           prior == s.runs[w]
           new == Recorded(prior, e, job)
           t == Stored(s, e, job)
<1>1. /\ w \in Workflow /\ e.run \in AnyRun
  BY EventFields
<1>2. /\ s.runs \in [Workflow -> Run \cup {None}] /\ s.order \in Seq(Workflow)
      /\ s.failureSent \in BOOLEAN /\ s.successSent \in Passed \cup {None}
      /\ prior \in Run \cup {None} /\ (prior # None => prior \in Run)
  BY <1>1, CommitFields
<1>3. new \in Run /\ new.run = e.run /\ new # None
  BY <1>2, RecordedFacts, RunFields
<1>4. /\ t.runs = [s.runs EXCEPT ![w] = new]
      /\ t.order = IF prior = None THEN Append(s.order, w) ELSE s.order
      /\ t.failureSent = (s.failureSent /\ (prior = None \/ prior.run = e.run))
      /\ t.successSent = s.successSent
      /\ t = [runs |-> t.runs, order |-> t.order, failureSent |-> t.failureSent, successSent |-> t.successSent]
  <2>1. t = [s EXCEPT !.runs = [s.runs EXCEPT ![w] = new],
                      !.order = IF prior = None THEN Append(s.order, w) ELSE s.order,
                      !.failureSent = (s.failureSent /\ (prior = None \/ prior.run = e.run))]
    BY Zenon DEF Stored, FailureSentBefore
  <2>2. s = [runs |-> s.runs, order |-> s.order, failureSent |-> s.failureSent, successSent |-> s.successSent]
    BY CommitFields
  <2> QED BY <2>1, <2>2
<1>5. /\ t.runs \in [Workflow -> Run \cup {None}]
      /\ t.runs[w] = new /\ \A v \in Workflow : v # w => t.runs[v] = s.runs[v]
  BY <1>1, <1>2, <1>3, <1>4
<1>6. t.order \in Seq(Workflow) /\ ToSet(t.order) = ToSet(s.order) \cup {w}
  <2>1. CASE prior = None
    <3> DEFINE u == Append(s.order, w)
    <3>1. /\ u \in Seq(Workflow) /\ Len(u) = Len(s.order) + 1
          /\ DOMAIN u = 1..Len(s.order) + 1 /\ DOMAIN s.order = 1..Len(s.order) /\ Len(s.order) \in Nat
          /\ \A i \in 1..Len(s.order) : u[i] = s.order[i]
          /\ u[Len(s.order) + 1] = w
      BY <1>1, <1>2, AppendProperties, LenProperties
    <3> HIDE DEF u
    <3>2. ToSet(u) = ToSet(s.order) \cup {w}
      BY <3>1 DEF ToSet
    <3> QED BY <1>4, <2>1, <3>1, <3>2 DEF u
  <2>2. CASE prior # None
    <3>1. w \in ToSet(s.order)
      BY <1>1, <2>2 DEF Ordered
    <3> QED BY <1>2, <1>4, <2>2, <3>1
  <2> QED BY <2>1, <2>2
<1> HIDE DEF new, t
<1>7. t \in Commit
  <2>1. t.failureSent \in BOOLEAN
    BY <1>2, <1>4
  <2> QED BY <1>2, <1>4, <1>5, <1>6, <2>1 DEF Commit, Runs
<1>8. Ordered(t)
  BY <1>1, <1>3, <1>5, <1>6 DEF Ordered
<1>9. ASSUME prior = None
      PROVE  /\ s.successSent = None /\ ~AllPassed(s)
  BY <1>1, <1>9 DEF SuccessOK, AllPassed
<1>10. ASSUME prior # None, prior.run = e.run
       PROVE  ~AllPassed(s)
  BY <1>1, <1>10 DEF AllPassed
<1>11. ASSUME prior # None, prior.run # e.run
       PROVE  Newer(e.run, prior.run) /\ prior.run \in AnyRun
  <2>1. prior.run \in AnyRun
    BY <1>2, <1>11, RunFields
  <2> QED BY <1>1, <1>11, <2>1, NewerIsOrder DEF Counts
<1>12. SuccessOK(t, l)
  <2> SUFFICES ASSUME s.successSent # None
               PROVE  /\ \A v \in Workflow : t.runs[v] # None /\ ~Newer(s.successSent[v], t.runs[v].run)
                      /\ s.successSent # Fingerprint(t)
    BY <1>4 DEF SuccessOK
  <2>1. /\ prior # None /\ s.successSent \in [Workflow -> PushRun]
        /\ \A v \in Workflow : s.runs[v] # None /\ ~Newer(s.successSent[v], s.runs[v].run)
    BY <1>1, <1>2 DEF SuccessOK, Passed
  <2>2. s.successSent[w] \in AnyRun
    BY <1>1, <2>1, RunsArePairs
  <2>3. CASE prior.run = e.run
    <3>1. \A v \in Workflow : t.runs[v] # None /\ t.runs[v].run = s.runs[v].run
      BY <1>3, <1>5, <2>1, <2>3
    <3>2. Fingerprint(t) = Fingerprint(s)
      <4>1. ToSet(t.order) = Workflow /\ ToSet(s.order) = Workflow
        BY <1>8, <2>1, <3>1 DEF Ordered
      <4> QED BY <3>1, <4>1, Zenon DEF Fingerprint
    <3>3. s.successSent # Fingerprint(s)
      BY <1>10, <2>1, <2>3 DEF SuccessOK
    <3> QED BY <2>1, <3>1, <3>2, <3>3
  <2>4. CASE prior.run # e.run
    <3>1. Newer(e.run, prior.run) /\ prior.run \in AnyRun /\ ~Newer(s.successSent[w], prior.run)
      BY <1>1, <1>11, <2>1, <2>4
    <3>2. ~Newer(s.successSent[w], e.run) /\ s.successSent[w] # e.run
      BY <1>1, <2>2, <3>1, NewerIsOrder
    <3>3. \A v \in Workflow : t.runs[v] # None /\ ~Newer(s.successSent[v], t.runs[v].run)
      BY <1>3, <1>5, <2>1, <3>2
    <3>4. Fingerprint(t)[w] = e.run
      BY <1>1, <1>3, <1>5, <1>7, <1>8, FingerprintFacts
    <3> QED BY <3>2, <3>3, <3>4
  <2> QED BY <2>3, <2>4
<1>13. FailureOK(t, l)
  <2> SUFFICES ASSUME s.failureSent, prior = None \/ prior.run = e.run
               PROVE  FailureOK(t, l)
    BY <1>4 DEF FailureOK
  <2>1. /\ l # None /\ l.id[1] = "failure"
        /\ \A v \in Workflow : l.runs[v] # None => s.runs[v] # None /\ l.runs[v].run = s.runs[v].run
    BY <1>9, <1>10 DEF FailureOK
  <2>2. \A v \in Workflow : l.runs[v] # None => t.runs[v] # None /\ l.runs[v].run = t.runs[v].run
    BY <1>3, <1>5, <2>1
  <2> QED BY <2>1, <2>2 DEF FailureOK
<1> QED BY <1>4, <1>7, <1>8, <1>12, <1>13 DEF new, t

\* What one call of reduce() makes of a run event or a job event.
LEMMA ReduceFacts ==
    ASSUME NEW r, Good(r), NEW e \in RunEvent \cup JobEvent, NEW job \in BOOLEAN,
           LET prior == r.state.runs[e.workflow]
           IN  Counts(prior, e) /\ prior # None /\ prior.run = e.run => prior.status # "completed"
    PROVE  /\ Good(reduce(r, e, job))
           /\ reduce(r, e, job).state.runs =
                  IF Counts(r.state.runs[e.workflow], e)
                  THEN [r.state.runs EXCEPT ![e.workflow] = Recorded(r.state.runs[e.workflow], e, job)]
                  ELSE r.state.runs
<1>1. e.type # "push"
  BY EventFields
<1>2. CASE ~Counts(r.state.runs[e.workflow], e)
  BY <1>1, <1>2 DEF reduce
<1>3. CASE Counts(r.state.runs[e.workflow], e)
  <2> DEFINE t == Stored(r.state, e, job)
             u == [r EXCEPT !.state = t]
  <2>1. /\ r \in Transaction /\ r.state \in Commit /\ Ordered(r.state)
        /\ SuccessOK(r.state, r.last) /\ FailureOK(r.state, r.last)
    BY DEF Good, Transaction
  <2>2. /\ t \in Commit /\ Ordered(t) /\ SuccessOK(t, r.last) /\ FailureOK(t, r.last)
        /\ t.runs = [r.state.runs EXCEPT ![e.workflow] = Recorded(r.state.runs[e.workflow], e, job)]
    BY <1>3, <2>1, StoredFacts
  <2>3. reduce(r, e, job) = Announce(u)
    BY <1>1, <1>3 DEF reduce
  <2> HIDE DEF t
  <2>4. u \in Transaction /\ u.state = t /\ u.last = r.last
    BY <2>1, <2>2 DEF Transaction
  <2> HIDE DEF u
  <2>5. Good(Announce(u)) /\ Announce(u).state.runs = t.runs
    BY <2>2, <2>4, AnnounceFacts
  <2> QED BY <1>3, <2>2, <2>3, <2>5
<1> QED BY <1>2, <1>3

-----------------------------------------------------------------------------
(* What the stored runs and the waiting jobs have to do with the events.   *)

\* An event about another workflow changes nothing.
LEMMA Unaffected ==
    ASSUME NEW S, NEW S2, NEW J, NEW J2, NEW w \in Workflow, NEW r,
           \A p \in AnyRun : /\ Seen(S2, w, p) <=> Seen(S, w, p)
                             /\ \A c \in Conclusion : Ended(S2, w, p, c) <=> Ended(S, w, p, c)
                             /\ JobFailed(S2, w, p) <=> JobFailed(S, w, p)
                             /\ <<w, p>> \in J2 <=> <<w, p>> \in J,
           r # None => r \in Run, Agrees(S, w, r), Waiting(S, J, w, r)
    PROVE  Agrees(S2, w, r) /\ Waiting(S2, J2, w, r)
<1>1. r # None => r.run \in AnyRun
  BY RunFields
<1>2. Waiting(S2, J2, w, r)
  BY DEF Waiting
<1>3. CASE r = None
  BY <1>2, <1>3 DEF Agrees
<1>4. CASE r # None
  <2>1. JobFailed(S2, w, r.run) = JobFailed(S, w, r.run)
    <3>1. JobFailed(S2, w, r.run) \in BOOLEAN /\ JobFailed(S, w, r.run) \in BOOLEAN
      BY Zenon DEF JobFailed
    <3>2. JobFailed(S2, w, r.run) <=> JobFailed(S, w, r.run)
      BY <1>1, <1>4, Zenon
    <3> QED BY <3>1, <3>2
  <2> QED BY <1>1, <1>2, <1>4, <2>1 DEF Agrees
<1> QED BY <1>3, <1>4

\* A failed job of the stored run: it fails unless it is over.
LEMMA JobOfStored ==
    ASSUME NEW S, NEW J, NEW e \in JobEvent, NEW r \in Run, r.run = e.run,
           Agrees(S, e.workflow, r), Waiting(S, J, e.workflow, r),
           NEW n, n = IF r.status = "completed" THEN r ELSE [r EXCEPT !.failedJob = TRUE, !.conclusion = "failure"]
    PROVE  Agrees(S \cup {e}, e.workflow, n) /\ Waiting(S \cup {e}, J, e.workflow, n)
<1> DEFINE w == e.workflow
           T == S \cup {e}
<1>1. /\ r.run \in AnyRun /\ r # None /\ r.status \in {"open", "completed"}
  BY RunFields
<1>2. \A p \in AnyRun : /\ Seen(T, w, p) <=> Seen(S, w, p)
                        /\ \A c \in Conclusion : Ended(T, w, p, c) <=> Ended(S, w, p, c)
                        /\ JobFailed(T, w, p) <=> JobFailed(S, w, p) \/ p = e.run
  BY JobSays
<1>3. /\ n \in Run /\ n # None /\ n.run = r.run /\ n.status = r.status
      /\ n.status = "completed" => n.conclusion = r.conclusion
      /\ n.status = "open" => n.conclusion = "failure" /\ n.failedJob = TRUE
  <2>1. n \in Run /\ n.run = r.run /\ n.status = r.status
        /\ (n.status = "completed" => n.conclusion = r.conclusion)
        /\ (n.status = "open" => n.conclusion = "failure" /\ n.failedJob = TRUE)
    BY CommitAssumption DEF Run
  <2> QED BY <2>1, RunFields
<1>4. JobFailed(T, w, r.run) = TRUE
  BY <1>1, <1>2 DEF JobFailed
<1> HIDE DEF T
<1>5. Agrees(T, w, n)
  BY <1>1, <1>2, <1>3, <1>4 DEF Agrees
<1>6. Waiting(T, J, w, n)
  BY <1>1, <1>2, <1>3, NewerIsOrder DEF Waiting
<1> QED BY <1>5, <1>6 DEF T

\* A failed job of another run than the stored one waits if it is newer.
LEMMA JobOfOther ==
    ASSUME NEW S, NEW J, NEW e \in JobEvent, NEW r \in Run \cup {None}, r # None => r.run # e.run,
           Agrees(S, e.workflow, r), Waiting(S, J, e.workflow, r),
           NEW J2, J2 = IF r = None \/ Newer(e.run, r.run) THEN J \cup {<<e.workflow, e.run>>} ELSE J
    PROVE  Agrees(S \cup {e}, e.workflow, r) /\ Waiting(S \cup {e}, J2, e.workflow, r)
<1> DEFINE w == e.workflow
           T == S \cup {e}
<1>1. /\ r # None => r \in Run /\ r.run \in AnyRun
      /\ e.run \in AnyRun
  BY RunFields, EventFields
<1>2. \A p \in AnyRun : /\ Seen(T, w, p) <=> Seen(S, w, p)
                        /\ \A c \in Conclusion : Ended(T, w, p, c) <=> Ended(S, w, p, c)
                        /\ JobFailed(T, w, p) <=> JobFailed(S, w, p) \/ p = e.run
  BY JobSays
<1> HIDE DEF T
<1>3. Waiting(T, J2, w, r)
  <2>1. \A p \in AnyRun : <<w, p>> \in J2 <=> <<w, p>> \in J \/ (p = e.run /\ (r = None \/ Newer(e.run, r.run)))
    OBVIOUS
  <2> QED BY <1>2, <2>1 DEF Waiting
<1>4. CASE r = None
  BY <1>2, <1>3, <1>4 DEF Agrees, T
<1>5. CASE r # None
  <2>1. JobFailed(T, w, r.run) = JobFailed(S, w, r.run)
    <3>1. JobFailed(T, w, r.run) \in BOOLEAN /\ JobFailed(S, w, r.run) \in BOOLEAN
      BY Zenon DEF JobFailed
    <3> QED BY <1>1, <1>2, <1>5, <3>1
  <2>2. Agrees(T, w, r)
    BY <1>1, <1>2, <1>5, <2>1 DEF Agrees
  <2> QED BY <1>3, <2>2 DEF T
<1> QED BY <1>4, <1>5

\* What a run event and the job that waited for it leave.
After(r, e, J) ==
    LET job == <<e.workflow, e.run>> \in J
    IN  IF ~Counts(r, e) THEN r
        ELSE IF job /\ e.status # "completed"
        THEN [Recorded(r, e, FALSE) EXCEPT !.failedJob = TRUE, !.conclusion = "failure"]
        ELSE Recorded(r, e, job /\ e.status = "completed" /\ e.conclusion # "success")

\* The run of an event that counts is the newest of which anything is known; if
\* it was not the stored one, what is known of it is the job that waits.
LEMMA RunArrives ==
    ASSUME NEW S, NEW J, NEW e \in RunEvent, NEW r \in Run \cup {None},
           Agrees(S, e.workflow, r), Waiting(S, J, e.workflow, r),
           e.status = "completed" => \A c \in Conclusion : ~Ended(S, e.workflow, e.run, c),
           NEW n, n = After(r, e, J),
           NEW J2, J2 = {j \in J : j[1] # e.workflow \/ Newer(j[2], e.run)}
    PROVE  /\ Agrees(S \cup {e}, e.workflow, n) /\ Waiting(S \cup {e}, J2, e.workflow, n)
           /\ ~Counts(r, e) => <<e.workflow, e.run>> \notin J
           /\ Counts(r, e) /\ r # None /\ r.run = e.run => r.status # "completed"
<1> DEFINE w == e.workflow
           T == S \cup {e}
           job == <<w, e.run>> \in J
<1>1. /\ r # None => r \in Run /\ r.run \in AnyRun /\ r.status \in {"open", "completed"} /\ r.failedJob \in BOOLEAN
      /\ e.run \in AnyRun /\ e.status \in {"open", "completed"} /\ e.type = "run" /\ e.type # "job"
      /\ e.conclusion \in Conclusion \cup {None} /\ (e.status = "completed" <=> e.conclusion # None)
  BY RunFields, EventFields DEF Status
<1>2. \A p \in AnyRun : /\ Seen(T, w, p) <=> Seen(S, w, p) \/ p = e.run
                        /\ \A c \in Conclusion :
                              Ended(T, w, p, c) <=> \/ Ended(S, w, p, c)
                                                    \/ p = e.run /\ e.status = "completed" /\ c = e.conclusion
                        /\ JobFailed(T, w, p) <=> JobFailed(S, w, p)
  BY RunSays
<1>3. \A p \in AnyRun : JobFailed(T, w, p) \in BOOLEAN /\ JobFailed(S, w, p) \in BOOLEAN
  BY Zenon DEF JobFailed
<1>4. \A p \in AnyRun : <<w, p>> \in J2 <=> <<w, p>> \in J /\ Newer(p, e.run)
  OBVIOUS
<1> HIDE DEF T
<1>5. ASSUME Counts(r, e), r # None, r.run = e.run PROVE r.status = "open"
  BY <1>1, <1>5 DEF Counts, Agrees
<1>6. ASSUME ~Counts(r, e)
      PROVE  /\ r # None
             /\ Newer(r.run, e.run) \/ (r.run = e.run /\ r.status = "completed" /\ e.status = "open")
  BY <1>1, <1>6 DEF Counts
<1>7. CASE ~Counts(r, e)
  <2>1. n = r /\ r # None /\ r \in Run /\ r.run \in AnyRun
    BY <1>1, <1>6, <1>7 DEF After
  <2>2. ~job
    BY <1>1, <1>6, <1>7, <2>1, NewerIsOrder DEF Waiting
  <2>3. ~Newer(e.run, r.run)
    BY <1>1, <1>6, <1>7, <2>1, NewerIsOrder
  <2>4. JobFailed(T, w, r.run) = JobFailed(S, w, r.run)
    BY <1>2, <1>3, <2>1
  <2>5. \A c \in Conclusion : Ended(T, w, r.run, c) <=> Ended(S, w, r.run, c)
    BY <1>1, <1>2, <1>6, <1>7, <2>1, NewerIsOrder
  <2>6. Agrees(T, w, n)
    BY <1>2, <2>1, <2>3, <2>4, <2>5 DEF Agrees
  <2>7. Waiting(T, J2, w, n)
    <3>1. ASSUME NEW p \in AnyRun, Newer(p, r.run) PROVE Newer(p, e.run)
      BY <1>1, <1>6, <1>7, <2>1, <3>1, NewerIsOrder
    <3> QED BY <1>2, <1>4, <2>1, <3>1 DEF Waiting
  <2> QED BY <1>7, <2>2, <2>6, <2>7 DEF T
<1>8. CASE Counts(r, e)
  <2>1. r # None => Newer(e.run, r.run) \/ (r.run = e.run /\ r.status = "open")
    BY <1>1, <1>5, <1>8, NewerIsOrder DEF Counts
  <2>2. \A p \in AnyRun : Seen(S, w, p) => ~Newer(p, e.run)
    BY <1>1, <2>1, NewerIsOrder DEF Agrees
  <2>3. \A c \in Conclusion : ~Ended(S, w, e.run, c)
    <3>1. CASE e.status = "completed"
      BY <3>1
    <3>2. CASE e.status = "open" /\ r # None /\ r.run = e.run
      BY <1>1, <2>1, <3>2, NewerIsOrder DEF Agrees
    <3>3. CASE r = None \/ (r # None /\ r.run # e.run)
      <4>1. ~Seen(S, w, e.run)
        BY <1>1, <2>1, <3>3, NewerIsOrder DEF Agrees
      <4> QED BY <4>1, Zenon DEF Seen, Ended
    <3> QED BY <1>1, <3>1, <3>2, <3>3
  <2>4. ASSUME r = None \/ r.run # e.run PROVE job = JobFailed(S, w, e.run)
    <3>1. job \in BOOLEAN
      OBVIOUS
    <3> QED BY <1>1, <1>3, <2>1, <2>4, <3>1 DEF Waiting
  <2>5. ASSUME r # None, r.run = e.run
        PROVE  ~job /\ r.failedJob = JobFailed(S, w, e.run)
               /\ r.conclusion = IF r.failedJob THEN "failure" ELSE None
    <3>1. ~job
      BY <1>1, <2>5, NewerIsOrder DEF Waiting
    <3> QED BY <1>1, <2>1, <2>5, <3>1, NewerIsOrder DEF Agrees
  <2>6. /\ n \in Run /\ n # None /\ n.run = e.run /\ n.status = e.status
        /\ e.status = "completed" => n.conclusion = e.conclusion
        /\ e.status = "open" => /\ n.failedJob = JobFailed(S, w, e.run)
                                /\ n.conclusion = IF JobFailed(S, w, e.run) THEN "failure" ELSE None
    <3> DEFINE failed == r # None /\ r.run = e.run /\ r.failedJob
    <3>1. ASSUME NEW b \in BOOLEAN
          PROVE  Recorded(r, e, b) =
                     [run |-> e.run, status |-> e.status,
                      conclusion |-> IF failed /\ e.status # "completed" THEN r.conclusion ELSE e.conclusion,
                      failedJob |-> e.conclusion # "success" /\ (b \/ failed)]
      BY <1>1 DEF Recorded
    <3>2. \A b \in BOOLEAN : Recorded(r, e, b) \in Run
      BY <1>8, RecordedFacts
    <3>3. CASE e.status = "completed"
      <4> DEFINE b == job /\ e.status = "completed" /\ e.conclusion # "success"
      <4>1. n = Recorded(r, e, b) /\ b \in BOOLEAN
        BY <1>8, <3>3 DEF After
      <4> HIDE DEF b
      <4> QED BY <3>1, <3>2, <3>3, <4>1, RunFields
    <3>4. CASE e.status = "open" /\ job
      <4>1. n = [Recorded(r, e, FALSE) EXCEPT !.failedJob = TRUE, !.conclusion = "failure"]
        BY <1>8, <3>4 DEF After
      <4>2. /\ n \in Run /\ n.run = Recorded(r, e, FALSE).run /\ n.status = Recorded(r, e, FALSE).status
            /\ n.failedJob = TRUE /\ n.conclusion = "failure"
        <5>1. Recorded(r, e, FALSE) \in Run
          BY <3>2
        <5> QED BY <4>1, <5>1, CommitAssumption DEF Run
      <4>3. n.run = e.run /\ n.status = e.status
        <5>1. Recorded(r, e, FALSE).run = e.run /\ Recorded(r, e, FALSE).status = e.status
          BY <1>1 DEF Recorded
        <5> QED BY <4>2, <5>1
      <4>4. r = None \/ r.run # e.run
        BY <2>5, <3>4
      <4>5. JobFailed(S, w, e.run) = TRUE
        BY <2>4, <3>4, <4>4
      <4> QED BY <3>4, <4>2, <4>3, <4>5, RunFields
    <3>5. CASE e.status = "open" /\ ~job
      <4>1. n = Recorded(r, e, FALSE)
        BY <1>8, <3>5 DEF After
      <4>2. e.conclusion = None /\ e.conclusion # "success"
        BY <1>1, <3>5, NoneAssumption
      <4>3. /\ n \in Run /\ n.run = e.run /\ n.status = e.status
            /\ n.conclusion = (IF failed THEN r.conclusion ELSE None)
            /\ n.failedJob = failed
        <5>1. /\ Recorded(r, e, FALSE).run = e.run /\ Recorded(r, e, FALSE).status = e.status
              /\ Recorded(r, e, FALSE).conclusion = (IF failed THEN r.conclusion ELSE None)
          BY <1>1, <3>5, <4>2 DEF Recorded
        <5>2. Recorded(r, e, FALSE).failedJob = (e.conclusion # "success" /\ (FALSE \/ failed))
          BY <1>1 DEF Recorded
        <5>3. (e.conclusion # "success" /\ (FALSE \/ failed)) = failed
          BY <1>1, <4>2
        <5>4. Recorded(r, e, FALSE) \in Run
          BY <3>2
        <5> QED BY <4>1, <5>1, <5>2, <5>3, <5>4
      <4>4. CASE r # None /\ r.run = e.run
        BY <1>1, <2>5, <3>5, <4>3, <4>4, RunFields
      <4>5. CASE r = None \/ r.run # e.run
        BY <1>1, <2>4, <3>5, <4>3, <4>5, RunFields
      <4> QED BY <4>4, <4>5
    <3> QED BY <1>1, <3>3, <3>4, <3>5
  <2>7. JobFailed(T, w, e.run) = JobFailed(S, w, e.run)
    BY <1>1, <1>2, <1>3
  <2>8. Seen(T, w, e.run) /\ \A p \in AnyRun : Seen(T, w, p) => ~Newer(p, e.run)
    BY <1>1, <1>2, <2>2, NewerIsOrder
  <2>9. \A c \in Conclusion : Ended(T, w, e.run, c) <=> e.status = "completed" /\ c = e.conclusion
    BY <1>1, <1>2, <2>3
  <2>10. Agrees(T, w, n)
    BY <1>1, <2>6, <2>7, <2>8, <2>9 DEF Agrees
  <2>11. Waiting(T, J2, w, n)
    <3>1. ASSUME NEW p \in AnyRun, Newer(p, e.run), r # None PROVE Newer(p, r.run)
      BY <1>1, <2>1, <3>1, NewerIsOrder
    <3> QED BY <1>1, <1>2, <1>4, <2>6, <3>1 DEF Waiting
  <2> QED BY <1>5, <1>8, <2>10, <2>11 DEF T
<1> QED BY <1>7, <1>8

-----------------------------------------------------------------------------
(* The actions keep the invariant.                                         *)

\* The record a commit begins with is well-formed, and nothing is due.
LEMMA FreshFacts ==
    /\ Fresh \in Commit /\ Ordered(Fresh) /\ Announced(Fresh)
    /\ \A w \in Workflow : Fresh.runs[w] = None
    /\ Fresh.failureSent = FALSE /\ Fresh.successSent = None
<1>1. /\ Fresh.runs = [w \in Workflow |-> None] /\ Fresh.order = <<>>
      /\ Fresh.failureSent = FALSE /\ Fresh.successSent = None
      /\ Fresh = [runs |-> Fresh.runs, order |-> Fresh.order,
                  failureSent |-> Fresh.failureSent, successSent |-> Fresh.successSent]
  BY DEF Fresh
<1>2. \A w \in Workflow : Fresh.runs[w] = None
  BY <1>1
<1>3. Fresh.runs \in Runs
  BY <1>1 DEF Runs
<1>4. Fresh.order \in Seq(Workflow) /\ ToSet(Fresh.order) = {}
  BY <1>1 DEF ToSet
<1>5. Fresh \in Commit
  BY <1>1, <1>3, <1>4 DEF Commit
<1>6. Ordered(Fresh)
  BY <1>2, <1>4 DEF Ordered
<1>7. Announced(Fresh)
  <2>1. ~AllPassed(Fresh)
    BY <1>2, Zenon DEF AllPassed
  <2>2. ~Fails(Fresh)
    BY <1>2 DEF Fails
  <2> QED BY <2>1, <2>2 DEF Announced
<1> QED BY <1>1, <1>2, <1>5, <1>6, <1>7

\* ingest() starts from a well-formed record.
LEMMA StartIsGood ==
    ASSUME IInv
    PROVE  /\ Good(Start) /\ Start.state = Record /\ Record \in Commit
           /\ \A w \in Workflow : Record.runs[w] \in Run \cup {None}
<1>1. Record \in Commit /\ Ordered(Record)
  BY FreshFacts DEF IInv, TypeOK, Record, Ordered
<1>2. Start = [state |-> Record, outbox |-> outbox, last |-> last]
  BY DEF Start, Record
<1>3. Start.state = Record /\ Start.last = last
  BY <1>2
<1>4. Start \in Transaction
  BY <1>1, <1>2 DEF Transaction, IInv, TypeOK
<1>5. SuccessOK(Record, last) /\ FailureOK(Record, last) /\ Announced(Record)
  BY DEF IInv
<1> HIDE DEF Start
<1>6. Good(Start)
  BY <1>1, <1>3, <1>4, <1>5 DEF Good
<1> QED BY <1>1, <1>3, <1>6, CommitFields

\* It is enough to look at what the transaction ends with.
LEMMA SaveKeeps ==
    ASSUME IInv, NEW r, Good(r), NEW e \in RunEvent \cup JobEvent \cup {Push}, Save(r, e),
           jobs' \subseteq Workflow \X AnyRun,
           \A w \in Workflow : /\ Agrees(said \cup {e}, w, r.state.runs[w])
                               /\ Waiting(said \cup {e}, jobs', w, r.state.runs[w])
    PROVE  IInv'
<1>1. /\ said' = said \cup {e} /\ commit' = r.state /\ outbox' = r.outbox /\ last' = r.last /\ inbox' = inbox
  BY DEF Save
<1>2. /\ r.state \in Commit /\ r.outbox \in Seq(Notice) /\ r.last \in Notice \cup {None}
      /\ Ordered(r.state) /\ SuccessOK(r.state, r.last) /\ FailureOK(r.state, r.last) /\ Announced(r.state)
  BY DEF Good, Transaction
<1>3. commit' # None /\ Record' = commit'
  BY <1>1, <1>2, NoneAssumption DEF Record
<1>4. TypeOK'
  BY <1>1, <1>2 DEF IInv, TypeOK, Ordered
<1>5. \A w \in Workflow : Agrees(said', w, Record'.runs[w]) /\ Waiting(said', jobs', w, Record'.runs[w])
  BY <1>1, <1>3
<1>6. SuccessOK(Record', last') /\ FailureOK(Record', last') /\ Announced(Record')
  BY <1>1, <1>2, <1>3
<1> QED BY <1>4, <1>5, <1>6 DEF IInv

\* A push event.
LEMMA IngestPushKeeps == IInv /\ IngestPush => IInv'
<1> SUFFICES ASSUME IInv, IngestPush PROVE IInv'
  OBVIOUS
<1> DEFINE r == Announce(Start)
<1>1. reduce(Start, Push, FALSE) = r
  BY EventFields DEF reduce
<1>2. Save(r, Push) /\ jobs' = jobs
  BY <1>1, Zenon DEF IngestPush
<1>3. Good(r) /\ r.state.runs = Record.runs
  <2>1. Good(Start) /\ Start.state = Record
    BY StartIsGood
  <2> QED BY <2>1, AnnounceFacts DEF Good
<1> HIDE DEF r
<1>4. ASSUME NEW w \in Workflow
      PROVE  /\ Agrees(said \cup {Push}, w, r.state.runs[w])
             /\ Waiting(said \cup {Push}, jobs', w, r.state.runs[w])
  <2> DEFINE q == r.state.runs[w]
             T == said \cup {Push}
  <2>1. Agrees(said, w, q) /\ Waiting(said, jobs, w, q) /\ (q # None => q \in Run)
    BY <1>3, StartIsGood DEF IInv
  <2>2. \A p \in AnyRun : /\ Seen(T, w, p) <=> Seen(said, w, p)
                          /\ \A c \in Conclusion : Ended(T, w, p, c) <=> Ended(said, w, p, c)
                          /\ JobFailed(T, w, p) <=> JobFailed(said, w, p)
    BY PushSays
  <2> HIDE DEF q, T
  <2>3. Agrees(T, w, q) /\ Waiting(T, jobs, w, q)
    BY <2>1, <2>2, Unaffected
  <2> QED BY <1>2, <2>3 DEF q, T
<1>5. jobs' \subseteq Workflow \X AnyRun
  BY <1>2 DEF IInv, TypeOK
<1> QED BY <1>2, <1>3, <1>4, <1>5, SaveKeeps

\* A job event.
LEMMA IngestJobKeeps ==
    ASSUME IInv, NEW e \in JobEvent, IngestJob(e)
    PROVE  IInv'
<1> DEFINE w == e.workflow
           prior == Record.runs[w]
           T == said \cup {e}
<1>1. w \in Workflow /\ e.run \in AnyRun /\ e.type = "job" /\ e.conclusion = "failure"
  BY EventFields
<1>2. /\ Good(Start) /\ Start.state = Record /\ Record \in Commit
      /\ \A v \in Workflow : Record.runs[v] \in Run \cup {None}
  BY StartIsGood
<1>3. prior \in Run \cup {None} /\ Agrees(said, w, prior) /\ Waiting(said, jobs, w, prior)
  BY <1>1, <1>2 DEF IInv
<1>4. commit # None /\ commit.runs[w] = prior
  BY DEF IngestJob, Record
<1>5. jobs \subseteq Workflow \X AnyRun
  BY DEF IInv, TypeOK
<1>6. ASSUME NEW v \in Workflow, v # w, NEW J2,
             \A p \in AnyRun : <<v, p>> \in J2 <=> <<v, p>> \in jobs
      PROVE  Agrees(T, v, Record.runs[v]) /\ Waiting(T, J2, v, Record.runs[v])
  <2> DEFINE q == Record.runs[v]
  <2>1. Agrees(said, v, q) /\ Waiting(said, jobs, v, q) /\ (q # None => q \in Run)
    BY <1>2 DEF IInv
  <2>2. \A p \in AnyRun : /\ Seen(T, v, p) <=> Seen(said, v, p)
                          /\ \A c \in Conclusion : Ended(T, v, p, c) <=> Ended(said, v, p, c)
                          /\ JobFailed(T, v, p) <=> JobFailed(said, v, p)
    BY <1>6, JobSays
  <2> HIDE DEF q, T
  <2>3. Agrees(T, v, q) /\ Waiting(T, J2, v, q)
    BY <1>6, <2>1, <2>2, Unaffected
  <2> QED BY <2>3 DEF q
<1>7. CASE prior # None /\ prior.run = e.run /\ Save(reduce(Start, e, FALSE), e) /\ jobs' = jobs
  <2> DEFINE r == reduce(Start, e, FALSE)
             n == IF prior.status = "completed" THEN prior
                  ELSE [prior EXCEPT !.failedJob = TRUE, !.conclusion = "failure"]
  <2>1. prior \in Run /\ prior.run \in AnyRun
    BY <1>3, <1>7, RunFields
  <2>2. Counts(prior, e) <=> prior.status # "completed"
    <3>1. ~Newer(prior.run, e.run)
      BY <1>7, <2>1, NewerIsOrder
    <3> QED BY <1>1, <1>7, <3>1 DEF Counts
  <2>3. /\ Good(r)
        /\ r.state.runs = IF Counts(prior, e) THEN [Record.runs EXCEPT ![w] = Recorded(prior, e, FALSE)]
                          ELSE Record.runs
    BY <1>2, <2>2, ReduceFacts
  <2>4. Recorded(prior, e, FALSE) = [prior EXCEPT !.failedJob = TRUE, !.conclusion = "failure"]
    BY <1>1 DEF Recorded
  <2>5. Record.runs \in [Workflow -> Run \cup {None}]
    BY <1>2, CommitFields
  <2>6. r.state.runs[w] = n /\ \A v \in Workflow : v # w => r.state.runs[v] = Record.runs[v]
    <3>1. CASE prior.status = "completed"
      BY <2>2, <2>3, <3>1
    <3>2. CASE prior.status # "completed"
      <4>1. r.state.runs = [Record.runs EXCEPT ![w] = n]
        BY <2>2, <2>3, <2>4, <3>2
      <4> HIDE DEF r, n
      <4> QED BY <1>1, <2>5, <4>1
    <3> QED BY <3>1, <3>2
  <2>7. Agrees(T, w, n) /\ Waiting(T, jobs, w, n)
    BY <1>3, <1>7, <2>1, JobOfStored
  <2> HIDE DEF r, n
  <2>8. \A v \in Workflow : Agrees(T, v, r.state.runs[v]) /\ Waiting(T, jobs', v, r.state.runs[v])
    BY <1>6, <1>7, <2>6, <2>7
  <2> QED BY <1>5, <1>7, <2>3, <2>8, SaveKeeps DEF r
<1>8. ASSUME prior # None => prior.run # e.run, Save(Start, e),
             jobs' = IF prior = None \/ Newer(e.run, prior.run) THEN jobs \cup {<<w, e.run>>} ELSE jobs
      PROVE  IInv'
  <2>1. Agrees(T, w, prior) /\ Waiting(T, jobs', w, prior)
    BY <1>3, <1>8, JobOfOther
  <2>2. ASSUME NEW v \in Workflow, v # w
        PROVE  Agrees(T, v, Record.runs[v]) /\ Waiting(T, jobs', v, Record.runs[v])
    <3>1. \A p \in AnyRun : <<v, p>> \in jobs' <=> <<v, p>> \in jobs
      BY <1>8, <2>2
    <3> QED BY <1>6, <2>2, <3>1
  <2>3. jobs' \subseteq Workflow \X AnyRun
    BY <1>1, <1>5, <1>8
  <2>4. \A v \in Workflow : Agrees(T, v, Start.state.runs[v]) /\ Waiting(T, jobs', v, Start.state.runs[v])
    BY <1>2, <2>1, <2>2
  <2> QED BY <1>2, <1>8, <2>3, <2>4, SaveKeeps
<1>9. CASE /\ prior # None => Newer(e.run, prior.run)
           /\ Save(Start, e) /\ jobs' = jobs \cup {<<w, e.run>>}
  <2>1. prior # None => prior.run # e.run
    BY <1>1, <1>9, NewerIsOrder
  <2> QED BY <1>8, <1>9, <2>1
<1>10. CASE prior # None /\ Newer(prior.run, e.run) /\ Save(Start, e) /\ jobs' = jobs
  <2>1. prior.run \in AnyRun
    BY <1>3, <1>10, RunFields
  <2>2. prior.run # e.run /\ ~Newer(e.run, prior.run)
    BY <1>1, <1>10, <2>1, NewerIsOrder
  <2> QED BY <1>8, <1>10, <2>2
<1> QED BY <1>4, <1>7, <1>9, <1>10 DEF IngestJob

\* A run event, and the job that waited for it.
LEMMA IngestRunKeeps ==
    ASSUME IInv, NEW e \in RunEvent, IngestRun(e)
    PROVE  IInv'
<1> DEFINE w == e.workflow
           prior == Record.runs[w]
           T == said \cup {e}
           job == <<w, e.run>> \in jobs
           b == job /\ e.status = "completed" /\ e.conclusion # "success"
           one == reduce(Start, e, b)
           late == [e EXCEPT !.type = "job", !.conclusion = "failure"]
           r == WithPendingJob(e, job)
           n == After(prior, e, jobs)
<1>1. /\ w \in Workflow /\ e.run \in AnyRun /\ e.type = "run" /\ e.status \in {"open", "completed"}
      /\ b \in BOOLEAN
  BY EventFields DEF Status
<1>2. /\ Good(Start) /\ Start.state = Record /\ Record \in Commit
      /\ \A v \in Workflow : Record.runs[v] \in Run \cup {None}
  BY StartIsGood
<1>3. /\ prior \in Run \cup {None} /\ Agrees(said, w, prior) /\ Waiting(said, jobs, w, prior)
      /\ Record.runs \in [Workflow -> Run \cup {None}]
  BY <1>1, <1>2, CommitFields DEF IInv
<1>4. jobs' = {j \in jobs : j[1] # w \/ Newer(j[2], e.run)} /\ Save(r, e)
  BY DEF IngestRun
<1>5. e.status = "completed" => \A c \in Conclusion : ~Ended(said, w, e.run, c)
  BY DEF IngestRun, Ended
<1>6. /\ Agrees(T, w, n) /\ Waiting(T, jobs', w, n)
      /\ ~Counts(prior, e) => ~job
      /\ Counts(prior, e) /\ prior # None /\ prior.run = e.run => prior.status # "completed"
  <2>1. n = After(prior, e, jobs) /\ jobs' = {j \in jobs : j[1] # e.workflow \/ Newer(j[2], e.run)}
    BY <1>4
  <2>2. e.status = "completed" => \A c \in Conclusion : ~Ended(said, e.workflow, e.run, c)
    BY <1>5
  <2>3. prior \in Run \cup {None} /\ Agrees(said, e.workflow, prior) /\ Waiting(said, jobs, e.workflow, prior)
    BY <1>3
  <2> HIDE DEF n, prior
  <2>4. /\ Agrees(said \cup {e}, e.workflow, n) /\ Waiting(said \cup {e}, jobs', e.workflow, n)
        /\ ~Counts(prior, e) => <<e.workflow, e.run>> \notin jobs
        /\ Counts(prior, e) /\ prior # None /\ prior.run = e.run => prior.status # "completed"
    BY <2>1, <2>2, <2>3, RunArrives, Zenon
  <2> QED BY <2>4
<1>7. /\ Good(one)
      /\ one.state.runs = IF Counts(prior, e) THEN [Record.runs EXCEPT ![w] = Recorded(prior, e, b)] ELSE Record.runs
  BY <1>1, <1>2, <1>6, ReduceFacts
<1>8. Good(r) /\ r.state.runs[w] = n /\ \A v \in Workflow : v # w => r.state.runs[v] = Record.runs[v]
  <2>1. CASE ~(job /\ e.status # "completed")
    <3>1. r = one
      BY <2>1 DEF WithPendingJob
    <3>2. n = IF Counts(prior, e) THEN Recorded(prior, e, b) ELSE prior
      BY <2>1 DEF After
    <3> HIDE DEF r, one, n, b
    <3> QED BY <1>1, <1>3, <1>7, <3>1, <3>2
  <2>2. CASE job /\ e.status # "completed"
    <3>1. r = reduce(one, late, FALSE) /\ Counts(prior, e) /\ b = FALSE
      BY <1>6, <2>2 DEF WithPendingJob
    <3>2. late \in JobEvent /\ late.workflow = w /\ late.run = e.run /\ late.type = "job" /\ late.conclusion = "failure"
      BY <1>1, <2>2 DEF RunEvent, JobEvent
    <3> DEFINE mid == Recorded(prior, e, b)
    <3>3. mid \in Run /\ mid.run = e.run /\ mid.status = e.status
      <4>1. mid \in Run /\ mid.run = e.run
        BY <1>1, <1>3, <3>1, RecordedFacts
      <4>2. mid.status = e.status
        BY <1>1 DEF Recorded
      <4> QED BY <4>1, <4>2
    <3>4. n = [mid EXCEPT !.failedJob = TRUE, !.conclusion = "failure"]
      BY <2>2, <3>1 DEF After
    <3> HIDE DEF b, mid, one, late
    <3>5. one.state.runs = [Record.runs EXCEPT ![w] = mid]
      BY <1>7, <3>1 DEF mid
    <3>6. one.state.runs[w] = mid
      BY <1>1, <1>3, <3>5
    <3>7. Counts(mid, late) /\ mid # None /\ mid.status # "completed"
      <4>1. ~Newer(mid.run, late.run)
        BY <1>1, <3>2, <3>3, NewerIsOrder
      <4> QED BY <2>2, <3>2, <3>3, <4>1, RunFields DEF Counts
    <3>8. Recorded(mid, late, FALSE) = n
      BY <3>2, <3>4 DEF Recorded
    <3>9. Good(r) /\ r.state.runs = [one.state.runs EXCEPT ![w] = n]
      <4> DEFINE two == reduce(one, late, FALSE)
      <4>1. one.state.runs[late.workflow] = mid
        BY <3>2, <3>6
      <4>2. /\ Good(two)
            /\ two.state.runs = IF Counts(one.state.runs[late.workflow], late)
                                THEN [one.state.runs EXCEPT ![late.workflow] =
                                          Recorded(one.state.runs[late.workflow], late, FALSE)]
                                ELSE one.state.runs
        BY <1>7, <3>2, <3>7, <4>1, ReduceFacts
      <4> HIDE DEF two, n
      <4> QED BY <3>1, <3>2, <3>7, <3>8, <4>1, <4>2 DEF two
    <3> HIDE DEF r, n
    <3> QED BY <1>1, <1>3, <3>5, <3>9
  <2> QED BY <2>1, <2>2
<1> HIDE DEF r, n
<1>9. ASSUME NEW v \in Workflow
      PROVE  Agrees(T, v, r.state.runs[v]) /\ Waiting(T, jobs', v, r.state.runs[v])
  <2>1. CASE v = w
    BY <1>6, <1>8, <2>1
  <2>2. CASE v # w
    <3> DEFINE q == Record.runs[v]
    <3>1. Agrees(said, v, q) /\ Waiting(said, jobs, v, q) /\ (q # None => q \in Run)
      BY <1>2 DEF IInv
    <3>2. \A p \in AnyRun : /\ Seen(T, v, p) <=> Seen(said, v, p)
                            /\ \A c \in Conclusion : Ended(T, v, p, c) <=> Ended(said, v, p, c)
                            /\ JobFailed(T, v, p) <=> JobFailed(said, v, p)
      BY <2>2, RunSays
    <3>3. \A p \in AnyRun : <<v, p>> \in jobs' <=> <<v, p>> \in jobs
      BY <1>4, <2>2
    <3> HIDE DEF q, T
    <3>4. Agrees(T, v, q) /\ Waiting(T, jobs', v, q)
      BY <3>1, <3>2, <3>3, Unaffected
    <3> QED BY <1>8, <2>2, <3>4 DEF q
  <2> QED BY <2>1, <2>2
<1>10. jobs' \subseteq Workflow \X AnyRun
  BY <1>4 DEF IInv, TypeOK
<1> QED BY <1>4, <1>8, <1>9, <1>10, SaveKeeps

\* The bridge takes a notice: nothing that is said of the commit changes.
LEMMA TakeKeeps == IInv /\ Take => IInv'
<1> SUFFICES ASSUME IInv, Take PROVE IInv'
  OBVIOUS
<1>1. /\ outbox # <<>> /\ inbox' = inbox \cup {Head(outbox)} /\ outbox' = Tail(outbox)
      /\ said' = said /\ commit' = commit /\ jobs' = jobs /\ last' = last
  BY DEF Take
<1>2. Head(outbox) \in Notice /\ Tail(outbox) \in Seq(Notice)
  BY <1>1, HeadTailProperties DEF IInv, TypeOK
<1>3. TypeOK'
  BY <1>1, <1>2 DEF IInv, TypeOK
<1>4. Record' = Record
  BY <1>1 DEF Record
<1> QED BY <1>1, <1>3, <1>4 DEF IInv

\* Nothing has happened yet.
LEMMA CommitInit == Init => IInv
<1> SUFFICES ASSUME Init PROVE IInv
  OBVIOUS
<1>1. said = {} /\ commit = None /\ jobs = {} /\ outbox = <<>> /\ inbox = {} /\ last = None
  BY DEF Init
<1>2. TypeOK
  BY <1>1 DEF TypeOK
<1>3. Record = Fresh
  BY <1>1 DEF Record
<1>4. \A w \in Workflow : Agrees(said, w, None) /\ Waiting(said, jobs, w, None)
  <2>1. \A w, p : ~Seen({}, w, p) /\ ~JobFailed({}, w, p)
    BY Zenon DEF Seen, JobFailed
  <2> QED BY <1>1, <2>1 DEF Agrees, Waiting
<1>5. SuccessOK(Fresh, last) /\ FailureOK(Fresh, last) /\ Announced(Fresh)
  BY FreshFacts DEF SuccessOK, FailureOK
<1> QED BY <1>2, <1>3, <1>4, <1>5, FreshFacts DEF IInv

\* The invariant of ingest() and reduce(): what is stored of a workflow follows
\* from the events that have arrived, and what has been announced from what is
\* stored.
THEOREM CommitInvariance == Spec => []IInv
<1>1. Init => IInv
  BY CommitInit
<1>2. IInv /\ [Next]_vars => IInv'
  <2> SUFFICES ASSUME IInv, [Next]_vars PROVE IInv'
    OBVIOUS
  <2>1. CASE IngestPush
    BY <2>1, IngestPushKeeps
  <2>2. CASE \E e \in JobEvent : IngestJob(e)
    BY <2>2, IngestJobKeeps
  <2>3. CASE \E e \in RunEvent : IngestRun(e)
    BY <2>3, IngestRunKeeps
  <2>4. CASE Take
    BY <2>4, TakeKeeps
  <2>5. CASE UNCHANGED vars
    <3>1. /\ said' = said /\ commit' = commit /\ jobs' = jobs
          /\ outbox' = outbox /\ inbox' = inbox /\ last' = last
      BY <2>5 DEF vars
    <3>2. TypeOK'
      BY <3>1 DEF IInv, TypeOK
    <3>3. Record' = Record
      BY <3>1 DEF Record
    <3> QED BY <3>1, <3>2, <3>3 DEF IInv
  <2> QED BY <2>1, <2>2, <2>3, <2>4, <2>5 DEF Next
<1> QED BY <1>1, <1>2, PTL DEF Spec

\* Whatever order the deliveries come in, the record of a commit is well-formed:
\* only runs of the push are stored or announced, a success names a run of every
\* expected workflow, and the insertion order is that of the stored runs.
THEOREM CommitTypeCorrect == Spec => []TypeOK
<1>1. IInv => TypeOK
  BY DEF IInv
<1> QED BY <1>1, CommitInvariance, PTL

-----------------------------------------------------------------------------
(* The properties.                                                         *)

\* What ingest() has stored of a workflow is a function of the set of events it
\* has taken: late, repeated and reordered deliveries make no difference.
THEOREM ArrivalOrderIsIrrelevant == Spec => []OrderIndependent
<1>1. IInv => OrderIndependent
  <2> SUFFICES ASSUME IInv, commit # None, NEW w \in Workflow
               PROVE  IF Told(w) = {} THEN commit.runs[w] = None
                      ELSE LET p == Newest(w)
                               ends == {e.conclusion : e \in {f \in Told(w) : f.run = p /\ f.status = "completed"}}
                               failed == \E e \in said : e.type = "job" /\ e.workflow = w /\ e.run = p
                           IN  /\ commit.runs[w].run = p
                               /\ commit.runs[w].status = "completed" <=> ends # {}
                               /\ {commit.runs[w].conclusion} =
                                      IF ends # {} THEN ends ELSE {IF failed THEN "failure" ELSE None}
    BY DEF OrderIndependent
  <2> DEFINE r == commit.runs[w]
  <2>1. Record = commit /\ (r # None => r \in Run) /\ Agrees(said, w, r)
    <3>1. Record = commit
      BY DEF Record
    <3> QED BY <3>1, StartIsGood DEF IInv
  <2>2. ASSUME NEW e \in Told(w)
        PROVE  /\ e \in said /\ e \in RunEvent /\ e.run \in AnyRun /\ Seen(said, w, e.run)
               /\ e.type = "run" /\ e.workflow = w
    <3>1. e \in said /\ e.type = "run" /\ e.workflow = w
      BY <2>2 DEF Told
    <3>2. e \in RunEvent \cup JobEvent \cup {Push}
      BY <3>1 DEF IInv, TypeOK
    <3>3. e \in RunEvent
      BY <3>1, <3>2, EventFields
    <3>4. Seen(said, w, e.run)
      BY <3>1, Zenon DEF Seen
    <3> QED BY <3>1, <3>3, <3>4, EventFields
  <2>3. CASE r = None
    <3>1. Told(w) = {}
      BY <2>1, <2>2, <2>3 DEF Agrees
    <3> QED BY <2>3, <3>1
  <2>4. CASE r # None
    <3> DEFINE ends == {e.conclusion : e \in {f \in Told(w) : f.run = r.run /\ f.status = "completed"}}
    <3>1. r \in Run /\ r.run \in AnyRun /\ r.status \in {"open", "completed"} /\ r.conclusion \in Conclusion \cup {None}
      BY <2>1, <2>4, RunFields
    <3>2. \E e \in Told(w) : e.run = r.run
      BY <2>1, <2>4 DEF Agrees, Seen, Told
    <3>3. \A e \in Told(w) : e.run \in AnyRun /\ ~Newer(e.run, r.run)
      BY <2>1, <2>2, <2>4 DEF Agrees
    <3>4. Newest(w) = r.run
      <4> DEFINE R == {e.run : e \in Told(w)}
                 Top(p) == \A e \in Told(w) : ~Newer(e.run, p)
      <4>1. r.run \in R /\ Top(r.run)
        BY <3>2, <3>3
      <4>2. ASSUME NEW p \in R, Top(p) PROVE p = r.run
        <5>1. PICK e \in Told(w) : e.run = p
          BY <4>2
        <5>2. p \in AnyRun /\ ~Newer(p, r.run)
          BY <3>3, <5>1
        <5>3. ~Newer(r.run, p)
          BY <3>2, <4>2
        <5> QED BY <3>1, <5>2, <5>3, NewerIsOrder
      <4>3. Newest(w) = CHOOSE p \in R : Top(p)
        BY Zenon DEF Newest
      <4> HIDE DEF R, Top
      <4>4. Newest(w) \in R /\ Top(Newest(w))
        BY <4>1, <4>3
      <4> QED BY <4>2, <4>4
    <3>5. \A c : c \in ends <=> c \in Conclusion /\ Ended(said, w, r.run, c)
      <4>1. ASSUME NEW e \in Told(w), e.run = r.run, e.status = "completed"
            PROVE  e.conclusion \in Conclusion /\ Ended(said, w, r.run, e.conclusion)
        <5>1. e.conclusion \in Conclusion
          BY <2>2, <4>1, EventFields
        <5> QED BY <2>2, <4>1, <5>1, Zenon DEF Ended
      <4>2. ASSUME NEW c \in Conclusion, Ended(said, w, r.run, c)
            PROVE  c \in ends
        <5>1. PICK e \in said : /\ e.type = "run" /\ e.workflow = w /\ e.run = r.run
                                /\ e.status = "completed" /\ e.conclusion = c
          BY <4>2, Zenon DEF Ended
        <5> QED BY <5>1, Zenon DEF Told
      <4> QED BY <4>1, <4>2, Zenon
    <3> HIDE DEF ends
    <3>6. CASE r.status = "completed"
      <4>1. ends = {r.conclusion}
        BY <2>1, <2>4, <3>5, <3>6 DEF Agrees
      <4> QED BY <3>2, <3>4, <3>6, <4>1 DEF ends
    <3>7. CASE r.status = "open"
      <4>1. ends = {}
        BY <2>1, <2>4, <3>5, <3>7 DEF Agrees
      <4>2. r.conclusion = IF \E e \in said : e.type = "job" /\ e.workflow = w /\ e.run = r.run
                           THEN "failure" ELSE None
        BY <2>1, <2>4, <3>7 DEF Agrees, JobFailed
      <4> QED BY <3>2, <3>4, <3>7, <4>1, <4>2 DEF ends
    <3> QED BY <3>1, <3>6, <3>7
  <2> QED BY <2>3, <2>4
<1> QED BY <1>1, CommitInvariance, PTL

\* The notice that reduce() issued last is never out of date, however often the
\* workflows of the commit fail, are run again and pass.
THEOREM LastWordStands == Spec => []LastWordIsRight
<1>1. IInv => LastWordIsRight
  <2> SUFFICES ASSUME IInv, commit # None
               PROVE  /\ Failing(commit) # 0 =>
                             /\ last # None /\ last.id[1] = "failure"
                             /\ \A w \in Workflow : last.runs[w] # None => last.runs[w].run = commit.runs[w].run
                      /\ AllPassed(commit) => last # None /\ last.id = <<"success", Fingerprint(commit)>>
    BY DEF LastWordIsRight
  <2>1. /\ Record = commit /\ commit \in Commit /\ Ordered(commit)
        /\ SuccessOK(commit, last) /\ FailureOK(commit, last) /\ Announced(commit)
    <3>1. Record = commit
      BY DEF Record
    <3> QED BY <3>1 DEF IInv, TypeOK, Ordered
  <2>2. ASSUME Failing(commit) # 0
        PROVE  /\ last # None /\ last.id[1] = "failure"
               /\ \A w \in Workflow : last.runs[w] # None => last.runs[w].run = commit.runs[w].run
    <3>1. Fails(commit)
      BY <2>1, <2>2, FailingFacts
    <3>2. commit.failureSent /\ ~AllPassed(commit)
      BY <2>1, <3>1 DEF Announced, Fails, AllPassed
    <3> QED BY <2>1, <3>2 DEF FailureOK
  <2>3. ASSUME AllPassed(commit)
        PROVE  last # None /\ last.id = <<"success", Fingerprint(commit)>>
    <3>1. Fingerprint(commit) # None
      BY <2>1, <2>3, FingerprintFacts, NoneAssumption
    <3>2. commit.successSent = Fingerprint(commit)
      BY <2>1, <2>3 DEF Announced
    <3> QED BY <2>1, <3>1, <3>2 DEF SuccessOK
  <2> QED BY <2>2, <2>3
<1> QED BY <1>1, CommitInvariance, PTL
=============================================================================
