------------------------------ MODULE CiCommit ------------------------------
(***************************************************************************)
(* The CI receiver of tools/ci-webhook/src: what the Durable Object makes  *)
(* of the GitHub events about one commit of one branch.                    *)
(*                                                                         *)
(* GitHub delivers push, workflow_run and workflow_job events late, twice, *)
(* in any order or not at all.  ingest() folds them with reduce() into the *)
(* newest run of every expected workflow and puts a notice into the outbox *)
(* when the commit begins to fail or has passed.  The bridge takes notices *)
(* from the head of the outbox; CiDelivery models how they travel.         *)
(*                                                                         *)
(* The events span less than the 30 days after which ingest() forgets.     *)
(***************************************************************************)
EXTENDS Naturals, Sequences, SequencesExt

CONSTANTS
    Workflow,   \* the workflows expected for the branch
    Attempt,    \* Attempt[w]: push runs of w, as <<run id, attempt>>
    Foreign,    \* Foreign[w]: runs of pull requests for the same commit
    Conclusion, \* "success", "failure" (any member of bad) and "neutral" (any other)
    None

ASSUME CommitAssumption ==
    /\ Attempt \in [Workflow -> SUBSET (Nat \X Nat)]
    /\ Foreign \in [Workflow -> SUBSET (Nat \X Nat)]
    /\ \A w \in Workflow : \A p \in Attempt[w], q \in Foreign[w] : p[1] # q[1]
    /\ "failure" \in Conclusion /\ Conclusion \subseteq {"success", "failure", "neutral"}

PushRun == UNION {Attempt[w] : w \in Workflow}
AnyRun == PushRun \cup UNION {Foreign[w] : w \in Workflow}

Status == {"open", "completed"}    \* "open": queued, in_progress, ...
Run == [run : PushRun, status : Status,
        conclusion : Conclusion \cup {None}, failedJob : BOOLEAN]

\* What normalize() lets pass.  A run that is not completed has no conclusion,
\* and only failed jobs are looked at.
RunEvent == {e \in [type : {"run"}, workflow : Workflow, run : AnyRun,
                    status : Status, conclusion : Conclusion \cup {None}] :
                 /\ e.run \in Attempt[e.workflow]
                 /\ e.status = "completed" <=> e.conclusion # None}
JobEvent == {e \in [type : {"job"}, workflow : Workflow, run : AnyRun,
                    status : {"open"}, conclusion : {"failure"}] :
                 e.run \in Attempt[e.workflow] \cup Foreign[e.workflow]}
Push == [type |-> "push"]

VARIABLES
    said,    \* deliveries: what GitHub has delivered and ingest() has taken
    commit,  \* commits_by_branch: None, or the state of the commit
    jobs,    \* pending_jobs: <<workflow, run>>
    outbox,  \* the outbox
    inbox,   \* notices the bridge has acknowledged
    last     \* the notice issued last

vars == <<said, commit, jobs, outbox, inbox, last>>

\* order is the order of insertion of the members of runs.
Fresh == [runs |-> [w \in Workflow |-> None], order |-> <<>>, failureSent |-> FALSE, successSent |-> None]

Runs == [Workflow -> Run \cup {None}]
Passed == [Workflow -> PushRun]
Commit == [runs : Runs, order : Seq(Workflow), failureSent : BOOLEAN, successSent : Passed \cup {None}]
Notice == [id : {"failure"} \X Workflow \X PushRun, runs : Runs]
          \cup [id : {"success"} \X Passed, runs : Runs]

\* None stands for undefined and for a row that is not there.
ASSUME NoneAssumption ==
    /\ None \notin {"success", "failure", "neutral"}
    /\ None \notin Run /\ None \notin Passed /\ None \notin Commit /\ None \notin Notice

\* The type invariant: only runs of the push are stored or announced, and a
\* success names a run of every expected workflow.
TypeOK ==
    /\ said \subseteq RunEvent \cup JobEvent \cup {Push}
    /\ commit \in Commit \cup {None}
    /\ commit # None => ToSet(commit.order) = {w \in Workflow : commit.runs[w] # None}
    /\ jobs \subseteq Workflow \X AnyRun
    /\ outbox \in Seq(Notice) /\ inbox \subseteq Notice
    /\ last \in Notice \cup {None}

Init ==
    /\ said = {}
    /\ commit = None
    /\ jobs = {}
    /\ outbox = <<>>
    /\ inbox = {}
    /\ last = None

Newer(p, q) == p[1] > q[1] \/ (p[1] = q[1] /\ p[2] > q[2])

-----------------------------------------------------------------------------
(* reduce()                                                                *)

\* The early returns: an older run, a job of a run that is not confirmed, and
\* whatever is late for a run that is completed.
Counts(prior, e) ==
    /\ prior # None => ~Newer(prior.run, e.run)
    /\ e.type = "job" => prior # None /\ prior.run = e.run
    /\ prior # None /\ prior.run = e.run /\ prior.status = "completed"
           => e.type = "run" /\ e.status = "completed"

\* Variant: progress after a failed job forgets the failure.
RecordedAsTold(prior, e, job) == [run |-> e.run, status |-> e.status, conclusion |-> e.conclusion, failedJob |-> job]

\* The run that is stored for an event that counts; job: the event carries the
\* name of a buffered job.
Recorded(prior, e, job) ==
    IF e.type = "job"
    THEN [prior EXCEPT !.failedJob = TRUE, !.conclusion = e.conclusion]
    ELSE LET failed == prior # None /\ prior.run = e.run /\ prior.failedJob
         IN  [run |-> e.run,
              status |-> e.status,
              conclusion |-> IF failed /\ e.status # "completed" THEN prior.conclusion ELSE e.conclusion,
              failedJob |-> e.conclusion # "success" /\ (job \/ failed)]

\* Variant: one failure is announced for the whole life of the commit.
FailureSentOnce(s, w, e) == s.failureSent

\* A rerun makes room for another failure notice.
FailureSentBefore(s, w, e) == s.failureSent /\ (s.runs[w] = None \/ s.runs[w].run = e.run)

Stored(s, e, job) ==
    LET w == e.workflow
    IN  [s EXCEPT !.runs[w] = Recorded(s.runs[w], e, job),
                  !.order = IF s.runs[w] = None THEN Append(@, w) ELSE @,
                  !.failureSent = FailureSentBefore(s, w, e)]

\* The place in order of the first run that has failed, 0 if none has.
Failing(s) == SelectInSeq(s.order, LAMBDA w : s.runs[w].conclusion = "failure")

\* Variant: a workflow that has not been heard of is not missed.
AllKnownPassed(s) == \A w \in Workflow : s.runs[w] # None => s.runs[w].conclusion = "success"

AllPassed(s) == /\ Workflow # {}
                /\ \A w \in Workflow : /\ s.runs[w] # None
                                       /\ s.runs[w].status = "completed"
                                       /\ s.runs[w].conclusion = "success"
Fingerprint(s) == [w \in ToSet(s.order) |-> s.runs[w].run]

\* The outbox ignores an id it already holds.
Enqueue(box, n) == IF \E i \in DOMAIN box : box[i].id = n.id THEN box ELSE Append(box, n)

\* The second half of reduce(), and what ingest() does with a notice.  r: what
\* the transaction of ingest() has come to.
Announce(r) ==
    LET s == r.state
        w == s.order[Failing(s)]
        Issue(t, id) == LET n == [id |-> id, runs |-> s.runs]
                        IN  [state |-> t, outbox |-> Enqueue(r.outbox, n), last |-> n]
    IN  IF Failing(s) # 0 /\ ~s.failureSent
        THEN Issue([s EXCEPT !.failureSent = TRUE], <<"failure", w, s.runs[w].run>>)
        ELSE IF AllPassed(s) /\ s.successSent # Fingerprint(s)
        THEN Issue([s EXCEPT !.successSent = Fingerprint(s)], <<"success", Fingerprint(s)>>)
        ELSE r

reduce(r, e, job) ==
    IF e.type = "push" THEN Announce(r)
    ELSE IF Counts(r.state.runs[e.workflow], e)
    THEN Announce([r EXCEPT !.state = Stored(r.state, e, job)])
    ELSE r

-----------------------------------------------------------------------------
(* ingest()                                                                *)

Start == [state |-> IF commit = None THEN Fresh ELSE commit, outbox |-> outbox, last |-> last]

\* The end of the transaction.
Save(r, e) ==
    /\ said' = said \cup {e}
    /\ commit' = r.state
    /\ outbox' = r.outbox
    /\ last' = r.last
    /\ UNCHANGED inbox

IngestPush ==
    /\ Push \notin said
    /\ Save(reduce(Start, Push, FALSE), Push)
    /\ UNCHANGED jobs

\* A job does not start the record of a commit (and its delivery is not
\* remembered: GitHub may be asked to repeat it).  A job that arrives before its
\* run is kept until the run is known to belong to the push.
IngestJob(e) ==
    /\ e \notin said
    /\ commit # None
    /\ LET prior == commit.runs[e.workflow]
       IN  \/ /\ prior # None /\ prior.run = e.run
              /\ Save(reduce(Start, e, FALSE), e)
              /\ UNCHANGED jobs
           \/ /\ prior # None => Newer(e.run, prior.run)
              /\ Save(Start, e)
              /\ jobs' = jobs \cup {<<e.workflow, e.run>>}
           \/ /\ prior # None /\ Newer(prior.run, e.run)
              /\ Save(Start, e)
              /\ UNCHANGED jobs

\* The run, and then the job that was waiting for it unless the run is over.
WithPendingJob(e, job) ==
    LET r == reduce(Start, e, job /\ e.status = "completed" /\ e.conclusion # "success")
    IN  IF job /\ e.status # "completed"
        THEN reduce(r, [e EXCEPT !.type = "job", !.conclusion = "failure"], FALSE)
        ELSE r

\* GitHub reports the progress of a run several times, and one conclusion.
IngestRun(e) ==
    /\ e.status = "completed" =>
           \A other \in said : other.type = "run" /\ other.workflow = e.workflow /\ other.run = e.run
                                   => other.status # "completed"
    /\ Save(WithPendingJob(e, <<e.workflow, e.run>> \in jobs), e)
    /\ jobs' = {j \in jobs : j[1] # e.workflow \/ Newer(j[2], e.run)}

\* The bridge takes the head of the outbox: Journal.intake() records it, or finds
\* it recorded with the same content, and it is acknowledged.  Other content
\* under the same id is an error: the connection is closed, and opened again.
Conflicts(n) == \E m \in inbox : m.id = n.id /\ m # n

Take ==
    /\ outbox # <<>>
    /\ ~Conflicts(Head(outbox))
    /\ inbox' = inbox \cup {Head(outbox)}
    /\ outbox' = Tail(outbox)
    /\ UNCHANGED <<said, commit, jobs, last>>

Next ==
    \/ IngestPush
    \/ \E e \in JobEvent : IngestJob(e)
    \/ \E e \in RunEvent : IngestRun(e)
    \/ Take

Spec == Init /\ [][Next]_vars

-----------------------------------------------------------------------------
(* Properties.                                                             *)

Told(w) == {e \in said : e.type = "run" /\ e.workflow = w}
Newest(w) == CHOOSE p \in {e.run : e \in Told(w)} : \A e \in Told(w) : ~Newer(e.run, p)

\* The result of a workflow depends on which events have arrived and not on the
\* order: it is that of the newest push run anything is known of; a completed
\* run has its own conclusion, an open one fails if one of its jobs has failed.
\* So no older attempt, late progress or pull request job replaces a result.
OrderIndependent ==
    commit # None => \A w \in Workflow :
        IF Told(w) = {} THEN commit.runs[w] = None
        ELSE LET p == Newest(w)
                 ends == {e.conclusion : e \in {f \in Told(w) : f.run = p /\ f.status = "completed"}}
                 failed == \E e \in said : e.type = "job" /\ e.workflow = w /\ e.run = p
             IN  /\ commit.runs[w].run = p
                 /\ commit.runs[w].status = "completed" <=> ends # {}
                 /\ {commit.runs[w].conclusion} =
                        IF ends # {} THEN ends ELSE {IF failed THEN "failure" ELSE None}

\* The notice issued last is never out of date: while a workflow fails it is a
\* failure that was issued for the attempts as they are, and when all have passed
\* it is the success of exactly these attempts.  (A failure is announced again
\* after every rerun; the commit may fail, pass and fail as often as it likes.)
LastWordIsRight ==
    commit # None =>
        /\ Failing(commit) # 0 =>
               /\ last # None /\ last.id[1] = "failure"
               /\ \A w \in Workflow : last.runs[w] # None => last.runs[w].run = commit.runs[w].run
        /\ AllPassed(commit) => last # None /\ last.id = <<"success", Fingerprint(commit)>>

\* "Conflicting payload for CI event" (bridge/journal.mjs:137): the bridge is
\* never offered an event it has accepted before with other content.
IdentityFixesPayload == outbox # <<>> => ~Conflicts(Head(outbox))
=============================================================================
