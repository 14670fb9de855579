------------------------------ MODULE LiveFeed ------------------------------
(***************************************************************************)
(* How the oracle decides that a match has finished:                       *)
(* packages/oracle/src/jobs/live-poller.job.ts and live-tracking.ts.       *)
(*                                                                         *)
(* Every two minutes a run scrapes the rows in play, compares them with    *)
(* the matches tracked in Redis, publishes as finished those that have     *)
(* gone, saves the new tracking state, caches the rows and publishes them. *)
(* A scrape may leave out any match (the request for its sport failed) or  *)
(* list one that has not kicked off.  A failed scrape changes nothing and  *)
(* is no step.  Runs overlap when one takes over a lock older than six     *)
(* minutes; each clears the lock when it ends.                             *)
(*                                                                         *)
(* A score is the number of goals.                                         *)
(***************************************************************************)
EXTENDS Integers, FiniteSets

CONSTANTS
    Matches,
    MaxGoals,                       \* bound on the goals of a match
    Runs,                           \* runs that may be under way at once
    MISSING_TICKS_THRESHOLD,
    MAX_MISSING_TICKS_BEFORE_DROP,
    MaxFaults                       \* bound on the kinds of fault in one behaviour

ASSUME FeedAssumption ==
    /\ IsFiniteSet(Matches) /\ IsFiniteSet(Runs)
    /\ MaxGoals \in Nat /\ MaxFaults \in Nat
    /\ MISSING_TICKS_THRESHOLD \in Nat \ {0}
    /\ MAX_MISSING_TICKS_BEFORE_DROP \in Nat
    /\ MAX_MISSING_TICKS_BEFORE_DROP > MISSING_TICKS_THRESHOLD

VARIABLES
    match,      \* per match: phase, score, and whether MIN_MATCH_AGE_MINUTES are past
    tracking,   \* oracle:live:tracking: per tracked match its score, missed ticks, confirmed
    running,    \* the re-entrancy lock
    runs,       \* per run: where it is and what it holds
    history,    \* per match: what the successful scrapes have shown
    announced,  \* matches published as finished since they were last listed in play
    faults      \* the kinds of fault so far

feedVars == <<match, tracking, running, runs, history, announced, faults>>

Empty == [m \in {} |-> 0]
NoRun == [pc |-> "Idle", rows |-> Empty, next |-> Empty, inferred |-> Empty]

FeedInit ==
    /\ match = [m \in Matches |-> [phase |-> "Before", score |-> 0, aged |-> FALSE]]
    /\ tracking = Empty
    /\ running = FALSE
    /\ runs = [r \in Runs |-> NoRun]
    /\ history = [m \in Matches |-> [seen |-> 0, missed |-> 0, gone |-> 0, score |-> 0,
                                     inferred |-> 0]]
    /\ announced = {}
    /\ faults = {}

mayFail(kind) ==
    /\ kind \notin faults /\ Cardinality(faults) < MaxFaults
    /\ faults' = faults \cup {kind}

-----------------------------------------------------------------------------
(* reconcileLiveTracking *)

inPlay(rows) == {m \in DOMAIN rows : ~rows[m].finished}

(* Variant of eligible: a single sighting is enough. *)
eligibleUnconfirmed(entry, m) == match[m].aged

eligible(entry, m) == entry.confirmed /\ match[m].aged

(* Variant of missingTicks: the absence is not counted. *)
missingTicksStuck(entry) == entry.missing

missingTicks(entry) == entry.missing + 1

inferredFinished(previous, rows) ==
    {m \in DOMAIN previous \ DOMAIN rows :
        /\ missingTicks(previous[m]) >= MISSING_TICKS_THRESHOLD
        /\ eligible(previous[m], m)}

keptMissing(previous, rows) ==
    {m \in DOMAIN previous \ DOMAIN rows :
        missingTicks(previous[m]) < MAX_MISSING_TICKS_BEFORE_DROP} \ inferredFinished(previous, rows)

(* Variant of nextState: the ticks missed are not reset by a sighting. *)
nextStateKeepsTicks(previous, rows) ==
    [m \in inPlay(rows) \cup keptMissing(previous, rows) |->
        IF m \in DOMAIN rows
        THEN [score |-> rows[m].score,
              missing |-> IF m \in DOMAIN previous THEN previous[m].missing ELSE 0,
              confirmed |-> m \in DOMAIN previous]
        ELSE [previous[m] EXCEPT !.missing = missingTicks(previous[m])]]

(* Variant of nextState: an inferred match is carried forward. *)
nextStateKeepsInferred(previous, rows) ==
    [m \in inPlay(rows) \cup {n \in DOMAIN previous \ DOMAIN rows :
                missingTicks(previous[n]) < MAX_MISSING_TICKS_BEFORE_DROP} |->
        IF m \in DOMAIN rows
        THEN [score |-> rows[m].score, missing |-> 0, confirmed |-> m \in DOMAIN previous]
        ELSE [previous[m] EXCEPT !.missing = missingTicks(previous[m])]]

nextState(previous, rows) ==
    [m \in inPlay(rows) \cup keptMissing(previous, rows) |->
        IF m \in DOMAIN rows
        THEN [score |-> rows[m].score, missing |-> 0, confirmed |-> m \in DOMAIN previous]
        ELSE [previous[m] EXCEPT !.missing = missingTicks(previous[m])]]

-----------------------------------------------------------------------------
(* The matches *)

matchBecomes(m, entry) ==
    /\ match' = [match EXCEPT ![m] = entry]
    /\ UNCHANGED <<tracking, running, runs, history, announced, faults>>

play(m) ==
    \/ match[m].phase = "Before" /\ matchBecomes(m, [match[m] EXCEPT !.phase = "Live"])
    \/ match[m].phase = "Live" /\ match[m].score < MaxGoals
       /\ matchBecomes(m, [match[m] EXCEPT !.score = @ + 1])
    \/ ~match[m].aged /\ matchBecomes(m, [match[m] EXCEPT !.aged = TRUE])
    \/ match[m].phase = "Live" /\ match[m].aged
       /\ matchBecomes(m, [match[m] EXCEPT !.phase = "Over"])

-----------------------------------------------------------------------------
(* A run of the job *)

(* Counting goes as far as the properties look. *)
upTo(bound, n) == IF n < bound THEN n + 1 ELSE n

observed(rows) ==
    [m \in Matches |->
        IF m \in inPlay(rows)
        THEN [history[m] EXCEPT !.seen = upTo(2, @), !.gone = 0, !.score = rows[m].score,
                                !.inferred = 0]
        ELSE IF m \in DOMAIN rows THEN [history[m] EXCEPT !.gone = 0]
        ELSE [history[m] EXCEPT !.missed = upTo(MISSING_TICKS_THRESHOLD, @),
                                !.gone = upTo(MISSING_TICKS_THRESHOLD, @)]]

(* Taking the lock and scraping; a match that is over is listed as finished *)
(* or, far more often, not at all.                                         *)
poll(r) ==
    /\ runs[r].pc = "Idle"
    /\ IF running THEN mayFail("hang") ELSE UNCHANGED faults
    /\ running' = TRUE
    /\ \E S \in SUBSET Matches :
         LET rows == [m \in S |-> [score |-> match[m].score,
                                   finished |-> match[m].phase = "Over"]]
         IN  /\ runs' = [runs EXCEPT ![r] = [NoRun EXCEPT !.pc = "Track", !.rows = rows]]
             /\ history' = observed(rows)
             /\ announced' = announced \ inPlay(rows)
    /\ UNCHANGED <<match, tracking>>

(* The cache answers a failed read with nothing. *)
readTracking(r) ==
    /\ runs[r].pc = "Track"
    /\ \E previous \in {tracking, Empty} :
         LET gone == inferredFinished(previous, runs[r].rows)
         IN  /\ IF previous = tracking THEN UNCHANGED faults ELSE mayFail("get")
             /\ runs' = [runs EXCEPT
                  ![r].pc = IF gone = {} THEN "Save" ELSE "Publish",
                  ![r].next = nextState(previous, runs[r].rows),
                  ![r].inferred = [m \in gone |-> previous[m].score]]
    /\ UNCHANGED <<match, tracking, running, history, announced>>

(* One message per inferred finish; a failed publication is logged. *)
publishInferred(r) ==
    /\ runs[r].pc = "Publish"
    /\ \E m \in DOMAIN runs[r].inferred :
         LET rest == DOMAIN runs[r].inferred \ {m}
         IN  /\ \/ /\ announced' = announced \cup {m}
                   /\ history' = [history EXCEPT ![m].inferred = upTo(2, @)]
                   /\ UNCHANGED faults
                \/ mayFail("publish") /\ UNCHANGED <<announced, history>>
             /\ runs' = [runs EXCEPT ![r].inferred = [n \in rest |-> @[n]],
                                     ![r].pc = IF rest = {} THEN "Save" ELSE "Publish"]
    /\ UNCHANGED <<match, tracking, running>>

saveTracking(r) ==
    /\ runs[r].pc = "Save"
    /\ \/ tracking' = runs[r].next /\ UNCHANGED faults
       \/ mayFail("set") /\ UNCHANGED tracking
    /\ runs' = [runs EXCEPT ![r].pc = "Rows"]
    /\ UNCHANGED <<match, running, history, announced>>

(* The rows are cached and published, the finished ones twice. *)
publishRows(r) ==
    /\ runs[r].pc = "Rows"
    /\ announced' = announced \cup (DOMAIN runs[r].rows \ inPlay(runs[r].rows))
    /\ runs' = [runs EXCEPT ![r] = NoRun]
    /\ running' = FALSE
    /\ UNCHANGED <<match, tracking, history, faults>>

(* The process dies.  A finished row whose match is no longer tracked and   *)
(* that was not published yet is "dropped".                                *)
die ==
    /\ \E r \in Runs : runs[r].pc # "Idle"
    /\ "death" \notin faults /\ Cardinality(faults) < MaxFaults
    /\ faults' = faults \cup {"death"} \cup
          (IF \E r \in Runs : runs[r].pc = "Rows" /\ inPlay(runs[r].rows) # DOMAIN runs[r].rows
           THEN {"dropped"} ELSE {})
    /\ runs' = [r \in Runs |-> NoRun]
    /\ running' = FALSE
    /\ UNCHANGED <<match, tracking, history, announced>>

(* An hour without a run that saved. *)
trackingExpires ==
    /\ mayFail("expired")
    /\ tracking' = Empty
    /\ UNCHANGED <<match, running, runs, history, announced>>

runStep(r) == readTracking(r) \/ publishInferred(r) \/ saveTracking(r) \/ publishRows(r)

FeedNext ==
    \/ \E m \in Matches : play(m)
    \/ \E r \in Runs : poll(r) \/ runStep(r)
    \/ die \/ trackingExpires

(* Scrapes succeed again and again; a run that was started goes on. *)
FeedFairness ==
    /\ WF_feedVars(\E r \in Runs : poll(r))
    /\ \A r \in Runs : WF_feedVars(runStep(r))

FeedSpec == FeedInit /\ [][FeedNext]_feedVars /\ FeedFairness

-----------------------------------------------------------------------------
(* Properties *)

(* live-tracking.ts's two guards, whatever overlaps, dies or fails: a match *)
(* is inferred finished only if two scrapes have listed it and as many as  *)
(* the threshold have not.                                                 *)
SeenTwiceMissedTwice ==
    \A r \in Runs : \A m \in DOMAIN runs[r].inferred :
        /\ history[m].seen >= 2
        /\ history[m].missed >= MISSING_TICKS_THRESHOLD

(* "The last score observed while it was still live", after that many       *)
(* polls in a row without it, unless a run was overtaken, died or could    *)
(* not save.                                                               *)
LastScoreAfterGap ==
    faults \cap {"hang", "death", "set"} = {} =>
        \A r \in Runs : \A m \in DOMAIN runs[r].inferred :
            /\ history[m].gone >= MISSING_TICKS_THRESHOLD
            /\ runs[r].inferred[m] = history[m].score

(* A disappearance is published once, unless a run was overtaken, died or   *)
(* could not save after publishing it.                                     *)
PublishedOnce ==
    faults \cap {"hang", "death", "set"} = {} => \A m \in Matches : history[m].inferred <= 1

(* A match that is over while confirmed, and that no run is looking at, is  *)
(* published as finished, by its disappearance or by its flag, unless what *)
(* was known of it was lost.                                               *)
FinishPublished ==
    \A m \in Matches :
        (match[m].phase = "Over" /\ ~running /\ m \in DOMAIN tracking /\ tracking[m].confirmed) ~>
            \/ m \in announced
            \/ faults \cap {"hang", "get", "set", "publish", "expired", "dropped"} # {}
=============================================================================
