----------------------------- MODULE LiveSweep -----------------------------
(***************************************************************************)
(* The live feed together with the settlement sweep that reads its cache:  *)
(* settleFinishedMarketsWithPendingBets settles a market that kicked off   *)
(* 100 minutes ago, has a score and is not in oracle:live:events.          *)
(***************************************************************************)
EXTENDS LiveFeed

VARIABLES
    inCache,    \* oracle:live:events: the matches listed as in play
    rowScore,   \* per Market row: its score, -1 for none
    late,       \* matches that kicked off 100 minutes ago
    settled     \* matches the sweep has settled

sweepVars == <<inCache, rowScore, late, settled>>

SweepInit ==
    /\ FeedInit
    /\ inCache = {} /\ late = {} /\ settled = {}
    /\ rowScore = [m \in Matches |-> -1]

(* The sync worker writes what the run publishes. *)
cacheAndPublish(r) ==
    /\ publishRows(r)
    /\ inCache' = inPlay(runs[r].rows)
    /\ rowScore' = [m \in Matches |->
                      IF m \in DOMAIN runs[r].rows THEN runs[r].rows[m].score ELSE rowScore[m]]
    /\ UNCHANGED <<late, settled>>

(* Five minutes without a run that cached. *)
cacheExpires == inCache' = {} /\ UNCHANGED <<feedVars, rowScore, late, settled>>

hundredMinutes(m) ==
    /\ match[m].aged /\ match[m].phase # "Before"
    /\ late' = late \cup {m}
    /\ UNCHANGED <<feedVars, inCache, rowScore, settled>>

settleFinished(m) ==
    /\ m \in late /\ m \notin inCache \cup settled /\ rowScore[m] # -1
    /\ settled' = settled \cup {m}
    /\ UNCHANGED <<feedVars, inCache, rowScore, late>>

SweepNext ==
    \/ \E m \in Matches : play(m) /\ UNCHANGED sweepVars
    \/ \E r \in Runs :
          \/ /\ poll(r) \/ readTracking(r) \/ publishInferred(r) \/ saveTracking(r)
             /\ UNCHANGED sweepVars
          \/ cacheAndPublish(r)
    \/ (die \/ trackingExpires) /\ UNCHANGED sweepVars
    \/ cacheExpires
    \/ \E m \in Matches : hundredMinutes(m) \/ settleFinished(m)

SweepSpec == SweepInit /\ [][SweepNext]_<<feedVars, sweepVars>>

-----------------------------------------------------------------------------
(* Properties *)

(* settlement.ts reads the cache "so we NEVER settle a live match": what    *)
(* the sweep has settled is not in play.                                   *)
NeverSettlesLive == \A m \in settled : match[m].phase # "Live"
=============================================================================
