--------------------------- MODULE LiveFeedProofs ---------------------------
(***************************************************************************)
(* The inferences of LiveFeed for any number of matches, overlapping runs, *)
(* thresholds and faults.  What makes the properties inductive is an       *)
(* account of the scrapes that have been counted in the history and not    *)
(* yet in a tracking state: those held by the runs that are about to       *)
(* compare.                                                                *)
(***************************************************************************)
EXTENDS LiveFeed, TLAPS, FiniteSetTheorems

Entries == [score : Nat, missing : Nat, confirmed : BOOLEAN]
Trackings == UNION {[S -> Entries] : S \in SUBSET Matches}
RowSets == UNION {[S -> [score : Nat, finished : BOOLEAN]] : S \in SUBSET Matches}
ScoreSets == UNION {[S -> Nat] : S \in SUBSET Matches}

Histories == [seen : Nat, missed : Nat, gone : Nat, score : Nat, inferred : Nat]

RunType ==
    [pc : {"Idle", "Track", "Publish", "Save", "Rows"}, rows : RowSets, next : Trackings,
     inferred : ScoreSets]

FeedTypes ==
    /\ match \in [Matches -> [phase : {"Before", "Live", "Over"}, score : Nat,
                              aged : BOOLEAN]]
    /\ tracking \in Trackings
    /\ running \in BOOLEAN
    /\ runs \in [Runs -> RunType]
    /\ history \in [Matches -> Histories]

(* The scrapes that are counted and not compared yet. *)
comparing(r) == runs[r].pc = "Track"
showing(r, m) == comparing(r) /\ m \in inPlay(runs[r].rows)
lacking(m) == {r \in Runs : comparing(r) /\ m \notin DOMAIN runs[r].rows}

counted(missed, n, lack) ==
    \/ missed >= MISSING_TICKS_THRESHOLD
    \/ missed >= n + Cardinality(lack)

(* An entry says no more than the history h has counted. *)
known(entry, h, shown, lack) ==
    /\ h.seen >= 1
    /\ entry.confirmed \/ shown => h.seen >= 2
    /\ counted(h.missed, entry.missing, lack)

isShown(m) == \E r \in Runs : showing(r, m)
believed(x, m) == known(x[m], history[m], isShown(m), lacking(m))

(* Nothing is known of a match but from its own scrapes. *)
ScrapesCounted ==
    /\ \A m \in DOMAIN tracking : believed(tracking, m)
    /\ \A r \in Runs : \A m \in DOMAIN runs[r].next : believed(runs[r].next, m)
    /\ \A m \in Matches : counted(history[m].missed, 0, lacking(m))
    /\ \A r \in Runs, m \in Matches : showing(r, m) => history[m].seen >= 1
    /\ \A r, q \in Runs, m \in Matches :
          r # q /\ showing(r, m) /\ showing(q, m) => history[m].seen >= 2

NothingCompared ==
    \A r \in Runs : runs[r].pc \in {"Idle", "Track"} => runs[r].next = Empty
                                                        /\ runs[r].inferred = Empty

InferenceInv ==
    /\ FeedTypes
    /\ NothingCompared
    /\ ScrapesCounted
    /\ SeenTwiceMissedTwice

(* Without a run that was overtaken, died or could not save. *)
quiet == faults \cap {"hang", "death", "set"} = {}

OneAtATime ==
    /\ running <=> \E r \in Runs : runs[r].pc # "Idle"
    /\ \A r, q \in Runs : runs[r].pc # "Idle" /\ runs[q].pc # "Idle" => r = q

longGone(m, n) == history[m].gone >= MISSING_TICKS_THRESHOLD \/ history[m].gone >= n

current(x, m) == x[m].score = history[m].score /\ history[m].inferred = 0

(* What the run holds, or what the last one saved, is what the scrapes in a *)
(* row have shown.                                                         *)
StateCurrent ==
    /\ (\A r \in Runs : runs[r].pc \in {"Idle", "Rows"}) =>
          \A m \in DOMAIN tracking : current(tracking, m) /\ longGone(m, tracking[m].missing)
    /\ \A r \in Runs : comparing(r) =>
          /\ \A m \in DOMAIN tracking \ DOMAIN runs[r].rows :
                current(tracking, m) /\ longGone(m, tracking[m].missing + 1)
          /\ \A m \in inPlay(runs[r].rows) : current(runs[r].rows, m)
    /\ \A r \in Runs : runs[r].pc \in {"Publish", "Save"} =>
          \A m \in DOMAIN runs[r].next :
                current(runs[r].next, m) /\ longGone(m, runs[r].next[m].missing)
    /\ \A r \in Runs : \A m \in DOMAIN runs[r].inferred :
          /\ m \notin DOMAIN runs[r].next
          /\ history[m].inferred = 0
          /\ runs[r].inferred[m] = history[m].score
          /\ history[m].gone >= MISSING_TICKS_THRESHOLD

QuietInv ==
    quiet => /\ OneAtATime
             /\ StateCurrent
             /\ \A m \in Matches : history[m].inferred <= 1

-----------------------------------------------------------------------------
(* The data of a run *)

LEMMA TrackingsAre ==
    ASSUME NEW x
    PROVE  x \in Trackings <=> DOMAIN x \subseteq Matches /\ x \in [DOMAIN x -> Entries]
BY DEF Trackings

LEMMA RowSetsAre ==
    ASSUME NEW x
    PROVE  x \in RowSets <=> /\ DOMAIN x \subseteq Matches
                             /\ x \in [DOMAIN x -> [score : Nat, finished : BOOLEAN]]
BY DEF RowSets

LEMMA ScoreSetsAre ==
    ASSUME NEW x
    PROVE  x \in ScoreSets <=> DOMAIN x \subseteq Matches /\ x \in [DOMAIN x -> Nat]
BY DEF ScoreSets

LEMMA EmptyIsAll ==
    /\ DOMAIN Empty = {}
    /\ Empty \in Trackings /\ Empty \in RowSets /\ Empty \in ScoreSets
<1>1. DOMAIN Empty = {} /\ Empty \in [{} -> Entries] /\ Empty \in [{} -> Nat]
      /\ Empty \in [{} -> [score : Nat, finished : BOOLEAN]]
  BY DEF Empty
<1> QED BY <1>1, TrackingsAre, RowSetsAre, ScoreSetsAre

LEMMA NoRunTyped == NoRun \in RunType
BY EmptyIsAll DEF NoRun, RunType

(* What a comparison leaves: the rows in play, and the absent entries with  *)
(* one more missed tick.                                                   *)
LEMMA NextStateIs ==
    ASSUME NEW x \in Trackings, NEW rows \in RowSets
    PROVE  /\ nextState(x, rows) \in Trackings
           /\ DOMAIN nextState(x, rows) = inPlay(rows) \cup keptMissing(x, rows)
           /\ keptMissing(x, rows) \subseteq DOMAIN x \ DOMAIN rows
           /\ inPlay(rows) \subseteq DOMAIN rows
           /\ \A m \in inPlay(rows) :
                 nextState(x, rows)[m] =
                    [score |-> rows[m].score, missing |-> 0, confirmed |-> m \in DOMAIN x]
           /\ \A m \in keptMissing(x, rows) :
                 /\ x[m] \in Entries
                 /\ nextState(x, rows)[m] = [x[m] EXCEPT !.missing = missingTicks(x[m])]
<1> DEFINE S == inPlay(rows) \cup keptMissing(x, rows)
           kept(m) == [x[m] EXCEPT !.missing = missingTicks(x[m])]
           shown(m) == [score |-> rows[m].score, missing |-> 0, confirmed |-> m \in DOMAIN x]
<1>1. /\ DOMAIN x \subseteq Matches /\ \A m \in DOMAIN x : x[m] \in Entries
      /\ DOMAIN rows \subseteq Matches
      /\ \A m \in DOMAIN rows : rows[m] \in [score : Nat, finished : BOOLEAN]
  BY TrackingsAre, RowSetsAre
<1>2. keptMissing(x, rows) \subseteq DOMAIN x \ DOMAIN rows /\ inPlay(rows) \subseteq DOMAIN rows
  BY DEF keptMissing, inPlay
<1>3. \A m \in keptMissing(x, rows) :
        kept(m) \in Entries /\ kept(m).score = x[m].score /\ kept(m).missing = x[m].missing + 1
        /\ kept(m).confirmed = x[m].confirmed
  BY <1>1, <1>2 DEF Entries, missingTicks
<1>4. \A m \in inPlay(rows) : shown(m) \in Entries
  BY <1>1, <1>2 DEF Entries
<1>5. nextState(x, rows) = [m \in S |-> IF m \in DOMAIN rows THEN shown(m) ELSE kept(m)]
  BY DEF nextState
<1>6. S \subseteq Matches
  BY <1>1, <1>2
<1> HIDE DEF kept, shown
<1>7. \A m \in S : (IF m \in DOMAIN rows THEN shown(m) ELSE kept(m)) \in Entries
  BY <1>2, <1>3, <1>4
<1>8. nextState(x, rows) \in [S -> Entries]
  BY <1>5, <1>7
<1>9. nextState(x, rows) \in Trackings
  BY <1>6, <1>8, TrackingsAre
<1>10. \A m \in inPlay(rows) : nextState(x, rows)[m] = shown(m)
  BY <1>5, <1>2
<1>11. \A m \in keptMissing(x, rows) : nextState(x, rows)[m] = kept(m)
  BY <1>5, <1>2
<1>12. \A m \in keptMissing(x, rows) : x[m] \in Entries
  BY <1>1, <1>2
<1> QED BY <1>2, <1>8, <1>9, <1>10, <1>11, <1>12 DEF shown, kept

LEMMA NextShown ==
    ASSUME NEW x \in Trackings, NEW rows \in RowSets, NEW m \in inPlay(rows)
    PROVE  /\ nextState(x, rows)[m].score = rows[m].score
           /\ nextState(x, rows)[m].missing = 0
           /\ nextState(x, rows)[m].confirmed <=> m \in DOMAIN x
<1>1. nextState(x, rows)[m] =
        [score |-> rows[m].score, missing |-> 0, confirmed |-> m \in DOMAIN x]
  BY NextStateIs
<1>2. nextState(x, rows)[m].score = rows[m].score /\ nextState(x, rows)[m].missing = 0
  BY <1>1
<1>3. CASE m \in DOMAIN x
  <2>1. nextState(x, rows)[m] = [score |-> rows[m].score, missing |-> 0, confirmed |-> TRUE]
    BY <1>1, <1>3
  <2> QED BY <1>2, <1>3, <2>1
<1>4. CASE m \notin DOMAIN x
  <2>0. (m \in DOMAIN x) = FALSE
    BY <1>4
  <2>1. nextState(x, rows)[m] = [score |-> rows[m].score, missing |-> 0, confirmed |-> FALSE]
    BY <1>1, <2>0
  <2> QED BY <1>2, <1>4, <2>1
<1> QED BY <1>3, <1>4

LEMMA NextKept ==
    ASSUME NEW x \in Trackings, NEW rows \in RowSets, NEW m \in keptMissing(x, rows)
    PROVE  /\ nextState(x, rows)[m].score = x[m].score
           /\ nextState(x, rows)[m].missing = x[m].missing + 1
           /\ nextState(x, rows)[m].confirmed = x[m].confirmed
<1>1. x[m] \in Entries /\ nextState(x, rows)[m] = [x[m] EXCEPT !.missing = missingTicks(x[m])]
  BY NextStateIs
<1> QED BY <1>1 DEF Entries, missingTicks

LEMMA ObservedIs ==
    ASSUME FeedTypes, NEW rows \in RowSets, history' = observed(rows)
    PROVE  /\ history' \in [Matches -> Histories]
           /\ \A m \in Matches : history'[m].seen >= history[m].seen
           /\ \A m \in inPlay(rows) :
                 /\ m \in Matches
                 /\ history'[m].seen >= 1
                 /\ history[m].seen >= 1 => history'[m].seen >= 2
                 /\ history'[m].missed = history[m].missed
                 /\ history'[m].score = rows[m].score /\ history'[m].inferred = 0
           /\ \A m \in Matches \ inPlay(rows) :
                 /\ history'[m].seen = history[m].seen
                 /\ history'[m].score = history[m].score
                 /\ history'[m].inferred = history[m].inferred
           /\ \A m \in Matches \cap (DOMAIN rows) : history'[m].missed = history[m].missed
           /\ \A m \in Matches \ DOMAIN rows :
                 /\ \/ history'[m].missed = history[m].missed + 1
                    \/ /\ history'[m].missed = history[m].missed
                       /\ history[m].missed >= MISSING_TICKS_THRESHOLD
                 /\ \/ history'[m].gone = history[m].gone + 1
                    \/ /\ history'[m].gone = history[m].gone
                       /\ history[m].gone >= MISSING_TICKS_THRESHOLD
<1> DEFINE H == Histories
           listed(m) == [history[m] EXCEPT !.seen = upTo(2, @), !.gone = 0,
                                         !.score = rows[m].score, !.inferred = 0]
           over(m) == [history[m] EXCEPT !.gone = 0]
           none(m) == [history[m] EXCEPT !.missed = upTo(MISSING_TICKS_THRESHOLD, @),
                                         !.gone = upTo(MISSING_TICKS_THRESHOLD, @)]
<1>1. /\ \A m \in Matches : history[m] \in H
      /\ DOMAIN rows \subseteq Matches /\ inPlay(rows) \subseteq DOMAIN rows
      /\ \A m \in DOMAIN rows : rows[m].score \in Nat
  BY RowSetsAre DEF FeedTypes, inPlay
<1> USE DEF Histories
<1>2. history' = [m \in Matches |-> IF m \in inPlay(rows) THEN listed(m)
                                  ELSE IF m \in DOMAIN rows THEN over(m) ELSE none(m)]
  BY DEF observed
<1>3. \A m \in inPlay(rows) :
        /\ listed(m) \in H /\ listed(m).seen = upTo(2, history[m].seen)
        /\ listed(m).missed = history[m].missed /\ listed(m).score = rows[m].score
        /\ listed(m).inferred = 0
  <2>1. \A n \in Nat : upTo(2, n) \in Nat
    BY DEF upTo
  <2>2. \A m \in inPlay(rows) : history[m] \in H /\ rows[m].score \in Nat
    BY <1>1
  <2> QED BY <2>1, <2>2
<1>4. \A m \in Matches :
        /\ over(m) \in H /\ over(m).seen = history[m].seen /\ over(m).missed = history[m].missed
        /\ over(m).score = history[m].score /\ over(m).inferred = history[m].inferred
  BY <1>1
<1>5. \A m \in Matches :
        /\ none(m) \in H /\ none(m).seen = history[m].seen
        /\ none(m).score = history[m].score /\ none(m).inferred = history[m].inferred
        /\ none(m).missed = upTo(MISSING_TICKS_THRESHOLD, history[m].missed)
        /\ none(m).gone = upTo(MISSING_TICKS_THRESHOLD, history[m].gone)
  <2>1. \A n \in Nat : upTo(MISSING_TICKS_THRESHOLD, n) \in Nat
    BY DEF upTo
  <2> QED BY <1>1, <2>1
<1> HIDE DEF listed, over, none
<1>6. history' \in [Matches -> H]
  BY <1>1, <1>2, <1>3, <1>4, <1>5
<1>7. \A m \in inPlay(rows) : m \in Matches /\ history'[m] = listed(m)
  BY <1>1, <1>2
<1>8. \A m \in (Matches \cap DOMAIN rows) \ inPlay(rows) : history'[m] = over(m)
  BY <1>1, <1>2
<1>9. \A m \in Matches \ DOMAIN rows : history'[m] = none(m)
  BY <1>1, <1>2
<1>10. \A m \in Matches : history[m].seen \in Nat /\ history[m].missed \in Nat
                          /\ history[m].gone \in Nat
  BY <1>1
<1>11. \A m \in inPlay(rows) :
        /\ history'[m].seen >= 1 /\ (history[m].seen >= 1 => history'[m].seen >= 2)
  BY <1>3, <1>7, <1>10 DEF upTo
<1>12. \A m \in Matches \ DOMAIN rows :
        /\ \/ history'[m].missed = history[m].missed + 1
           \/ /\ history'[m].missed = history[m].missed
              /\ history[m].missed >= MISSING_TICKS_THRESHOLD
        /\ \/ history'[m].gone = history[m].gone + 1
           \/ history'[m].gone = history[m].gone /\ history[m].gone >= MISSING_TICKS_THRESHOLD
  BY <1>5, <1>9, <1>10, FeedAssumption DEF upTo, FeedAssumption
<1>13. \A m \in Matches \ inPlay(rows) :
        /\ history'[m].seen = history[m].seen /\ history'[m].score = history[m].score
        /\ history'[m].inferred = history[m].inferred
  BY <1>4, <1>5, <1>8, <1>9
<1>14. \A m \in Matches \cap (DOMAIN rows) : history'[m].missed = history[m].missed
  BY <1>3, <1>4, <1>7, <1>8
<1>15. \A m \in inPlay(rows) : history'[m].score = rows[m].score /\ history'[m].inferred = 0
  BY <1>3, <1>7
<1>16. \A m \in Matches : history'[m].seen >= history[m].seen
  <2> TAKE m \in Matches
  <2>1. CASE m \in inPlay(rows)
    BY <1>3, <1>7, <1>10, <2>1 DEF upTo
  <2>2. CASE m \notin inPlay(rows)
    BY <1>10, <1>13, <2>2
  <2> QED BY <2>1, <2>2
<1> QED BY <1>1, <1>6, <1>7, <1>11, <1>12, <1>13, <1>14, <1>15, <1>16

-----------------------------------------------------------------------------
(* What each step of a run changes *)

LEMMA RunRead ==
    ASSUME FeedTypes, NEW r \in Runs
    PROVE  /\ runs[r] \in RunType
           /\ runs[r].rows \in RowSets /\ runs[r].next \in Trackings
           /\ runs[r].inferred \in ScoreSets
           /\ DOMAIN runs[r].rows \subseteq Matches
           /\ DOMAIN runs[r].next \subseteq Matches
           /\ DOMAIN runs[r].inferred \subseteq Matches
BY RowSetsAre, TrackingsAre, ScoreSetsAre DEF FeedTypes, RunType

LEMMA PollStep ==
    ASSUME FeedTypes, NEW r \in Runs, poll(r)
    PROVE  \E rows \in RowSets :
              /\ runs[r].pc = "Idle"
              /\ history' = observed(rows)
              /\ runs' \in [Runs -> RunType]
              /\ runs'[r].pc = "Track" /\ runs'[r].rows = rows
              /\ runs'[r].next = Empty /\ runs'[r].inferred = Empty
              /\ \A q \in Runs : q # r => runs'[q] = runs[q]
              /\ match' = match /\ tracking' = tracking /\ running' = TRUE
              /\ IF running THEN mayFail("hang") ELSE faults' = faults
<1>1. PICK S \in SUBSET Matches :
        LET rows == [m \in S |-> [score |-> match[m].score, finished |-> match[m].phase = "Over"]]
        IN  /\ runs' = [runs EXCEPT ![r] = [NoRun EXCEPT !.pc = "Track", !.rows = rows]]
            /\ history' = observed(rows)
  BY DEF poll
<1> DEFINE rows == [m \in S |-> [score |-> match[m].score, finished |-> match[m].phase = "Over"]]
           taken == [NoRun EXCEPT !.pc = "Track", !.rows = rows]
<1>2. rows \in RowSets
  <2>1. \A m \in S : [score |-> match[m].score, finished |-> match[m].phase = "Over"]
                       \in [score : Nat, finished : BOOLEAN]
    BY DEF FeedTypes
  <2>2. rows \in [S -> [score : Nat, finished : BOOLEAN]]
    BY <2>1
  <2> QED BY <2>2, RowSetsAre
<1> HIDE DEF rows
<1>3. /\ taken \in RunType /\ taken.pc = "Track" /\ taken.rows = rows
      /\ taken.next = Empty /\ taken.inferred = Empty
  BY <1>2, EmptyIsAll DEF NoRun, RunType
<1>4. runs' = [runs EXCEPT ![r] = taken] /\ history' = observed(rows)
  BY <1>1 DEF rows
<1> HIDE DEF taken
<1>5. /\ runs' \in [Runs -> RunType] /\ runs'[r] = taken
      /\ \A q \in Runs : q # r => runs'[q] = runs[q]
  BY <1>3, <1>4 DEF FeedTypes
<1> QED BY <1>2, <1>3, <1>4, <1>5 DEF poll

LEMMA ReadStep ==
    ASSUME FeedTypes, NEW r \in Runs, readTracking(r)
    PROVE  \E x \in Trackings :
              /\ comparing(r)
              /\ x = tracking \/ x = Empty
              /\ runs' \in [Runs -> RunType]
              /\ runs'[r].pc \in {"Save", "Publish"} /\ runs'[r].rows = runs[r].rows
              /\ runs'[r].next = nextState(x, runs[r].rows)
              /\ DOMAIN runs'[r].inferred = inferredFinished(x, runs[r].rows)
              /\ \A m \in inferredFinished(x, runs[r].rows) : runs'[r].inferred[m] = x[m].score
              /\ \A q \in Runs : q # r => runs'[q] = runs[q]
              /\ match' = match /\ tracking' = tracking /\ running' = running
              /\ history' = history /\ faults \subseteq faults'
<1>1. PICK x \in {tracking, Empty} :
        LET gone == inferredFinished(x, runs[r].rows)
        IN  /\ IF x = tracking THEN UNCHANGED faults ELSE mayFail("get")
            /\ runs' = [runs EXCEPT
                 ![r].pc = IF gone = {} THEN "Save" ELSE "Publish",
                 ![r].next = nextState(x, runs[r].rows),
                 ![r].inferred = [m \in gone |-> x[m].score]]
  BY DEF readTracking
<1> DEFINE gone == inferredFinished(x, runs[r].rows)
           scores == [m \in gone |-> x[m].score]
           done == [runs[r] EXCEPT !.pc = IF gone = {} THEN "Save" ELSE "Publish",
                                   !.next = nextState(x, runs[r].rows), !.inferred = scores]
<1>2. x \in Trackings
  BY EmptyIsAll DEF FeedTypes
<1>3. scores \in ScoreSets
  <2>1. gone \subseteq DOMAIN x /\ DOMAIN x \subseteq Matches /\ \A m \in DOMAIN x : x[m].score \in Nat
    BY <1>2, TrackingsAre DEF inferredFinished, Entries
  <2> QED BY <2>1, ScoreSetsAre
<1>4. nextState(x, runs[r].rows) \in Trackings
  BY <1>2, RunRead, NextStateIs
<1>5. /\ DOMAIN scores = gone /\ \A m \in gone : scores[m] = x[m].score
  OBVIOUS
<1> HIDE DEF scores, gone
<1>6. /\ done \in RunType /\ done.pc \in {"Save", "Publish"}
      /\ done.rows = runs[r].rows /\ done.next = nextState(x, runs[r].rows)
      /\ done.inferred = scores
  BY <1>3, <1>4, RunRead DEF RunType
<1>7. runs' = [runs EXCEPT ![r] = done]
  BY <1>1 DEF gone, scores, FeedTypes
<1> HIDE DEF done
<1>8. /\ runs' \in [Runs -> RunType] /\ runs'[r] = done
      /\ \A q \in Runs : q # r => runs'[q] = runs[q]
  BY <1>6, <1>7 DEF FeedTypes
<1>9. faults \subseteq faults'
  BY <1>1 DEF mayFail
<1> QED BY <1>2, <1>5, <1>6, <1>8, <1>9 DEF readTracking, comparing, gone

LEMMA PublishStep ==
    ASSUME FeedTypes, NEW r \in Runs, publishInferred(r)
    PROVE  \E m \in DOMAIN runs[r].inferred :
              /\ runs[r].pc = "Publish"
              /\ runs' \in [Runs -> RunType]
              /\ runs'[r].pc \in {"Save", "Publish"} /\ runs'[r].rows = runs[r].rows
              /\ runs'[r].next = runs[r].next
              /\ DOMAIN runs'[r].inferred = DOMAIN runs[r].inferred \ {m}
              /\ \A n \in DOMAIN runs'[r].inferred : runs'[r].inferred[n] = runs[r].inferred[n]
              /\ \A q \in Runs : q # r => runs'[q] = runs[q]
              /\ match' = match /\ tracking' = tracking /\ running' = running
              /\ \/ history' = history
                 \/ history' = [history EXCEPT ![m].inferred = upTo(2, @)]
              /\ faults \subseteq faults'
<1>1. PICK m \in DOMAIN runs[r].inferred :
        LET rest == DOMAIN runs[r].inferred \ {m}
        IN  /\ \/ /\ announced' = announced \cup {m}
                  /\ history' = [history EXCEPT ![m].inferred = upTo(2, @)]
                  /\ UNCHANGED faults
               \/ mayFail("publish") /\ UNCHANGED <<announced, history>>
            /\ runs' = [runs EXCEPT ![r].inferred = [n \in rest |-> @[n]],
                                    ![r].pc = IF rest = {} THEN "Save" ELSE "Publish"]
  BY DEF publishInferred
<1> DEFINE rest == DOMAIN runs[r].inferred \ {m}
           left == [n \in rest |-> runs[r].inferred[n]]
           done == [runs[r] EXCEPT !.inferred = left,
                                   !.pc = IF rest = {} THEN "Save" ELSE "Publish"]
<1>2. left \in ScoreSets
  <2>1. rest \subseteq Matches /\ \A n \in rest : runs[r].inferred[n] \in Nat
    BY RunRead, ScoreSetsAre
  <2> QED BY <2>1, ScoreSetsAre
<1>3. DOMAIN left = rest /\ \A n \in rest : left[n] = runs[r].inferred[n]
  OBVIOUS
<1>4. runs' = [runs EXCEPT ![r] = [runs[r] EXCEPT !.inferred = left,
                                   !.pc = IF rest = {} THEN "Save" ELSE "Publish"]]
  BY <1>1 DEF FeedTypes
<1> HIDE DEF left
<1>5. /\ done \in RunType /\ done.pc \in {"Save", "Publish"}
      /\ done.rows = runs[r].rows /\ done.next = runs[r].next /\ done.inferred = left
  BY <1>2, RunRead DEF RunType
<1>6. runs' = [runs EXCEPT ![r] = done]
  BY <1>4
<1> HIDE DEF done
<1>7. /\ runs' \in [Runs -> RunType] /\ runs'[r] = done
      /\ \A q \in Runs : q # r => runs'[q] = runs[q]
  BY <1>5, <1>6 DEF FeedTypes
<1>8. faults \subseteq faults'
  BY <1>1 DEF mayFail
<1> QED BY <1>1, <1>3, <1>5, <1>7, <1>8 DEF publishInferred

LEMMA SaveStep ==
    ASSUME FeedTypes, NEW r \in Runs, saveTracking(r)
    PROVE  /\ runs[r].pc = "Save"
           /\ \/ tracking' = runs[r].next /\ faults' = faults
              \/ tracking' = tracking /\ faults' = faults \cup {"set"}
           /\ runs' \in [Runs -> RunType]
           /\ runs'[r].pc = "Rows" /\ runs'[r].rows = runs[r].rows
           /\ runs'[r].next = runs[r].next /\ runs'[r].inferred = runs[r].inferred
           /\ \A q \in Runs : q # r => runs'[q] = runs[q]
           /\ match' = match /\ running' = running /\ history' = history
<1> DEFINE done == [runs[r] EXCEPT !.pc = "Rows"]
<1>1. /\ done \in RunType /\ done.pc = "Rows"
      /\ done.rows = runs[r].rows /\ done.next = runs[r].next
      /\ done.inferred = runs[r].inferred
  BY RunRead DEF RunType
<1>2. runs' = [runs EXCEPT ![r] = done]
  BY DEF saveTracking, FeedTypes
<1> HIDE DEF done
<1>3. /\ runs' \in [Runs -> RunType] /\ runs'[r] = done
      /\ \A q \in Runs : q # r => runs'[q] = runs[q]
  BY <1>1, <1>2 DEF FeedTypes
<1> QED BY <1>1, <1>3 DEF saveTracking, mayFail

LEMMA RowsStep ==
    ASSUME FeedTypes, NEW r \in Runs, publishRows(r)
    PROVE  /\ runs[r].pc = "Rows"
           /\ runs' \in [Runs -> RunType]
           /\ runs'[r] = NoRun
           /\ \A q \in Runs : q # r => runs'[q] = runs[q]
           /\ match' = match /\ running' = FALSE /\ history' = history
           /\ tracking' = tracking /\ faults' = faults
BY NoRunTyped DEF publishRows, FeedTypes

LEMMA TypesInit == FeedInit => FeedTypes
<1> SUFFICES ASSUME FeedInit PROVE FeedTypes
  OBVIOUS
<1>1. match \in [Matches -> [phase : {"Before", "Live", "Over"}, score : Nat, aged : BOOLEAN]]
  BY DEF FeedInit
<1>2. history \in [Matches -> Histories]
  BY DEF FeedInit, Histories
<1>3. runs \in [Runs -> RunType]
  BY NoRunTyped DEF FeedInit
<1> QED BY <1>1, <1>2, <1>3, EmptyIsAll DEF FeedInit, FeedTypes

LEMMA TypesStep ==
    ASSUME FeedTypes, [FeedNext]_feedVars
    PROVE  FeedTypes'
<1>1. ASSUME NEW m \in Matches, play(m)
      PROVE  FeedTypes'
  <2> DEFINE M == [phase : {"Before", "Live", "Over"}, score : Nat, aged : BOOLEAN]
  <2>1. match \in [Matches -> M] /\ match[m] \in M
    BY DEF FeedTypes
  <2>2. /\ [match[m] EXCEPT !.phase = "Live"] \in M
        /\ [match[m] EXCEPT !.score = match[m].score + 1] \in M
        /\ [match[m] EXCEPT !.aged = TRUE] \in M
        /\ [match[m] EXCEPT !.phase = "Over"] \in M
    <3>1. \A e \in M : /\ [e EXCEPT !.phase = "Live"] \in M
                       /\ [e EXCEPT !.phase = "Over"] \in M
      OBVIOUS
    <3>2. \A e \in M : [e EXCEPT !.aged = TRUE] \in M
      OBVIOUS
    <3>3. \A e \in M : [e EXCEPT !.score = e.score + 1] \in M
      <4> TAKE e \in M
      <4>1. e.score + 1 \in Nat
        OBVIOUS
      <4> QED BY <4>1
    <3> HIDE DEF M
    <3> QED BY <2>1, <3>1, <3>2, <3>3
  <2>3. PICK entry \in M : matchBecomes(m, entry)
    BY <1>1, <2>2 DEF play
  <2>4. match' \in [Matches -> M]
    BY <2>1, <2>3 DEF matchBecomes
  <2> QED BY <2>3, <2>4 DEF matchBecomes, FeedTypes
<1>2. ASSUME NEW r \in Runs, poll(r)
      PROVE  FeedTypes'
  BY <1>2, PollStep, ObservedIs DEF FeedTypes
<1>3. ASSUME NEW r \in Runs, readTracking(r)
      PROVE  FeedTypes'
  BY <1>3, ReadStep DEF FeedTypes
<1>4. ASSUME NEW r \in Runs, publishInferred(r)
      PROVE  FeedTypes'
  <2>1. PICK m \in DOMAIN runs[r].inferred :
           \/ history' = history
           \/ history' = [history EXCEPT ![m].inferred = upTo(2, @)]
    BY <1>4, PublishStep
  <2>2. m \in Matches
    BY RunRead
  <2>3. upTo(2, history[m].inferred) \in Nat
    BY <2>2 DEF FeedTypes, Histories, upTo
  <2>4. history' \in [Matches -> Histories]
    BY <2>1, <2>2, <2>3 DEF FeedTypes, Histories
  <2> QED BY <1>4, <2>4, PublishStep DEF FeedTypes
<1>5. ASSUME NEW r \in Runs, saveTracking(r)
      PROVE  FeedTypes'
  BY <1>5, SaveStep, RunRead DEF FeedTypes
<1>6. ASSUME NEW r \in Runs, publishRows(r)
      PROVE  FeedTypes'
  BY <1>6, RowsStep DEF FeedTypes
<1>7. CASE die
  BY <1>7, NoRunTyped DEF die, FeedTypes
<1>8. CASE trackingExpires
  BY <1>8, EmptyIsAll DEF trackingExpires, FeedTypes
<1>9. CASE UNCHANGED feedVars
  BY <1>9 DEF feedVars, FeedTypes
<1> QED BY <1>1, <1>2, <1>3, <1>4, <1>5, <1>6, <1>7, <1>8, <1>9 DEF FeedNext, runStep

-----------------------------------------------------------------------------
(* Counting *)

LEMMA LackingFinite ==
    ASSUME NEW m
    PROVE  IsFiniteSet(lacking(m)) /\ Cardinality(lacking(m)) \in Nat
<1>1. lacking(m) \in SUBSET Runs /\ IsFiniteSet(Runs)
  BY FeedAssumption DEF lacking
<1> QED BY <1>1, FS_Subset, FS_CardinalityType

LEMMA CountedKept ==
    ASSUME NEW missed \in Nat, NEW n \in Nat, NEW lack, IsFiniteSet(lack),
           NEW missed2 \in Nat, missed2 >= missed, NEW lack2 \in SUBSET lack,
           counted(missed, n, lack)
    PROVE  counted(missed2, n, lack2)
<1>1. Cardinality(lack) \in Nat /\ Cardinality(lack2) \in Nat
      /\ Cardinality(lack2) <= Cardinality(lack)
  BY FS_Subset, FS_CardinalityType
<1>2. MISSING_TICKS_THRESHOLD \in Nat
  BY FeedAssumption
<1> QED BY <1>1, <1>2 DEF counted

(* One more scrape without the match, counted and held. *)
LEMMA CountedMore ==
    ASSUME NEW missed \in Nat, NEW n \in Nat, NEW lack, IsFiniteSet(lack), NEW r,
           NEW missed2 \in Nat,
           \/ missed2 = missed + 1
           \/ missed2 = missed /\ missed >= MISSING_TICKS_THRESHOLD,
           counted(missed, n, lack)
    PROVE  counted(missed2, n, lack \cup {r})
<1>1. Cardinality(lack) \in Nat /\ Cardinality(lack \cup {r}) \in Nat
      /\ Cardinality(lack \cup {r}) <= Cardinality(lack) + 1
  <2>1. Cardinality(lack) \in Nat
    BY FS_CardinalityType
  <2>2. Cardinality(lack \cup {r}) = IF r \in lack THEN Cardinality(lack)
                                                 ELSE Cardinality(lack) + 1
    BY FS_AddElement
  <2> QED BY <2>1, <2>2
<1>2. MISSING_TICKS_THRESHOLD \in Nat
  BY FeedAssumption
<1> QED BY <1>1, <1>2 DEF counted

(* A scrape that was held goes into the entry. *)
LEMMA CountedMoves ==
    ASSUME NEW missed \in Nat, NEW n \in Nat, NEW lack, IsFiniteSet(lack), NEW r \in lack,
           counted(missed, n, lack)
    PROVE  /\ counted(missed, n + 1, lack \ {r})
           /\ n + 1 >= MISSING_TICKS_THRESHOLD => missed >= MISSING_TICKS_THRESHOLD
<1>1. Cardinality(lack) \in Nat /\ Cardinality(lack \ {r}) \in Nat
      /\ Cardinality(lack \ {r}) = Cardinality(lack) - 1
  BY FS_RemoveElement, FS_CardinalityType
<1>2. MISSING_TICKS_THRESHOLD \in Nat
  BY FeedAssumption
<1> QED BY <1>1, <1>2 DEF counted

LEMMA KnownKept ==
    ASSUME NEW e \in Entries, NEW h \in Histories, NEW shown, NEW lack, IsFiniteSet(lack),
           NEW h2 \in Histories, h2.seen >= h.seen, h2.missed >= h.missed,
           NEW shown2, shown2 => shown, NEW lack2 \in SUBSET lack,
           known(e, h, shown, lack)
    PROVE  known(e, h2, shown2, lack2)
<1>1. counted(h2.missed, e.missing, lack2)
  BY CountedKept DEF known, Entries, Histories
<1> QED BY <1>1 DEF known, Entries, Histories

(* A step that looks at no scrape and compares none. *)
LEMMA ScrapesKept ==
    ASSUME InferenceInv, FeedTypes', history' \in [Matches -> Histories],
           \A m \in Matches : /\ history'[m].seen = history[m].seen
                              /\ history'[m].missed = history[m].missed,
           \A r \in Runs : comparing(r)' => comparing(r) /\ runs'[r].rows = runs[r].rows,
           \A r \in Runs : \/ runs'[r].next = runs[r].next
                           \/ runs'[r].next = Empty,
           \/ tracking' = tracking
           \/ tracking' = Empty
           \/ \E r \in Runs : tracking' = runs[r].next
    PROVE  ScrapesCounted'
<1>0. FeedTypes /\ ScrapesCounted
  BY DEF InferenceInv
<1>1. ASSUME NEW m \in Matches
      PROVE  /\ lacking(m)' \in SUBSET lacking(m)
             /\ isShown(m)' => isShown(m)
             /\ \A r \in Runs : showing(r, m)' => showing(r, m)
  BY DEF lacking, isShown, showing, comparing, inPlay
<1>2. ASSUME NEW m \in Matches
      PROVE  /\ history[m] \in Histories /\ history'[m] \in Histories
             /\ history'[m].seen >= history[m].seen /\ history'[m].missed >= history[m].missed
  BY <1>0 DEF FeedTypes, Histories
<1>3. ASSUME NEW m \in Matches, NEW e \in Entries, known(e, history[m], isShown(m), lacking(m))
      PROVE  known(e, history'[m], isShown(m)', lacking(m)')
  BY <1>1, <1>2, <1>3, LackingFinite, KnownKept
<1>4. \A r \in Runs : \A m \in DOMAIN runs[r].next :
         m \in Matches /\ runs[r].next[m] \in Entries /\ believed(runs[r].next, m)
  BY <1>0, RunRead, TrackingsAre DEF ScrapesCounted
<1>5. \A m \in DOMAIN tracking :
         m \in Matches /\ tracking[m] \in Entries /\ believed(tracking, m)
  BY <1>0, TrackingsAre DEF ScrapesCounted, FeedTypes
<1>6. \A m \in DOMAIN tracking' : believed(tracking, m)'
  <2>1. CASE tracking' = tracking
    BY <2>1, <1>3, <1>5 DEF believed
  <2>2. CASE tracking' = Empty
    BY <2>2, EmptyIsAll
  <2>3. ASSUME NEW r \in Runs, tracking' = runs[r].next
        PROVE  \A m \in DOMAIN tracking' : believed(tracking, m)'
    BY <2>3, <1>3, <1>4 DEF believed
  <2> QED BY <2>1, <2>2, <2>3
<1>7. ASSUME NEW r \in Runs, NEW m \in DOMAIN runs'[r].next
      PROVE  believed(runs[r].next, m)'
  <2>1. runs'[r].next = runs[r].next
    BY <1>7, EmptyIsAll
  <2> QED BY <2>1, <1>3, <1>4 DEF believed
<1>8. ASSUME NEW m \in Matches
      PROVE  counted(history'[m].missed, 0, lacking(m)')
  BY <1>0, <1>1, <1>2, LackingFinite, CountedKept DEF ScrapesCounted, Histories
<1>9. ASSUME NEW r \in Runs, NEW m \in Matches, showing(r, m)'
      PROVE  /\ history'[m].seen >= 1
             /\ \A q \in Runs : r # q /\ showing(q, m)' => history'[m].seen >= 2
  BY <1>0, <1>1, <1>9 DEF ScrapesCounted
<1> QED BY <1>6, <1>7, <1>8, <1>9 DEF ScrapesCounted

-----------------------------------------------------------------------------
(* A match is inferred finished only after two scrapes that list it and as *)
(* many as the threshold that do not                                       *)

LEMMA InferenceInit == FeedInit => InferenceInv
<1> SUFFICES ASSUME FeedInit PROVE InferenceInv
  OBVIOUS
<1>1. FeedTypes
  BY TypesInit
<1>2. /\ \A r \in Runs : /\ runs[r].pc = "Idle" /\ runs[r].next = Empty
                        /\ runs[r].inferred = Empty
      /\ tracking = Empty
  BY DEF FeedInit, NoRun
<1>3. \A m \in Matches : lacking(m) = {}
  BY <1>2 DEF lacking, comparing
<1>4. \A m \in Matches : counted(history[m].missed, 0, lacking(m))
  <2>1. Cardinality({}) = 0
    BY FS_EmptySet
  <2> QED BY <1>3, <2>1 DEF counted, FeedInit
<1> QED
  BY <1>1, <1>2, <1>4, EmptyIsAll DEF InferenceInv, ScrapesCounted, NothingCompared, showing,
     comparing, SeenTwiceMissedTwice

LEMMA PollInfers ==
    ASSUME InferenceInv, FeedTypes', NEW r \in Runs, poll(r)
    PROVE  InferenceInv'
<1>0. FeedTypes /\ ScrapesCounted /\ NothingCompared /\ SeenTwiceMissedTwice
  BY DEF InferenceInv
<1>1. PICK rows \in RowSets :
        /\ runs[r].pc = "Idle"
        /\ history' = observed(rows)
        /\ runs'[r].pc = "Track" /\ runs'[r].rows = rows
        /\ runs'[r].next = Empty /\ runs'[r].inferred = Empty
        /\ \A q \in Runs : q # r => runs'[q] = runs[q]
        /\ tracking' = tracking
  BY <1>0, PollStep
<1>2. /\ DOMAIN rows \subseteq Matches /\ inPlay(rows) \subseteq DOMAIN rows
  BY RowSetsAre DEF inPlay
<1>3. \A m \in Matches :
        lacking(m)' = IF m \in DOMAIN rows THEN lacking(m) ELSE lacking(m) \cup {r}
  BY <1>1 DEF lacking, comparing
<1>4. \A m \in Matches, q \in Runs :
        showing(q, m)' <=> IF q = r THEN m \in inPlay(rows) ELSE showing(q, m)
  BY <1>1 DEF showing, comparing, inPlay
<1>5. ASSUME NEW m \in Matches
      PROVE  /\ history[m] \in Histories /\ history'[m] \in Histories
             /\ history'[m].seen >= history[m].seen
             /\ m \in inPlay(rows) =>
                  history'[m].seen >= 1 /\ (history[m].seen >= 1 => history'[m].seen >= 2)
             /\ m \in DOMAIN rows => history'[m].missed = history[m].missed
             /\ m \notin DOMAIN rows => \/ history'[m].missed = history[m].missed + 1
                                     \/ /\ history'[m].missed = history[m].missed
                                        /\ history[m].missed >= MISSING_TICKS_THRESHOLD
  <2>1. history[m] \in Histories /\ history'[m] \in Histories
    BY <1>0 DEF FeedTypes
  <2>2. /\ m \in inPlay(rows) =>
              history'[m].seen >= 1 /\ (history[m].seen >= 1 => history'[m].seen >= 2)
        /\ m \notin inPlay(rows) => history'[m].seen = history[m].seen
        /\ m \in DOMAIN rows => history'[m].missed = history[m].missed
        /\ m \notin DOMAIN rows => \/ history'[m].missed = history[m].missed + 1
                                \/ /\ history'[m].missed = history[m].missed
                                   /\ history[m].missed >= MISSING_TICKS_THRESHOLD
    BY <1>0, <1>1, ObservedIs
  <2>3. history'[m].seen >= history[m].seen
    BY <1>0, <1>1, ObservedIs
  <2> QED BY <2>1, <2>2, <2>3
<1>6. ASSUME NEW m \in Matches, NEW n \in Nat, counted(history[m].missed, n, lacking(m))
      PROVE  counted(history'[m].missed, n, lacking(m)')
  <2>1. history[m].missed \in Nat /\ history'[m].missed \in Nat
    BY <1>5 DEF Histories
  <2>2. CASE m \in DOMAIN rows
    BY <1>3, <1>5, <1>6, <2>2
  <2>3. CASE m \notin DOMAIN rows
    <3>1. counted(history'[m].missed, n, lacking(m) \cup {r})
      BY <1>5, <1>6, <2>1, <2>3, LackingFinite, CountedMore
    <3> QED BY <1>3, <2>3, <3>1
  <2> QED BY <2>2, <2>3
<1>7. ASSUME NEW m \in Matches, NEW e \in Entries, known(e, history[m], isShown(m), lacking(m))
      PROVE  known(e, history'[m], isShown(m)', lacking(m)')
  <2>1. counted(history'[m].missed, e.missing, lacking(m)')
    BY <1>6, <1>7 DEF known, Entries
  <2>2. isShown(m)' => isShown(m) \/ m \in inPlay(rows)
    BY <1>4 DEF isShown
  <2>3. history[m].seen >= 1 /\ (e.confirmed \/ isShown(m) => history[m].seen >= 2)
    BY <1>7 DEF known
  <2>4. history'[m].seen >= 1 /\ (history[m].seen >= 2 => history'[m].seen >= 2)
    BY <1>5, <2>3 DEF Histories
  <2> QED BY <1>5, <2>1, <2>2, <2>3, <2>4 DEF known
<1>8. \A m \in DOMAIN tracking' : believed(tracking, m)'
  BY <1>0, <1>1, <1>7, TrackingsAre DEF believed, ScrapesCounted, FeedTypes
<1>9. \A q \in Runs : \A m \in DOMAIN runs'[q].next : believed(runs[q].next, m)'
  <2> TAKE q \in Runs
  <2>1. CASE q = r
    BY <1>1, <2>1, EmptyIsAll
  <2>2. CASE q # r
    BY <1>0, <1>1, <1>7, <2>2, RunRead, TrackingsAre DEF believed, ScrapesCounted
  <2> QED BY <2>1, <2>2
<1>10. ASSUME NEW m \in Matches
       PROVE  counted(history'[m].missed, 0, lacking(m)')
  BY <1>0, <1>6 DEF ScrapesCounted
<1>11. ASSUME NEW q \in Runs, NEW m \in Matches, showing(q, m)'
       PROVE  history'[m].seen >= 1
  <2>1. CASE q = r
    BY <1>4, <1>5, <1>11, <2>1
  <2>2. CASE q # r
    <3>1. history[m].seen >= 1
      BY <1>0, <1>4, <1>11, <2>2 DEF ScrapesCounted
    <3> QED BY <1>5, <3>1 DEF Histories
  <2> QED BY <2>1, <2>2
<1>12. ASSUME NEW p \in Runs, NEW q \in Runs, NEW m \in Matches, p # q, showing(p, m)', showing(q, m)'
       PROVE  history'[m].seen >= 2
  <2>1. CASE p # r /\ q # r
    <3>1. history[m].seen >= 2
      BY <1>0, <1>4, <1>12, <2>1 DEF ScrapesCounted
    <3> QED BY <1>5, <3>1 DEF Histories
  <2>2. CASE p = r \/ q = r
    <3>1. m \in inPlay(rows) /\ history[m].seen >= 1
      BY <1>0, <1>4, <1>12, <2>2 DEF ScrapesCounted
    <3> QED BY <1>5, <3>1
  <2> QED BY <2>1, <2>2
<1>13. ScrapesCounted'
  BY <1>8, <1>9, <1>10, <1>11, <1>12 DEF ScrapesCounted
<1>14. NothingCompared'
  BY <1>0, <1>1 DEF NothingCompared
<1>15. SeenTwiceMissedTwice'
  <2> SUFFICES ASSUME NEW q \in Runs, NEW m \in DOMAIN runs'[q].inferred
               PROVE  history'[m].seen >= 2 /\ history'[m].missed >= MISSING_TICKS_THRESHOLD
    BY DEF SeenTwiceMissedTwice
  <2>1. q # r /\ m \in DOMAIN runs[q].inferred /\ m \in Matches
    BY <1>0, <1>1, EmptyIsAll, RunRead
  <2>2. history[m].seen >= 2 /\ history[m].missed >= MISSING_TICKS_THRESHOLD
    BY <1>0, <2>1 DEF SeenTwiceMissedTwice
  <2> QED BY <1>5, <2>1, <2>2, FeedAssumption DEF Histories
<1> QED BY <1>13, <1>14, <1>15 DEF InferenceInv

LEMMA ReadInfers ==
    ASSUME InferenceInv, FeedTypes', NEW r \in Runs, readTracking(r)
    PROVE  InferenceInv'
<1>0. FeedTypes /\ ScrapesCounted /\ NothingCompared /\ SeenTwiceMissedTwice
  BY DEF InferenceInv
<1> DEFINE rows == runs[r].rows
<1>1. PICK x \in Trackings :
        /\ comparing(r)
        /\ x = tracking \/ x = Empty
        /\ runs'[r].pc \in {"Save", "Publish"} /\ runs'[r].rows = rows
        /\ runs'[r].next = nextState(x, rows)
        /\ DOMAIN runs'[r].inferred = inferredFinished(x, rows)
        /\ \A q \in Runs : q # r => runs'[q] = runs[q]
        /\ tracking' = tracking /\ history' = history
  BY <1>0, ReadStep
<1>2. /\ rows \in RowSets /\ DOMAIN rows \subseteq Matches
      /\ inPlay(rows) \subseteq DOMAIN rows
  BY <1>0, RunRead DEF inPlay
<1>3. \A m \in Matches :
        lacking(m)' = IF m \in DOMAIN rows THEN lacking(m) ELSE lacking(m) \ {r}
  BY <1>1 DEF lacking, comparing
<1>4. \A m \in Matches : m \notin DOMAIN rows => r \in lacking(m)
  BY <1>1 DEF lacking, comparing
<1>5. \A m \in Matches, q \in Runs : showing(q, m)' <=> q # r /\ showing(q, m)
  BY <1>1 DEF showing, comparing, inPlay
<1>6. \A m \in inPlay(rows) : m \in Matches /\ showing(r, m)
  BY <1>1, <1>2 DEF showing
<1>7. \A m \in DOMAIN x : m \in Matches /\ x[m] \in Entries /\ believed(x, m)
  BY <1>0, <1>1, EmptyIsAll, TrackingsAre DEF ScrapesCounted
<1>8. \A m \in Matches : history[m] \in Histories
  BY <1>0 DEF FeedTypes
<1>9. ASSUME NEW m \in Matches, NEW e \in Entries, known(e, history[m], isShown(m), lacking(m))
      PROVE  known(e, history'[m], isShown(m)', lacking(m)')
  <2>1. lacking(m)' \in SUBSET lacking(m) /\ (isShown(m)' => isShown(m))
    BY <1>3, <1>5 DEF isShown
  <2>2. history'[m].seen >= history[m].seen /\ history'[m].missed >= history[m].missed
        /\ history'[m] \in Histories
    BY <1>1, <1>8 DEF Histories
  <2> QED BY <1>8, <1>9, <2>1, <2>2, LackingFinite, KnownKept
<1>10. \A m \in DOMAIN tracking' : believed(tracking, m)'
  BY <1>0, <1>1, <1>9, TrackingsAre DEF believed, ScrapesCounted, FeedTypes
<1>11. ASSUME NEW m \in Matches
       PROVE  counted(history'[m].missed, 0, lacking(m)')
  <2>1. lacking(m)' \in SUBSET lacking(m)
    BY <1>3
  <2>2. history'[m].missed \in Nat /\ history'[m].missed >= history[m].missed
        /\ history[m].missed \in Nat
    BY <1>1, <1>8 DEF Histories
  <2> QED BY <1>0, <2>1, <2>2, LackingFinite, CountedKept DEF ScrapesCounted
<1>12. ASSUME NEW m \in DOMAIN nextState(x, rows)
       PROVE  known(nextState(x, rows)[m], history'[m], isShown(m)', lacking(m)')
  <2> DEFINE e == nextState(x, rows)[m]
  <2>0. /\ DOMAIN nextState(x, rows) = inPlay(rows) \cup keptMissing(x, rows)
        /\ m \in inPlay(rows) => e.missing = 0 /\ (e.confirmed <=> m \in DOMAIN x)
        /\ m \in keptMissing(x, rows) => /\ e.missing = x[m].missing + 1
                                        /\ e.confirmed = x[m].confirmed
                                        /\ m \in DOMAIN x /\ m \notin DOMAIN rows
    <3> HIDE DEF rows
    <3>1. x \in Trackings /\ rows \in RowSets
      BY <1>2
    <3>2. /\ DOMAIN nextState(x, rows) = inPlay(rows) \cup keptMissing(x, rows)
          /\ keptMissing(x, rows) \subseteq DOMAIN x \ DOMAIN rows
      BY <3>1, NextStateIs
    <3>3. m \in inPlay(rows) => e.missing = 0 /\ (e.confirmed <=> m \in DOMAIN x)
      BY <3>1, NextShown
    <3>4. m \in keptMissing(x, rows) => e.missing = x[m].missing + 1
                                        /\ e.confirmed = x[m].confirmed
      BY <3>1, NextKept
    <3> QED BY <3>2, <3>3, <3>4
  <2> HIDE DEF e
  <2>1. CASE m \in inPlay(rows)
    <3>1. /\ e.missing = 0 /\ (e.confirmed <=> m \in DOMAIN x) /\ m \in Matches /\ showing(r, m)
      BY <1>6, <2>0, <2>1
    <3>2. history'[m].seen >= 1
      BY <1>0, <1>1, <3>1 DEF ScrapesCounted
    <3>3. e.confirmed => history'[m].seen >= 2
      BY <1>1, <1>7, <3>1 DEF believed, known, isShown
    <3>4. isShown(m)' => history'[m].seen >= 2
      BY <1>0, <1>1, <1>5, <3>1 DEF ScrapesCounted, isShown
    <3> QED BY <1>11, <3>1, <3>2, <3>3, <3>4 DEF known, e
  <2>2. CASE m \in keptMissing(x, rows)
    <3>1. /\ e.missing = x[m].missing + 1 /\ e.confirmed = x[m].confirmed
          /\ m \in DOMAIN x /\ m \notin DOMAIN rows
      BY <2>0, <2>2
    <3>2. m \in Matches /\ x[m].missing \in Nat /\ r \in lacking(m)
          /\ history[m].missed \in Nat
      BY <1>4, <1>7, <1>8, <3>1 DEF Entries, Histories
    <3>3. known(x[m], history[m], isShown(m), lacking(m))
      BY <1>7, <3>1 DEF believed
    <3>4. counted(history'[m].missed, x[m].missing + 1, lacking(m)')
      BY <1>1, <1>3, <3>1, <3>2, <3>3, LackingFinite, CountedMoves DEF known
    <3>5. isShown(m)' => isShown(m)
      BY <1>5, <3>2 DEF isShown
    <3>6. known(e, history'[m], isShown(m)', lacking(m)')
      BY <1>1, <3>1, <3>3, <3>4, <3>5 DEF known
    <3> QED BY <3>6 DEF e
  <2> QED BY <1>12, <2>0, <2>1, <2>2
<1>13. \A q \in Runs : \A m \in DOMAIN runs'[q].next : believed(runs[q].next, m)'
  <2> TAKE q \in Runs
  <2>1. CASE q = r
    BY <1>1, <1>12, <2>1 DEF believed
  <2>2. CASE q # r
    BY <1>0, <1>1, <1>9, <2>2, RunRead, TrackingsAre DEF believed, ScrapesCounted
  <2> QED BY <2>1, <2>2
<1>14. ScrapesCounted'
  <2>1. ASSUME NEW q \in Runs, NEW m \in Matches, showing(q, m)'
        PROVE  /\ history'[m].seen >= 1
               /\ \A p \in Runs : q # p /\ showing(p, m)' => history'[m].seen >= 2
    BY <1>0, <1>1, <1>5, <2>1 DEF ScrapesCounted
  <2> QED BY <1>10, <1>11, <1>13, <2>1 DEF ScrapesCounted
<1>15. NothingCompared'
  BY <1>0, <1>1 DEF NothingCompared
<1>16. SeenTwiceMissedTwice'
  <2> SUFFICES ASSUME NEW q \in Runs, NEW m \in DOMAIN runs'[q].inferred
               PROVE  history'[m].seen >= 2 /\ history'[m].missed >= MISSING_TICKS_THRESHOLD
    BY DEF SeenTwiceMissedTwice
  <2>1. CASE q # r
    BY <1>0, <1>1, <2>1 DEF SeenTwiceMissedTwice
  <2>2. CASE q = r
    <3>1. /\ m \in DOMAIN x /\ m \notin DOMAIN rows /\ x[m].confirmed
          /\ x[m].missing + 1 >= MISSING_TICKS_THRESHOLD
      BY <1>1, <2>2 DEF inferredFinished, eligible, missingTicks
    <3>2. /\ m \in Matches /\ x[m].missing \in Nat /\ r \in lacking(m)
          /\ history[m].missed \in Nat
      BY <1>4, <1>7, <1>8, <3>1 DEF Entries, Histories
    <3>3. known(x[m], history[m], isShown(m), lacking(m))
      BY <1>7, <3>1 DEF believed
    <3> QED BY <1>1, <3>1, <3>2, <3>3, LackingFinite, CountedMoves DEF known
  <2> QED BY <2>1, <2>2
<1> QED BY <1>14, <1>15, <1>16 DEF InferenceInv

LEMMA InferenceStep ==
    ASSUME InferenceInv, [FeedNext]_feedVars
    PROVE  InferenceInv'
<1>0. FeedTypes /\ ScrapesCounted /\ NothingCompared /\ SeenTwiceMissedTwice /\ FeedTypes'
  BY TypesStep DEF InferenceInv
<1>1. ASSUME NEW m \in Matches, play(m)
      PROVE  InferenceInv'
  <2>1. UNCHANGED <<tracking, runs, history>>
    BY <1>1 DEF play, matchBecomes
  <2>2. ScrapesCounted'
    BY <1>0, <2>1, ScrapesKept DEF comparing, FeedTypes
  <2> QED BY <1>0, <2>1, <2>2 DEF InferenceInv, NothingCompared, SeenTwiceMissedTwice
<1>2. ASSUME NEW r \in Runs, poll(r)
      PROVE  InferenceInv'
  BY <1>0, <1>2, PollInfers
<1>3. ASSUME NEW r \in Runs, readTracking(r)
      PROVE  InferenceInv'
  BY <1>0, <1>3, ReadInfers
<1>4. ASSUME NEW r \in Runs, publishInferred(r)
      PROVE  InferenceInv'
  <2>1. PICK m \in DOMAIN runs[r].inferred :
           /\ runs'[r].pc \in {"Save", "Publish"} /\ runs'[r].next = runs[r].next
           /\ DOMAIN runs'[r].inferred \subseteq DOMAIN runs[r].inferred
           /\ \A q \in Runs : q # r => runs'[q] = runs[q]
           /\ tracking' = tracking
           /\ \/ history' = history
              \/ history' = [history EXCEPT ![m].inferred = upTo(2, @)]
    BY <1>0, <1>4, PublishStep
  <2>2. /\ history' \in [Matches -> Histories]
        /\ \A n \in Matches : /\ history'[n].seen = history[n].seen
                             /\ history'[n].missed = history[n].missed
    BY <1>0, <2>1 DEF FeedTypes, Histories
  <2>3. ScrapesCounted'
    BY <1>0, <2>1, <2>2, ScrapesKept DEF comparing
  <2>4. NothingCompared'
    BY <1>0, <2>1 DEF NothingCompared
  <2>5. SeenTwiceMissedTwice'
    <3> SUFFICES ASSUME NEW q \in Runs, NEW n \in DOMAIN runs'[q].inferred
                 PROVE  history'[n].seen >= 2 /\ history'[n].missed >= MISSING_TICKS_THRESHOLD
      BY DEF SeenTwiceMissedTwice
    <3>1. n \in DOMAIN runs[q].inferred /\ n \in Matches
      BY <1>0, <2>1, RunRead
    <3> QED BY <1>0, <2>2, <3>1 DEF SeenTwiceMissedTwice
  <2> QED BY <1>0, <2>3, <2>4, <2>5 DEF InferenceInv
<1>5. ASSUME NEW r \in Runs, saveTracking(r)
      PROVE  InferenceInv'
  <2>1. /\ runs'[r].pc = "Rows" /\ runs'[r].next = runs[r].next
        /\ runs'[r].inferred = runs[r].inferred
        /\ \A q \in Runs : q # r => runs'[q] = runs[q]
        /\ tracking' = runs[r].next \/ tracking' = tracking
        /\ history' = history
    BY <1>0, <1>5, SaveStep
  <2>2. ScrapesCounted'
    BY <1>0, <2>1, ScrapesKept DEF comparing, FeedTypes
  <2>3. NothingCompared' /\ SeenTwiceMissedTwice'
    BY <1>0, <2>1 DEF NothingCompared, SeenTwiceMissedTwice
  <2> QED BY <1>0, <2>2, <2>3 DEF InferenceInv
<1>6. ASSUME NEW r \in Runs, publishRows(r)
      PROVE  InferenceInv'
  <2>0. NoRun.pc = "Idle" /\ NoRun.next = Empty /\ NoRun.inferred = Empty
    BY DEF NoRun
  <2>1. /\ runs'[r].pc = "Idle" /\ runs'[r].next = Empty /\ runs'[r].inferred = Empty
        /\ \A q \in Runs : q # r => runs'[q] = runs[q]
        /\ tracking' = tracking /\ history' = history
    BY <1>0, <1>6, <2>0, RowsStep
  <2>2. ScrapesCounted'
    BY <1>0, <2>1, ScrapesKept DEF comparing, FeedTypes
  <2>3. NothingCompared' /\ SeenTwiceMissedTwice'
    BY <1>0, <2>1, EmptyIsAll DEF NothingCompared, SeenTwiceMissedTwice
  <2> QED BY <1>0, <2>2, <2>3 DEF InferenceInv
<1>7. CASE die
  <2>1. /\ \A q \in Runs : /\ runs'[q].pc = "Idle" /\ runs'[q].next = Empty
                          /\ runs'[q].inferred = Empty
        /\ tracking' = tracking /\ history' = history
    BY <1>7 DEF die, NoRun
  <2>2. ScrapesCounted'
    BY <1>0, <2>1, ScrapesKept DEF comparing, FeedTypes
  <2>3. NothingCompared' /\ SeenTwiceMissedTwice'
    BY <1>0, <2>1, EmptyIsAll DEF NothingCompared, SeenTwiceMissedTwice
  <2> QED BY <1>0, <2>2, <2>3 DEF InferenceInv
<1>8. CASE trackingExpires
  <2>1. tracking' = Empty /\ runs' = runs /\ history' = history
    BY <1>8 DEF trackingExpires
  <2>2. ScrapesCounted'
    BY <1>0, <2>1, ScrapesKept DEF comparing, FeedTypes
  <2>3. NothingCompared' /\ SeenTwiceMissedTwice'
    BY <1>0, <2>1 DEF NothingCompared, SeenTwiceMissedTwice
  <2> QED BY <1>0, <2>2, <2>3 DEF InferenceInv
<1>9. CASE UNCHANGED feedVars
  <2>1. UNCHANGED <<tracking, runs, history>>
    BY <1>9 DEF feedVars
  <2>2. ScrapesCounted'
    BY <1>0, <2>1, ScrapesKept DEF comparing, FeedTypes
  <2> QED BY <1>0, <2>1, <2>2 DEF InferenceInv, NothingCompared, SeenTwiceMissedTwice
<1> QED BY <1>1, <1>2, <1>3, <1>4, <1>5, <1>6, <1>7, <1>8, <1>9 DEF FeedNext, runStep

LEMMA InferenceHolds == FeedSpec => []InferenceInv
<1>1. InferenceInv /\ [FeedNext]_feedVars => InferenceInv'
  BY InferenceStep
<1> QED BY InferenceInit, <1>1, PTL DEF FeedSpec

(* Whatever overlaps, dies or fails, a match is inferred finished only after *)
(* two scrapes that listed it and as many as the threshold that did not.   *)
THEOREM FeedSeenTwice == FeedSpec => []SeenTwiceMissedTwice
<1>1. InferenceInv => SeenTwiceMissedTwice
  BY DEF InferenceInv
<1> QED BY InferenceHolds, <1>1, PTL

-----------------------------------------------------------------------------
(* Without a run that was overtaken, died or could not save: one run at a  *)
(* time, and what it holds is what the scrapes in a row have shown         *)

LEMMA QuietBefore ==
    ASSUME faults \subseteq faults', quiet'
    PROVE  quiet
BY DEF quiet

LEMMA QuietInit == FeedInit => QuietInv
BY EmptyIsAll DEF FeedInit, NoRun, QuietInv, OneAtATime, StateCurrent, comparing

(* A step that moves no run, shows nothing and keeps or forgets the saved   *)
(* state.                                                                  *)
LEMMA QuietKept ==
    ASSUME QuietInv, faults \subseteq faults', runs' = runs, history' = history,
           running' = running, tracking' = tracking \/ tracking' = Empty
    PROVE  QuietInv'
<1> SUFFICES ASSUME quiet'
             PROVE  OneAtATime' /\ StateCurrent' /\ \A m \in Matches : history'[m].inferred <= 1
  BY DEF QuietInv
<1>1. OneAtATime /\ StateCurrent /\ \A m \in Matches : history[m].inferred <= 1
  BY QuietBefore DEF QuietInv
<1>2. OneAtATime'
  BY <1>1 DEF OneAtATime
<1>3. CASE tracking' = tracking
  BY <1>1, <1>2, <1>3 DEF StateCurrent, comparing, current, longGone
<1>4. CASE tracking' = Empty
  BY <1>1, <1>2, <1>4, EmptyIsAll DEF StateCurrent, comparing, current, longGone
<1> QED BY <1>3, <1>4

LEMMA QuietPoll ==
    ASSUME InferenceInv, FeedTypes', QuietInv, NEW r \in Runs, poll(r)
    PROVE  QuietInv'
<1>0. FeedTypes /\ NothingCompared
  BY DEF InferenceInv
<1>1. PICK rows \in RowSets :
        /\ runs[r].pc = "Idle"
        /\ history' = observed(rows)
        /\ runs'[r].pc = "Track" /\ runs'[r].rows = rows
        /\ runs'[r].next = Empty /\ runs'[r].inferred = Empty
        /\ \A q \in Runs : q # r => runs'[q] = runs[q]
        /\ tracking' = tracking /\ running' = TRUE
        /\ IF running THEN mayFail("hang") ELSE faults' = faults
  BY <1>0, PollStep
<1> SUFFICES ASSUME quiet'
             PROVE  OneAtATime' /\ StateCurrent' /\ \A m \in Matches : history'[m].inferred <= 1
  BY DEF QuietInv
<1>2. ~running /\ quiet
  BY <1>1 DEF mayFail, quiet
<1>3. OneAtATime /\ StateCurrent /\ \A m \in Matches : history[m].inferred <= 1
  BY <1>2 DEF QuietInv
<1>4. \A q \in Runs : runs[q].pc = "Idle"
  BY <1>2, <1>3 DEF OneAtATime
<1>5. OneAtATime'
  BY <1>1, <1>4 DEF OneAtATime
<1>6. /\ DOMAIN rows \subseteq Matches /\ inPlay(rows) \subseteq DOMAIN rows
  BY RowSetsAre DEF inPlay
<1>7. \A m \in DOMAIN tracking :
        /\ m \in Matches /\ tracking[m].missing \in Nat /\ history[m].gone \in Nat
        /\ current(tracking, m) /\ longGone(m, tracking[m].missing)
  BY <1>0, <1>3, <1>4, TrackingsAre DEF StateCurrent, FeedTypes, Entries, Histories
<1>8. ASSUME NEW m \in DOMAIN tracking, m \notin DOMAIN rows
      PROVE  current(tracking, m)' /\ longGone(m, tracking[m].missing + 1)'
  <2>1. /\ history'[m].score = history[m].score /\ history'[m].inferred = history[m].inferred
        /\ \/ history'[m].gone = history[m].gone + 1
           \/ history'[m].gone = history[m].gone /\ history[m].gone >= MISSING_TICKS_THRESHOLD
    BY <1>0, <1>1, <1>6, <1>7, <1>8, ObservedIs
  <2>2. current(tracking, m)'
    BY <1>1, <1>7, <2>1 DEF current
  <2>3. longGone(m, tracking[m].missing + 1)'
    BY <1>1, <1>7, <2>1, FeedAssumption DEF longGone
  <2> QED BY <2>2, <2>3
<1>9. \A m \in inPlay(rows) : rows[m].score = history'[m].score /\ history'[m].inferred = 0
  BY <1>0, <1>1, ObservedIs
<1>10. \A m \in Matches : history'[m].inferred <= 1
  <2> TAKE m \in Matches
  <2>1. CASE m \in inPlay(rows)
    BY <1>9, <2>1
  <2>2. CASE m \notin inPlay(rows)
    BY <1>0, <1>1, <1>3, <2>2, ObservedIs
  <2> QED BY <2>1, <2>2
<1>11. \A q \in Runs : runs'[q].next = Empty /\ runs'[q].inferred = Empty
                      /\ (q # r => runs'[q].pc = "Idle")
  BY <1>0, <1>1, <1>4 DEF NothingCompared
<1>12. ASSUME NEW q \in Runs, comparing(q)'
       PROVE  /\ \A m \in DOMAIN tracking' \ DOMAIN runs'[q].rows :
                    current(tracking, m)' /\ longGone(m, tracking[m].missing + 1)'
              /\ \A m \in inPlay(runs'[q].rows) : current(runs[q].rows, m)'
  <2>1. q = r
    BY <1>11, <1>12 DEF comparing
  <2>2. runs'[q].rows = rows
    BY <1>1, <2>1
  <2> QED BY <1>1, <1>8, <1>9, <2>2 DEF current
<1>13. StateCurrent'
  <2>1. runs'[r].pc = "Track"
    BY <1>1
  <2>2. \A q \in Runs : runs'[q].pc \in {"Idle", "Track"}
    BY <1>11, <2>1
  <2>3. ~ \A q \in Runs : runs'[q].pc \in {"Idle", "Rows"}
    BY <2>1
  <2>4. \A q \in Runs : comparing(q)' =>
          /\ \A m \in DOMAIN tracking' \ DOMAIN runs'[q].rows :
                current(tracking, m)' /\ longGone(m, tracking[m].missing + 1)'
          /\ \A m \in inPlay(runs'[q].rows) : current(runs[q].rows, m)'
    BY <1>12
  <2>5. \A q \in Runs : ~ (runs'[q].pc \in {"Publish", "Save"}) /\ DOMAIN runs'[q].inferred = {}
    BY <1>11, <2>2, EmptyIsAll
  <2> QED BY <2>3, <2>4, <2>5 DEF StateCurrent
<1> QED BY <1>5, <1>10, <1>13

LEMMA QuietRead ==
    ASSUME InferenceInv, FeedTypes', QuietInv, NEW r \in Runs, readTracking(r)
    PROVE  QuietInv'
<1>0. FeedTypes /\ NothingCompared
  BY DEF InferenceInv
<1> DEFINE rows == runs[r].rows
<1>1. PICK x \in Trackings :
        /\ comparing(r)
        /\ x = tracking \/ x = Empty
        /\ runs'[r].pc \in {"Save", "Publish"}
        /\ runs'[r].next = nextState(x, rows)
        /\ DOMAIN runs'[r].inferred = inferredFinished(x, rows)
        /\ \A m \in inferredFinished(x, rows) : runs'[r].inferred[m] = x[m].score
        /\ \A q \in Runs : q # r => runs'[q] = runs[q]
        /\ tracking' = tracking /\ history' = history /\ running' = running
        /\ faults \subseteq faults'
  BY <1>0, ReadStep
<1> SUFFICES ASSUME quiet'
             PROVE  OneAtATime' /\ StateCurrent' /\ \A m \in Matches : history'[m].inferred <= 1
  BY DEF QuietInv
<1>2. OneAtATime /\ StateCurrent /\ \A m \in Matches : history[m].inferred <= 1
  BY <1>1, QuietBefore DEF QuietInv
<1>3. \A q \in Runs : q # r => runs[q].pc = "Idle"
  BY <1>1, <1>2 DEF OneAtATime, comparing
<1>4. OneAtATime'
  BY <1>1, <1>2, <1>3 DEF OneAtATime, comparing
<1>5. /\ rows \in RowSets /\ DOMAIN rows \subseteq Matches /\ inPlay(rows) \subseteq DOMAIN rows
  BY <1>0, RunRead DEF inPlay
<1>6. \A m \in DOMAIN x \ DOMAIN rows :
        /\ m \in Matches /\ x[m].missing \in Nat /\ history[m].gone \in Nat
        /\ current(x, m) /\ longGone(m, x[m].missing + 1)
  BY <1>0, <1>1, <1>2, EmptyIsAll, TrackingsAre DEF StateCurrent, FeedTypes, Entries, Histories
<1>7. \A m \in inPlay(rows) : m \in Matches /\ current(rows, m) /\ history[m].gone \in Nat
  BY <1>0, <1>1, <1>2, <1>5 DEF StateCurrent, FeedTypes, Histories
<1> HIDE DEF rows
<1>8. /\ DOMAIN nextState(x, rows) = inPlay(rows) \cup keptMissing(x, rows)
      /\ keptMissing(x, rows) \subseteq DOMAIN x \ DOMAIN rows
  BY <1>5, NextStateIs
<1>9. ASSUME NEW m \in DOMAIN nextState(x, rows)
      PROVE  /\ nextState(x, rows)[m].score = history[m].score /\ history[m].inferred = 0
             /\ longGone(m, nextState(x, rows)[m].missing)
  <2>1. CASE m \in inPlay(rows)
    BY <1>5, <1>7, <2>1, NextShown DEF current, longGone
  <2>2. CASE m \in keptMissing(x, rows)
    BY <1>5, <1>6, <1>8, <2>2, NextKept DEF current, longGone
  <2> QED BY <1>8, <2>1, <2>2
<1>10. ASSUME NEW m \in inferredFinished(x, rows)
       PROVE  /\ m \notin DOMAIN nextState(x, rows) /\ history[m].inferred = 0
              /\ x[m].score = history[m].score
              /\ history[m].gone >= MISSING_TICKS_THRESHOLD
  <2>1. /\ m \in DOMAIN x \ DOMAIN rows /\ x[m].missing + 1 >= MISSING_TICKS_THRESHOLD
        /\ m \notin keptMissing(x, rows)
    BY DEF inferredFinished, keptMissing, missingTicks
  <2>2. m \notin DOMAIN nextState(x, rows)
    BY <1>5, <1>8, <2>1
  <2> QED BY <1>6, <2>1, <2>2, FeedAssumption DEF current, longGone
<1>11. \A q \in Runs : q # r => /\ runs'[q].pc = "Idle"
                               /\ runs'[q].next = Empty /\ runs'[q].inferred = Empty
  BY <1>0, <1>1, <1>3 DEF NothingCompared
<1>12. \A q \in Runs : \A m \in DOMAIN runs'[q].next :
          current(runs[q].next, m)' /\ longGone(m, runs[q].next[m].missing)'
  <2> TAKE q \in Runs
  <2>1. CASE q = r
    BY <1>1, <1>9, <2>1 DEF current, longGone
  <2>2. CASE q # r
    BY <1>11, <2>2, EmptyIsAll
  <2> QED BY <2>1, <2>2
<1>13. \A q \in Runs : \A m \in DOMAIN runs'[q].inferred :
          /\ m \notin DOMAIN runs'[q].next /\ history'[m].inferred = 0
          /\ runs'[q].inferred[m] = history'[m].score
          /\ history'[m].gone >= MISSING_TICKS_THRESHOLD
  <2> TAKE q \in Runs
  <2>1. CASE q = r
    BY <1>1, <1>10, <2>1
  <2>2. CASE q # r
    BY <1>11, <2>2, EmptyIsAll
  <2> QED BY <2>1, <2>2
<1>14. StateCurrent'
  <2>1. \A q \in Runs : ~comparing(q)'
    BY <1>1, <1>11 DEF comparing
  <2> QED BY <1>1, <1>12, <1>13, <2>1 DEF StateCurrent
<1> QED BY <1>1, <1>2, <1>4, <1>14

LEMMA QuietPublish ==
    ASSUME InferenceInv, FeedTypes', QuietInv, NEW r \in Runs, publishInferred(r)
    PROVE  QuietInv'
<1>0. FeedTypes /\ NothingCompared
  BY DEF InferenceInv
<1>1. PICK m \in DOMAIN runs[r].inferred :
        /\ runs[r].pc = "Publish"
        /\ runs'[r].pc \in {"Save", "Publish"} /\ runs'[r].next = runs[r].next
        /\ DOMAIN runs'[r].inferred = DOMAIN runs[r].inferred \ {m}
        /\ \A n \in DOMAIN runs'[r].inferred : runs'[r].inferred[n] = runs[r].inferred[n]
        /\ \A q \in Runs : q # r => runs'[q] = runs[q]
        /\ tracking' = tracking /\ running' = running
        /\ \/ history' = history
           \/ history' = [history EXCEPT ![m].inferred = upTo(2, @)]
        /\ faults \subseteq faults'
  BY <1>0, PublishStep
<1> SUFFICES ASSUME quiet'
             PROVE  OneAtATime' /\ StateCurrent' /\ \A n \in Matches : history'[n].inferred <= 1
  BY DEF QuietInv
<1>2. OneAtATime /\ StateCurrent /\ \A n \in Matches : history[n].inferred <= 1
  BY <1>1, QuietBefore DEF QuietInv
<1>3. \A q \in Runs : q # r => runs[q].pc = "Idle"
  BY <1>1, <1>2 DEF OneAtATime
<1>4. OneAtATime'
  BY <1>1, <1>2, <1>3 DEF OneAtATime
<1>5. \A n \in Matches :
        /\ history'[n].score = history[n].score
        /\ history'[n].gone = history[n].gone
        /\ n # m => history'[n].inferred = history[n].inferred
  BY <1>0, <1>1 DEF FeedTypes, Histories
<1>6. m \in Matches /\ history[m].inferred = 0 /\ m \notin DOMAIN runs[r].next
  BY <1>0, <1>1, <1>2, RunRead DEF StateCurrent
<1>7. \A n \in Matches : history'[n].inferred <= 1
  <2>1. upTo(2, 0) = 1
    BY DEF upTo
  <2>2. history'[m].inferred \in {0, 1}
    BY <1>0, <1>1, <1>6, <2>1 DEF FeedTypes, Histories
  <2>3. ASSUME NEW n \in Matches, n # m
        PROVE  history'[n].inferred <= 1
    BY <1>2, <1>5, <2>3
  <2> QED BY <2>2, <2>3
<1>8. \A q \in Runs : q # r => /\ runs'[q].pc = "Idle"
                              /\ runs'[q].next = Empty /\ runs'[q].inferred = Empty
  BY <1>0, <1>1, <1>3 DEF NothingCompared
<1>9. \A q \in Runs : \A n \in DOMAIN runs'[q].next :
         current(runs[q].next, n)' /\ longGone(n, runs[q].next[n].missing)'
  <2> TAKE q \in Runs
  <2>1. CASE q = r
    <3> SUFFICES ASSUME NEW n \in DOMAIN runs[r].next
                 PROVE  current(runs[r].next, n)' /\ longGone(n, runs[r].next[n].missing)'
      BY <1>1, <2>1
    <3>1. n \in Matches /\ n # m
      BY <1>0, <1>6, RunRead
    <3>2. current(runs[r].next, n) /\ longGone(n, runs[r].next[n].missing)
      BY <1>1, <1>2 DEF StateCurrent
    <3>3. /\ runs'[r].next = runs[r].next /\ history'[n].score = history[n].score
          /\ history'[n].gone = history[n].gone /\ history'[n].inferred = history[n].inferred
      BY <1>1, <1>5, <3>1
    <3> QED BY <3>2, <3>3 DEF current, longGone
  <2>2. CASE q # r
    BY <1>8, <2>2, EmptyIsAll
  <2> QED BY <2>1, <2>2
<1>10. \A q \in Runs : \A n \in DOMAIN runs'[q].inferred :
          /\ n \notin DOMAIN runs'[q].next /\ history'[n].inferred = 0
          /\ runs'[q].inferred[n] = history'[n].score
          /\ history'[n].gone >= MISSING_TICKS_THRESHOLD
  <2> TAKE q \in Runs
  <2>1. CASE q = r
    <3> SUFFICES ASSUME NEW n \in DOMAIN runs[r].inferred, n # m
                 PROVE  /\ n \notin DOMAIN runs[r].next /\ history'[n].inferred = 0
                        /\ runs[r].inferred[n] = history'[n].score
                        /\ history'[n].gone >= MISSING_TICKS_THRESHOLD
      BY <1>1, <2>1
    <3>1. n \in Matches
      BY <1>0, RunRead
    <3>2. /\ n \notin DOMAIN runs[r].next /\ history[n].inferred = 0
          /\ runs[r].inferred[n] = history[n].score
          /\ history[n].gone >= MISSING_TICKS_THRESHOLD
      BY <1>2 DEF StateCurrent
    <3>3. /\ history'[n].score = history[n].score
          /\ history'[n].gone = history[n].gone /\ history'[n].inferred = history[n].inferred
      BY <1>5, <3>1
    <3> QED BY <3>2, <3>3
  <2>2. CASE q # r
    BY <1>8, <2>2, EmptyIsAll
  <2> QED BY <2>1, <2>2
<1>11. StateCurrent'
  <2>1. \A q \in Runs : ~comparing(q)'
    BY <1>1, <1>8 DEF comparing
  <2> QED BY <1>1, <1>9, <1>10, <2>1 DEF StateCurrent
<1> QED BY <1>4, <1>7, <1>11

LEMMA QuietSave ==
    ASSUME InferenceInv, QuietInv, NEW r \in Runs, saveTracking(r)
    PROVE  QuietInv'
<1>0. FeedTypes
  BY DEF InferenceInv
<1> SUFFICES ASSUME quiet'
             PROVE  OneAtATime' /\ StateCurrent' /\ \A m \in Matches : history'[m].inferred <= 1
  BY DEF QuietInv
<1>1. /\ runs[r].pc = "Save"
      /\ tracking' = runs[r].next /\ faults' = faults
      /\ runs'[r].pc = "Rows" /\ runs'[r].next = runs[r].next
      /\ runs'[r].inferred = runs[r].inferred
      /\ \A q \in Runs : q # r => runs'[q] = runs[q]
      /\ running' = running /\ history' = history
  BY <1>0, SaveStep DEF quiet
<1>2. OneAtATime /\ StateCurrent /\ \A m \in Matches : history[m].inferred <= 1
  BY <1>1, QuietBefore DEF QuietInv
<1>3. \A q \in Runs : q # r => runs[q].pc = "Idle"
  BY <1>1, <1>2 DEF OneAtATime
<1>4. OneAtATime'
  BY <1>1, <1>2, <1>3 DEF OneAtATime
<1>5. \A q \in Runs : ~comparing(q)' /\ ~ (runs'[q].pc \in {"Publish", "Save"})
  BY <1>1, <1>3 DEF comparing
<1>6. \A m \in DOMAIN tracking' : current(tracking, m)' /\ longGone(m, tracking[m].missing)'
  BY <1>1, <1>2 DEF StateCurrent, current, longGone
<1>7. \A q \in Runs : runs'[q].next = runs[q].next /\ runs'[q].inferred = runs[q].inferred
  BY <1>1
<1>8. StateCurrent'
  BY <1>1, <1>2, <1>5, <1>6, <1>7 DEF StateCurrent
<1> QED BY <1>1, <1>2, <1>4, <1>8

LEMMA QuietRows ==
    ASSUME InferenceInv, QuietInv, NEW r \in Runs, publishRows(r)
    PROVE  QuietInv'
<1>0. FeedTypes /\ NothingCompared
  BY DEF InferenceInv
<1>1. NoRun.pc = "Idle" /\ NoRun.next = Empty /\ NoRun.inferred = Empty
  BY DEF NoRun
<1>2. /\ runs[r].pc = "Rows" /\ runs'[r].pc = "Idle"
      /\ runs'[r].next = Empty /\ runs'[r].inferred = Empty
      /\ \A q \in Runs : q # r => runs'[q] = runs[q]
      /\ running' = FALSE /\ tracking' = tracking /\ history' = history
      /\ faults' = faults
  BY <1>0, <1>1, RowsStep
<1> SUFFICES ASSUME quiet'
             PROVE  OneAtATime' /\ StateCurrent' /\ \A m \in Matches : history'[m].inferred <= 1
  BY DEF QuietInv
<1>3. OneAtATime /\ StateCurrent /\ \A m \in Matches : history[m].inferred <= 1
  BY <1>2, QuietBefore DEF QuietInv
<1>4. \A q \in Runs : q # r => runs[q].pc = "Idle"
  BY <1>2, <1>3 DEF OneAtATime
<1>5. \A q \in Runs : runs'[q].pc = "Idle" /\ runs'[q].inferred = Empty
  BY <1>0, <1>2, <1>4 DEF NothingCompared
<1>6. OneAtATime'
  BY <1>2, <1>5 DEF OneAtATime
<1>7. \A m \in DOMAIN tracking' : current(tracking, m)' /\ longGone(m, tracking[m].missing)'
  BY <1>2, <1>3, <1>4 DEF StateCurrent, current, longGone
<1>8. StateCurrent'
  BY <1>5, <1>7, EmptyIsAll DEF StateCurrent, comparing
<1> QED BY <1>2, <1>3, <1>6, <1>8

LEMMA QuietStep ==
    ASSUME InferenceInv, QuietInv, [FeedNext]_feedVars
    PROVE  QuietInv'
<1>0. FeedTypes /\ FeedTypes'
  BY TypesStep DEF InferenceInv
<1>1. ASSUME NEW m \in Matches, play(m)
      PROVE  QuietInv'
  <2>1. UNCHANGED <<tracking, running, runs, history, faults>>
    BY <1>1 DEF play, matchBecomes
  <2> QED BY <2>1, QuietKept
<1>2. ASSUME NEW r \in Runs, poll(r)
      PROVE  QuietInv'
  BY <1>0, <1>2, QuietPoll
<1>3. ASSUME NEW r \in Runs, readTracking(r)
      PROVE  QuietInv'
  BY <1>0, <1>3, QuietRead
<1>4. ASSUME NEW r \in Runs, publishInferred(r)
      PROVE  QuietInv'
  BY <1>0, <1>4, QuietPublish
<1>5. ASSUME NEW r \in Runs, saveTracking(r)
      PROVE  QuietInv'
  BY <1>5, QuietSave
<1>6. ASSUME NEW r \in Runs, publishRows(r)
      PROVE  QuietInv'
  BY <1>6, QuietRows
<1>7. CASE die
  BY <1>7 DEF die, QuietInv, quiet
<1>8. CASE trackingExpires
  <2>1. /\ tracking' = Empty /\ faults \subseteq faults'
        /\ UNCHANGED <<running, runs, history>>
    BY <1>8 DEF trackingExpires, mayFail
  <2> QED BY <2>1, QuietKept
<1>9. CASE UNCHANGED feedVars
  <2>1. UNCHANGED <<tracking, running, runs, history, faults>>
    BY <1>9 DEF feedVars
  <2> QED BY <2>1, QuietKept
<1> QED BY <1>1, <1>2, <1>3, <1>4, <1>5, <1>6, <1>7, <1>8, <1>9 DEF FeedNext, runStep

LEMMA QuietHolds == FeedSpec => []QuietInv
<1>1. InferenceInv /\ QuietInv /\ [FeedNext]_feedVars => QuietInv'
  BY QuietStep
<1> QED BY InferenceHolds, QuietInit, <1>1, PTL DEF FeedSpec

(* A match is inferred finished with the last score a scrape showed, and    *)
(* after as many scrapes in a row without it as the threshold, unless a    *)
(* run was overtaken, died or could not save.                              *)
THEOREM FeedLastScore == FeedSpec => []LastScoreAfterGap
<1>1. QuietInv => LastScoreAfterGap
  BY DEF QuietInv, quiet, StateCurrent, LastScoreAfterGap
<1> QED BY QuietHolds, <1>1, PTL

(* A disappearance is published once, unless a run was overtaken, died or   *)
(* could not save after publishing it.                                     *)
THEOREM FeedPublishedOnce == FeedSpec => []PublishedOnce
<1>1. QuietInv => PublishedOnce
  BY DEF QuietInv, quiet, PublishedOnce
<1> QED BY QuietHolds, <1>1, PTL
=============================================================================
