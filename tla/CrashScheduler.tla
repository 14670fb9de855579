--------------------------- MODULE CrashScheduler ---------------------------
(***************************************************************************)
(* src/workers/crash-scheduler.worker.ts driving CrashGame, with the rows  *)
(* the join route records (src/app/api/casino/crash/join/route.ts) and the *)
(* worker reconciles.                                                      *)
(*                                                                         *)
(* The worker is one process.  It awaits a transaction at each step of     *)
(* runRound, keeps the round's seed in memory only, and can fail at each   *)
(* await: the process dies (Die; systemd restarts it, Boot), the call is   *)
(* not mined (CallFails), or it is mined but its receipt never arrives     *)
(* (ReceiptLost).  Faults happen at the pcs in FaultPoints, at most        *)
(* MaxFaults times.                                                        *)
(***************************************************************************)
EXTENDS CrashGame

CONSTANTS
    MaxFaults,       \* bound on faults
    DeathPoints,     \* pcs at which the process may die
    ErrorPoints,     \* pcs at which a call may fail or lose its receipt
    LateRows         \* whether the join request may reach the app after the round

Rounds == 1..MaxRounds
Pcs == {"Down", "Recover", "ReconcileCancelled", "Start", "Waiting", "Flying",
        "Publish", "Paused"}

ASSUME SchedulerAssumption ==
    /\ MaxFaults \in Nat
    /\ DeathPoints \subseteq Pcs
    /\ ErrorPoints \subseteq Pcs
    /\ LateRows \in BOOLEAN

VARIABLES
    pc,          \* where the worker is
    held,        \* the round id and seed runRound holds in memory
    receipt,     \* payouts decoded from the last resolveRound receipt
    rows,        \* CasinoBet rows: status per player and round (nonce)
    fate,        \* history: what the chain did with each player's stake
    faults       \* faults so far

workerVars == <<pc, held, receipt, rows, fate, faults>>
schedVars  == <<crashVars, workerVars>>

NothingHeld == [id |-> 0, seed |-> 0]
NoReceipt   == [p \in Players |-> 0]
perRound(x) == [p \in Players |-> [r \in Rounds |-> x]]

SchedInit ==
    /\ CrashInit
    /\ pc = "Recover"
    /\ held = NothingHeld
    /\ receipt = NoReceipt
    /\ rows = perRound("None")
    /\ fate = perRound("None")
    /\ faults = 0

-----------------------------------------------------------------------------
(* What a transaction does to the stakes of the current round's players *)

fateOf(newFate) ==
    [p \in Players |-> IF p \in joined
                       THEN [fate[p] EXCEPT ![currentRoundId] = newFate[p]]
                       ELSE fate[p]]

credited(p) == pendingPayout'[p] - pendingPayout[p]
wonOrLost == [p \in Players |-> IF credited(p) > 0 THEN "Won" ELSE "Lost"]
refunded  == [p \in Players |-> "Refunded"]

callStart == \E s \in Seeds : startRound(s) /\ UNCHANGED fate
callLock == lockRound /\ UNCHANGED fate
callResolve == held.seed = round.seed /\ resolveRound /\ fate' = fateOf(wonOrLost)
callCancel(cancel) == cancel /\ fate' = fateOf(refunded)

-----------------------------------------------------------------------------
(* bootstrap and recoverStuckRounds *)

timedOut == clock > round.startedAt + ROUND_TIMEOUT

recoverPending ==
    /\ pc = "Recover"
    /\ round.status = "Pending"
    /\ callCancel(cancelPendingRound)
    /\ held' = [id |-> currentRoundId, seed |-> 0]
    /\ pc' = "ReconcileCancelled"
    /\ UNCHANGED <<receipt, rows, faults>>

recoverRunning ==
    /\ pc = "Recover"
    /\ round.status = "Running" /\ timedOut
    /\ callCancel(cancelStuckRound)
    /\ held' = [id |-> currentRoundId, seed |-> 0]
    /\ pc' = "ReconcileCancelled"
    /\ UNCHANGED <<receipt, rows, faults>>

(* Nothing to do, which includes a round that is running but not yet past  *)
(* its timeout: the check is made once per process.                        *)
recoverNothing ==
    /\ pc = "Recover"
    /\ round.status \notin {"Pending"}
    /\ ~(round.status = "Running" /\ timedOut)
    /\ pc' = "Start"
    /\ UNCHANGED <<crashVars, held, receipt, rows, fate, faults>>

(* Variant of setRows: pending rows of every round are taken for this      *)
(* one.                                                                    *)
setRowsAnyRound(r, newStatus) ==
    rows' = [p \in Players |-> [q \in Rounds |-> IF rows[p][q] = "PENDING"
                                                   THEN newStatus[p] ELSE rows[p][q]]]

setRows(r, newStatus) ==
    rows' = [p \in Players |-> IF rows[p][r] = "PENDING"
                               THEN [rows[p] EXCEPT ![r] = newStatus[p]] ELSE rows[p]]

rowRefunded == [p \in Players |-> "REFUNDED"]
rowSettled  == [p \in Players |-> IF receipt[p] > 0 THEN "WON" ELSE "LOST"]

(* Variant of reconcileCancelledBets: the rows are not refunded. *)
reconcileNothing ==
    /\ pc = "ReconcileCancelled"
    /\ pc' = "Start"
    /\ held' = NothingHeld
    /\ UNCHANGED <<crashVars, rows, receipt, fate, faults>>

reconcileCancelledBets ==
    /\ pc = "ReconcileCancelled"
    /\ setRows(held.id, rowRefunded)
    /\ pc' = "Start"
    /\ held' = NothingHeld
    /\ UNCHANGED <<crashVars, receipt, fate, faults>>

-----------------------------------------------------------------------------
(* runRound *)

(* Variant of runStart: the round id is read before the transaction. *)
runStartReadsIdBefore ==
    /\ pc = "Start"
    /\ callStart
    /\ held' = [id |-> currentRoundId, seed |-> round'.seed]
    /\ pc' = "Waiting"
    /\ UNCHANGED <<receipt, rows, faults>>

runStart ==
    /\ pc = "Start"
    /\ callStart
    /\ held' = [id |-> currentRoundId', seed |-> round'.seed]
    /\ pc' = "Waiting"
    /\ UNCHANGED <<receipt, rows, faults>>

(* startRound reverts with PendingRoundExists; the loop logs and retries. *)
startReverts ==
    /\ pc = "Start"
    /\ isUnresolved \/ paused
    /\ pc' = "Paused"
    /\ UNCHANGED <<crashVars, held, receipt, rows, fate, faults>>

(* Variant of runLock: the worker waits for the game to be unpaused.        *)
runLockUnlessPaused ==
    /\ pc = "Waiting" /\ ~paused
    /\ callLock
    /\ pc' = "Flying"
    /\ UNCHANGED <<held, receipt, rows, faults>>

runLock ==
    /\ pc = "Waiting"
    /\ callLock
    /\ pc' = "Flying"
    /\ UNCHANGED <<held, receipt, rows, faults>>

runResolve ==
    /\ pc = "Flying"
    /\ callResolve
    /\ receipt' = [p \in Players |-> credited(p)]
    /\ pc' = "Publish"
    /\ UNCHANGED <<held, rows, faults>>

reconcilePendingBets ==
    /\ pc = "Publish"
    /\ setRows(held.id, rowSettled)
    /\ pc' = "Start"
    /\ held' = NothingHeld
    /\ receipt' = NoReceipt
    /\ UNCHANGED <<crashVars, fate, faults>>

retryAfterPause ==
    /\ pc = "Paused"
    /\ pc' = "Start"
    /\ UNCHANGED <<crashVars, held, receipt, rows, fate, faults>>

workerStep ==
    \/ recoverPending \/ recoverRunning \/ recoverNothing \/ reconcileCancelledBets
    \/ runStart \/ startReverts \/ runLock \/ runResolve \/ reconcilePendingBets
    \/ retryAfterPause

-----------------------------------------------------------------------------
(* Faults *)

(* Where the catch around the awaited call leaves the worker: recovery and *)
(* reconciliation errors are swallowed, runRound's restart the loop.       *)
afterError ==
    IF pc \in {"Recover", "ReconcileCancelled", "Publish"} THEN "Start" ELSE "Paused"

lostMemory == held' = NothingHeld /\ receipt' = NoReceipt

Die ==
    /\ pc \in DeathPoints
    /\ faults < MaxFaults
    /\ faults' = faults + 1
    /\ pc' = "Down"
    /\ lostMemory
    /\ UNCHANGED <<crashVars, rows, fate>>

Boot ==
    /\ pc = "Down"
    /\ pc' = "Recover"
    /\ UNCHANGED <<crashVars, held, receipt, rows, fate, faults>>

CallFails ==
    /\ pc \in ErrorPoints
    /\ faults < MaxFaults
    /\ faults' = faults + 1
    /\ pc' = afterError
    /\ lostMemory
    /\ UNCHANGED <<crashVars, rows, fate>>

ReceiptLost ==
    /\ pc \in ErrorPoints
    /\ faults < MaxFaults
    /\ faults' = faults + 1
    /\ \/ pc = "Start" /\ callStart
       \/ pc = "Waiting" /\ callLock
       \/ pc = "Flying" /\ callResolve
    /\ pc' = afterError
    /\ lostMemory
    /\ UNCHANGED rows

-----------------------------------------------------------------------------
(* Players, through the app, and everything else that happens on chain *)

playerJoins ==
    /\ \E p \in Players, a \in StakeChoices, x \in AutoChoices :
          /\ joinRound(p, a, x)
          /\ fate' = [fate EXCEPT ![p][currentRoundId] = "Joined"]
    /\ UNCHANGED <<pc, held, receipt, rows, faults>>

(* The join route verifies the receipt and records the row; the request    *)
(* comes after the transaction, however long the client takes.             *)
recordJoin(p, r) ==
    /\ fate[p][r] # "None"
    /\ LateRows \/ fate[p][r] = "Joined"
    /\ rows[p][r] = "None"
    /\ rows' = [rows EXCEPT ![p][r] = "PENDING"]
    /\ UNCHANGED <<crashVars, pc, held, receipt, fate, faults>>

onChainOnly ==
    /\ \/ \E p \in Players, x \in CashOutChoices : cashOut(p, x)
       \/ \E p \in Players : claim(p)
       \/ \E a \in BankrollChoices : depositBankroll(a)
       \/ \E v \in PauseChoices : setPaused(v)
    /\ UNCHANGED workerVars

timePasses == Advance /\ UNCHANGED workerVars

SchedNext ==
    \/ recoverPending
    \/ recoverRunning
    \/ recoverNothing
    \/ reconcileCancelledBets
    \/ runStart
    \/ startReverts
    \/ runLock
    \/ runResolve
    \/ reconcilePendingBets
    \/ retryAfterPause
    \/ Die
    \/ Boot
    \/ CallFails
    \/ ReceiptLost
    \/ playerJoins
    \/ \E p \in Players, r \in Rounds : recordJoin(p, r)
    \/ onChainOnly
    \/ timePasses

(* The worker is always running something or awaiting a call that is mined *)
(* or fails, systemd restarts it, and time passes.  Nobody has to join,    *)
(* cash out or claim.                                                      *)
SchedSpec ==
    /\ SchedInit /\ [][SchedNext]_schedVars
    /\ WF_schedVars(workerStep)
    /\ WF_schedVars(Boot)
    /\ WF_schedVars(timePasses)

-----------------------------------------------------------------------------
(* Properties *)

(* A settled row says what the chain did with that player's stake in that  *)
(* round, however the worker was interrupted between the transaction and   *)
(* its reconciliation.                                                     *)
RowsAgreeWithChain ==
    \A p \in Players, r \in Rounds :
        /\ rows[p][r] = "WON"  => fate[p][r] = "Won"
        /\ rows[p][r] = "LOST" => fate[p][r] = "Lost"
        /\ rows[p][r] = "REFUNDED" => fate[p][r] = "Refunded"

(* A round the worker is awaiting is the chain's current round and still   *)
(* unresolved with the seed the worker holds, so its next call cannot      *)
(* revert and the round can be resolved.                                   *)
HeldRoundIsCurrent ==
    pc \in {"Waiting", "Flying"} =>
        /\ held.id = currentRoundId
        /\ held.seed = round.seed
        /\ round.status = IF pc = "Waiting" THEN "Pending" ELSE "Running"

(* Past recovery, the worker runs without holding the unresolved round.    *)
orphaned == isUnresolved /\ held.id # currentRoundId /\ pc \notin {"Down", "Recover"}

(* Every round that takes stakes comes to an end, resolved or refunded.    *)
(* Whatever fails and whenever the process dies, it can miss its end in    *)
(* one way only: the loop carries on without the round's seed.  A          *)
(* restart by itself loses no round that it finds pending or timed out.    *)
RoundsEndOrAreOrphaned ==
    \A r \in Rounds : (currentRoundId = r /\ isUnresolved)
                          ~> (currentRoundId # r \/ ~isUnresolved \/ orphaned)

(* join/route.ts:22-25: the worker reconciles a recorded row "once the     *)
(* round resolves": a row recorded while the worker holds its round leaves *)
(* PENDING unless another fault intervenes.                                *)
RowsReconciled ==
    \A p \in Players, r \in Rounds, f \in 0..MaxFaults :
        (rows[p][r] = "PENDING" /\ held.id = r /\ faults = f)
            ~> (rows[p][r] # "PENDING" \/ faults # f)
=============================================================================
