-------------------------- MODULE LocalPump_proofs --------------------------
(***************************************************************************)
(* What the local pump guarantees for every pool, every set of commands    *)
(* and every bound.                                                        *)
(***************************************************************************)
EXTENDS LocalPump, FiniteSetTheorems, TLAPS

Ready(state) == {p \in Pool : state.slot[p] = "ready"}

\* The handle is the thread that pumps, if any does.
HandleHeld == \A t \in PumpThreads : IsAlive(t) => handle = t

\* What a batch may add to the outcomes, and to the claims after a shutdown
\* request, is still within its bound.
BatchFits(state, claims) ==
    state.pc = "batch" =>
       /\ state.outcomes + Cardinality(Batch(state)) <= MaxJobs
       /\ claims + Cardinality(Ready(state)) <= Cardinality(Pool)

LateCounts ==
    /\ ~shutdown => late = 0
    /\ late <= Cardinality(Pool)

PumpInv ==
    /\ PumpTypeOK
    /\ HandleHeld
    /\ \A t \in PumpThreads : BatchFits(pump[t], late)
    /\ LateCounts

LEMMA PoolFinite ==
  /\ Cardinality(Pool) \in Nat
  /\ \A S \in SUBSET Pool : /\ IsFiniteSet(S)
                            /\ Cardinality(S) \in Nat
                            /\ Cardinality(S) <= Cardinality(Pool)
  BY PumpAssumption, FS_Subset, FS_CardinalityType

LEMMA MinOfTwo ==
  ASSUME NEW a \in Int, NEW b \in Int
  PROVE  Min({a, b}) <= b
<1>1. \E x \in {a, b} : \A y \in {a, b} : x <= y
  OBVIOUS
<1> QED
  BY <1>1 DEF Min

\* The states a pump goes through.
LEMMA SmallStates ==
  /\ DeadPump \in PumpState /\ DeadPump.pc = "dead"
  /\ StartedPump \in PumpState /\ StartedPump.pc = "check"
  BY PumpAssumption DEF DeadPump, StartedPump, PumpState, NoBatch, Slot

LEMMA LeavingState ==
  ASSUME NEW s \in PumpState
  PROVE  Leaving(s) \in PumpState /\ Leaving(s).pc = "leave"
<1>1. NoBatch \in [Pool -> Slot]
  BY DEF NoBatch, Slot
<1> QED
  BY <1>1, Zenon DEF Leaving, PumpState

LEMMA BatchedState ==
  ASSUME NEW s \in PumpState, NEW batch \in SUBSET Pool
  PROVE  LET n == Batched(s, batch)
         IN /\ n \in PumpState
            /\ n.pc = "batch"
            /\ n.outcomes = s.outcomes
            /\ Batch(n) = batch
            /\ Ready(n) = batch
<1> DEFINE slot == [p \in Pool |-> IF p \in batch THEN "ready" ELSE "off"]
           n == Batched(s, batch)
<1>1. slot \in [Pool -> Slot]
  BY DEF Slot
<1>2. /\ n \in PumpState
      /\ n.pc = "batch"
      /\ n.outcomes = s.outcomes
      /\ n.slot = slot
  BY <1>1, Zenon DEF Batched, PumpState
<1>3. Batch(n) = batch /\ Ready(n) = batch
  BY <1>2 DEF Batch, Ready
<1> QED
  BY <1>2, <1>3

\* A worker of the batch goes on: it stays in the batch and is not ready.
LEMMA SlotState ==
  ASSUME NEW s \in PumpState, NEW p \in Pool, NEW what \in Slot,
         what \notin {"off", "ready"}, s.slot[p] # "off"
  PROVE  LET n == WithSlot(s, p, what)
         IN /\ n \in PumpState
            /\ n.pc = s.pc
            /\ n.outcomes = s.outcomes
            /\ Batch(n) = Batch(s)
            /\ Ready(n) = Ready(s) \ {p}
<1> DEFINE n == WithSlot(s, p, what)
           slot == [s.slot EXCEPT ![p] = what]
<1>1. s.slot \in [Pool -> Slot] /\ slot \in [Pool -> Slot]
  BY DEF PumpState
<1>2. /\ n \in PumpState
      /\ n.pc = s.pc
      /\ n.outcomes = s.outcomes
      /\ n.slot = slot
  BY <1>1, Zenon DEF WithSlot, PumpState
<1>3. Batch(n) = Batch(s) /\ Ready(n) = Ready(s) \ {p}
  BY <1>1, <1>2 DEF Batch, Ready
<1> QED
  BY <1>2, <1>3

LEMMA RoundState ==
  ASSUME NEW s \in PumpState,
         s.outcomes + Cardinality(Batch(s)) <= MaxJobs
  PROVE  NextRound(s) \in PumpState /\ NextRound(s).pc = "check"
<1>1. NoBatch \in [Pool -> Slot]
  BY DEF NoBatch, Slot
<1>2. s.outcomes + Cardinality(Batch(s)) \in 0 .. MaxJobs
  BY PoolFinite, PumpAssumption DEF Batch, PumpState
<1> QED
  BY <1>1, <1>2, Zenon DEF NextRound, PumpState

\* Steps of a thread that pumps.
LEMMA SetPumpStep ==
  ASSUME PumpInv, NEW t \in PumpThreads, IsAlive(t), NEW n \in PumpState,
         SetPump(t, n), n.pc # "dead", UNCHANGED <<handle, shutdown>>,
         BatchFits(n, late')
  PROVE  /\ pump' \in [PumpThreads -> PumpState]
         /\ HandleHeld'
         /\ \A u \in PumpThreads : BatchFits(pump'[u], late')
<1>1. /\ pump' \in [PumpThreads -> PumpState]
      /\ pump'[t] = n
      /\ \A u \in PumpThreads \ {t} : pump'[u] = pump[u]
  BY DEF SetPump, PumpInv, PumpTypeOK
<1>2. \A u \in PumpThreads \ {t} : pump[u].pc = "dead"
  BY DEF PumpInv, HandleHeld, IsAlive
<1>3. HandleHeld'
  BY <1>1, <1>2 DEF PumpInv, HandleHeld, IsAlive
<1>4. \A u \in PumpThreads : BatchFits(pump'[u], late')
  <2> SUFFICES ASSUME NEW u \in PumpThreads PROVE BatchFits(pump'[u], late')
    OBVIOUS
  <2>1. CASE u = t
    BY <1>1, <2>1 DEF BatchFits
  <2>2. CASE u # t
    BY <1>1, <1>2, <2>2 DEF BatchFits
  <2> QED
    BY <2>1, <2>2
<1> QED
  BY <1>1, <1>3, <1>4

-----------------------------------------------------------------------------
(* One lemma per action.                                                   *)

LEMMA InitInv == PumpInit => PumpInv
<1> SUFFICES ASSUME PumpInit PROVE PumpInv
  OBVIOUS
<1>1. pump \in [PumpThreads -> PumpState] /\ \A t \in PumpThreads : pump[t].pc = "dead"
  BY SmallStates DEF PumpInit
<1>2. PumpTypeOK
  <2>1. /\ row \in [Commands -> {"none", "due", "claimed", "later", "done"}]
        /\ caller \in [Commands -> {"start", "wake", "returned"}]
    BY DEF PumpInit
  <2>2. restarts \in 0 .. MaxRestarts
    BY PumpAssumption DEF PumpInit
  <2> QED
    BY <1>1, <2>1, <2>2 DEF PumpInit, PumpTypeOK
<1>3. HandleHeld /\ \A t \in PumpThreads : BatchFits(pump[t], late)
  BY <1>1 DEF HandleHeld, IsAlive, BatchFits
<1>4. LateCounts
  BY PoolFinite DEF PumpInit, LateCounts
<1> QED
  BY <1>2, <1>3, <1>4 DEF PumpInv

\* Nothing the pumps read changes.
LEMMA KeptPumps ==
  ASSUME PumpInv, UNCHANGED <<handle, pump, late>>, shutdown' \in {shutdown, TRUE}
  PROVE  HandleHeld' /\ LateCounts' /\ \A t \in PumpThreads : BatchFits(pump'[t], late')
<1>1. HandleHeld' /\ LateCounts'
  BY DEF PumpInv, HandleHeld, IsAlive, LateCounts
<1>2. \A t \in PumpThreads : BatchFits(pump'[t], late')
  BY DEF PumpInv, BatchFits
<1> QED
  BY <1>1, <1>2

LEMMA SubmitStep ==
  ASSUME PumpInv, NEW c \in Commands, SubmitCommand(c) \/ BecomesDue(c)
  PROVE  PumpInv'
<1>1. PumpTypeOK'
  BY DEF SubmitCommand, BecomesDue, PumpInv, PumpTypeOK
<1> QED
  BY <1>1, KeptPumps DEF SubmitCommand, BecomesDue, PumpInv

LEMMA CloseStep ==
  ASSUME PumpInv, Close
  PROVE  PumpInv'
<1>1. PumpTypeOK'
  BY DEF Close, PumpInv, PumpTypeOK
<1> QED
  BY <1>1, KeptPumps DEF Close, PumpInv

\* No thread pumps when the handle is not a living one, so the new thread is
\* the only one.
LEMMA WakeStep ==
  ASSUME PumpInv, NEW c \in Commands, Wake(c)
  PROVE  PumpInv'
<1>1. caller' \in [Commands -> {"start", "wake", "returned"}]
  BY DEF Wake, PumpInv, PumpTypeOK
<1>2. CASE ~NeedsThread
  <2>1. PumpTypeOK'
    BY <1>1, <1>2 DEF Wake, PumpInv, PumpTypeOK
  <2> QED
    BY <1>2, <2>1, KeptPumps DEF Wake, PumpInv
<1>3. CASE NeedsThread
  <2>1. PICK t \in PumpThreads : handle' = t /\ SetPump(t, StartedPump)
    BY <1>3 DEF Wake
  <2>2. /\ pump' \in [PumpThreads -> PumpState]
        /\ pump'[t] = StartedPump
        /\ \A u \in PumpThreads \ {t} : pump'[u] = pump[u]
    BY <2>1, SmallStates DEF SetPump, PumpInv, PumpTypeOK
  <2>3. \A u \in PumpThreads : pump[u].pc = "dead"
    BY <1>3, PumpAssumption DEF NeedsThread, PumpInv, HandleHeld, IsAlive
  <2>4. PumpTypeOK'
    BY <1>1, <2>1, <2>2 DEF Wake, PumpInv, PumpTypeOK
  <2>5. HandleHeld'
    BY <2>1, <2>2, <2>3 DEF HandleHeld, IsAlive
  <2>6. \A u \in PumpThreads : BatchFits(pump'[u], late')
    BY <2>2, <2>3, SmallStates DEF BatchFits
  <2>7. LateCounts'
    BY DEF Wake, PumpInv, LateCounts
  <2> QED
    BY <2>4, <2>5, <2>6, <2>7 DEF PumpInv
<1> QED
  BY <1>2, <1>3

\* A new batch is admitted only before a shutdown request, when no late claim
\* has been made yet, and is cut to what the pump may still do.
LEMMA PumpLoopStep ==
  ASSUME PumpInv, NEW t \in PumpThreads, PumpLoop(t)
  PROVE  PumpInv'
<1>1. /\ pump[t] \in PumpState
      /\ IsAlive(t)
      /\ pump[t].outcomes \in 0 .. MaxJobs
      /\ late \in Nat
      /\ UNCHANGED <<handle, shutdown, late>>
      /\ LateCounts'
  BY DEF PumpLoop, PumpInv, PumpTypeOK, IsAlive, PumpState, LateCounts
<1>2. PICK n \in PumpState : /\ SetPump(t, n)
                             /\ n.pc # "dead"
                             /\ BatchFits(n, late)
  <2>1. CASE ~Admits(t)
    BY <1>1, <2>1, LeavingState DEF PumpLoop, BatchFits
  <2>2. CASE Admits(t)
    <3>1. PICK batch \in kSubset(BatchSize(t), Pool) :
             SetPump(t, Batched(pump[t], batch))
      BY <2>2 DEF PumpLoop
    <3>2. batch \in SUBSET Pool /\ Cardinality(batch) = BatchSize(t)
      BY <3>1 DEF kSubset
    <3>3. BatchSize(t) <= MaxJobs - pump[t].outcomes
      <4>1. Cardinality(Pool) \in Int /\ MaxJobs - pump[t].outcomes \in Int
        BY <1>1, PoolFinite, PumpAssumption
      <4> QED
        BY <4>1, MinOfTwo DEF BatchSize
    <3>4. late = 0
      BY <2>2 DEF Admits, PumpInv, LateCounts
    <3> DEFINE n == Batched(pump[t], batch)
    <3>5. /\ n \in PumpState
          /\ n.pc = "batch"
          /\ n.outcomes = pump[t].outcomes
          /\ Batch(n) = batch
          /\ Ready(n) = batch
      BY <1>1, <3>2, BatchedState
    <3> HIDE DEF n
    <3>6. BatchFits(n, late)
      BY <1>1, <3>2, <3>3, <3>4, <3>5, PoolFinite, PumpAssumption DEF BatchFits
    <3> QED
      BY <3>1, <3>5, <3>6 DEF n
  <2> QED
    BY <2>1, <2>2
<1>3. /\ pump' \in [PumpThreads -> PumpState]
      /\ HandleHeld'
      /\ \A u \in PumpThreads : BatchFits(pump'[u], late')
  BY <1>1, <1>2, SetPumpStep
<1>4. PumpTypeOK'
  BY <1>3 DEF PumpLoop, PumpInv, PumpTypeOK
<1> QED
  BY <1>1, <1>3, <1>4 DEF PumpInv

\* A late claim takes a ready worker off the batch.
LEMMA ClaimJobStep ==
  ASSUME PumpInv, NEW t \in PumpThreads, NEW p \in Pool, ClaimJob(t, p)
  PROVE  PumpInv'
<1>1. /\ pump[t] \in PumpState
      /\ IsAlive(t)
      /\ pump[t].pc = "batch"
      /\ pump[t].slot[p] = "ready"
      /\ late \in Nat
      /\ BatchFits(pump[t], late)
      /\ UNCHANGED <<handle, shutdown>>
  BY DEF ClaimJob, PumpInv, PumpTypeOK, IsAlive
<1>2. PICK what \in Slot \ {"off", "ready"} :
         SetPump(t, WithSlot(pump[t], p, what))
  BY PumpAssumption DEF ClaimJob, Slot
<1>3. /\ row' \in [Commands -> {"none", "due", "claimed", "later", "done"}]
      /\ late' = late \/ (shutdown /\ late' = late + 1)
  BY DEF ClaimJob, PumpInv, PumpTypeOK
<1> DEFINE n == WithSlot(pump[t], p, what)
<1>4. /\ n \in PumpState
      /\ n.pc = "batch"
      /\ n.outcomes = pump[t].outcomes
      /\ Batch(n) = Batch(pump[t])
      /\ Ready(n) = Ready(pump[t]) \ {p}
  BY <1>1, <1>2, SlotState
<1> HIDE DEF n
<1>5. /\ Cardinality(Ready(n)) = Cardinality(Ready(pump[t])) - 1
      /\ Cardinality(Ready(n)) \in Nat
      /\ Cardinality(Ready(pump[t])) \in Nat
  <2>1. Ready(pump[t]) \in SUBSET Pool /\ p \in Ready(pump[t])
    BY <1>1 DEF Ready
  <2> QED
    BY <1>4, <2>1, PoolFinite, FS_RemoveElement
<1>6. BatchFits(n, late') /\ late' <= Cardinality(Pool) /\ late' \in Nat
  BY <1>1, <1>3, <1>4, <1>5, PoolFinite DEF BatchFits
<1>7. LateCounts'
  BY <1>1, <1>3, <1>6 DEF PumpInv, LateCounts
<1>8. /\ pump' \in [PumpThreads -> PumpState]
      /\ HandleHeld'
      /\ \A u \in PumpThreads : BatchFits(pump'[u], late')
  BY <1>1, <1>2, <1>4, <1>6, SetPumpStep DEF n
<1>9. PumpTypeOK'
  BY <1>3, <1>6, <1>8 DEF ClaimJob, PumpInv, PumpTypeOK
<1> QED
  BY <1>7, <1>8, <1>9 DEF PumpInv

LEMMA EndJobStep ==
  ASSUME PumpInv, NEW t \in PumpThreads, NEW p \in Pool, EndJob(t, p)
  PROVE  PumpInv'
<1>1. /\ pump[t] \in PumpState
      /\ IsAlive(t)
      /\ pump[t].pc = "batch"
      /\ pump[t].slot[p] \in Commands
      /\ BatchFits(pump[t], late)
      /\ UNCHANGED <<handle, shutdown, late>>
  BY DEF EndJob, PumpInv, PumpTypeOK, IsAlive
<1>2. PICK what \in Slot \ {"off", "ready"} :
         SetPump(t, WithSlot(pump[t], p, what))
  BY DEF EndJob, Slot
<1>3. row' \in [Commands -> {"none", "due", "claimed", "later", "done"}]
  BY PumpAssumption DEF EndJob, PumpInv, PumpTypeOK
<1> DEFINE n == WithSlot(pump[t], p, what)
<1>4. /\ n \in PumpState
      /\ n.pc = "batch"
      /\ n.outcomes = pump[t].outcomes
      /\ Batch(n) = Batch(pump[t])
      /\ Ready(n) = Ready(pump[t])
  <2>1. pump[t].slot[p] # "off" /\ pump[t].slot[p] # "ready"
    BY <1>1, PumpAssumption
  <2>2. /\ n \in PumpState
        /\ n.pc = pump[t].pc
        /\ n.outcomes = pump[t].outcomes
        /\ Batch(n) = Batch(pump[t])
        /\ Ready(n) = Ready(pump[t]) \ {p}
    BY <1>1, <1>2, <2>1, SlotState
  <2> HIDE DEF n
  <2>3. Ready(pump[t]) \ {p} = Ready(pump[t])
    BY <2>1 DEF Ready
  <2> QED
    BY <1>1, <2>2, <2>3
<1> HIDE DEF n
<1>5. BatchFits(n, late')
  BY <1>1, <1>4 DEF BatchFits
<1>6. /\ pump' \in [PumpThreads -> PumpState]
      /\ HandleHeld'
      /\ \A u \in PumpThreads : BatchFits(pump'[u], late')
  BY <1>1, <1>2, <1>4, <1>5, SetPumpStep DEF n
<1>7. PumpTypeOK' /\ LateCounts'
  BY <1>3, <1>6 DEF EndJob, PumpInv, PumpTypeOK, LateCounts
<1> QED
  BY <1>6, <1>7 DEF PumpInv

LEMMA EndBatchStep ==
  ASSUME PumpInv, NEW t \in PumpThreads, EndBatch(t)
  PROVE  PumpInv'
<1>1. /\ pump[t] \in PumpState
      /\ IsAlive(t)
      /\ pump[t].pc = "batch"
      /\ BatchFits(pump[t], late)
      /\ UNCHANGED <<handle, shutdown, late>>
  BY DEF EndBatch, PumpInv, PumpTypeOK, IsAlive
<1>2. PICK n \in PumpState : SetPump(t, n) /\ n.pc \in {"leave", "check"}
  BY <1>1, LeavingState, RoundState DEF EndBatch, BatchFits
<1>3. /\ pump' \in [PumpThreads -> PumpState]
      /\ HandleHeld'
      /\ \A u \in PumpThreads : BatchFits(pump'[u], late')
  <2>1. BatchFits(n, late') /\ n.pc # "dead"
    BY <1>2 DEF BatchFits
  <2> QED
    BY <1>1, <1>2, <2>1, SetPumpStep
<1>4. PumpTypeOK' /\ LateCounts'
  BY <1>3 DEF EndBatch, PumpInv, PumpTypeOK, LateCounts
<1> QED
  BY <1>3, <1>4 DEF PumpInv

LEMMA LeaveStep ==
  ASSUME PumpInv, NEW t \in PumpThreads, Leave(t)
  PROVE  PumpInv'
<1>1. /\ pump' \in [PumpThreads -> PumpState]
      /\ \A u \in PumpThreads : pump'[u].pc = "dead"
  BY SmallStates
  DEF Leave, SetPump, PumpInv, PumpTypeOK, HandleHeld, IsAlive
<1>2. HandleHeld' /\ \A u \in PumpThreads : BatchFits(pump'[u], late')
  BY <1>1 DEF HandleHeld, IsAlive, BatchFits
<1>3. PumpTypeOK' /\ LateCounts'
  BY <1>1 DEF Leave, PumpInv, PumpTypeOK, LateCounts
<1> QED
  BY <1>2, <1>3 DEF PumpInv

LEMMA RestartStep ==
  ASSUME PumpInv, Restart
  PROVE  PumpInv'
<1>1. /\ pump' \in [PumpThreads -> PumpState]
      /\ \A u \in PumpThreads : pump'[u].pc = "dead"
  BY SmallStates DEF Restart
<1>2. HandleHeld' /\ \A u \in PumpThreads : BatchFits(pump'[u], late')
  BY <1>1 DEF HandleHeld, IsAlive, BatchFits
<1>3. /\ row' \in [Commands -> {"none", "due", "claimed", "later", "done"}]
      /\ caller' \in [Commands -> {"start", "wake", "returned"}]
  BY DEF Restart, PumpInv, PumpTypeOK
<1>4. restarts' \in 0 .. MaxRestarts
  BY PumpAssumption DEF Restart, PumpInv, PumpTypeOK
<1>5. PumpTypeOK'
  BY <1>1, <1>3, <1>4 DEF Restart, PumpTypeOK
<1>6. LateCounts'
  BY PoolFinite DEF Restart, LateCounts
<1> QED
  BY <1>2, <1>5, <1>6 DEF PumpInv

-----------------------------------------------------------------------------
LEMMA PumpInvariance == PumpSpec => []PumpInv
<1>1. PumpInv /\ [PumpNext]_pumpVars => PumpInv'
  <2> SUFFICES ASSUME PumpInv, [PumpNext]_pumpVars PROVE PumpInv'
    OBVIOUS
  <2>1. CASE PumpNext
    BY <2>1, SubmitStep, WakeStep, CloseStep, PumpLoopStep, ClaimJobStep,
       EndJobStep, EndBatchStep, LeaveStep, RestartStep DEF PumpNext, PumpStep
  <2>2. CASE UNCHANGED pumpVars
    <3>1. PumpTypeOK'
      BY <2>2 DEF pumpVars, PumpInv, PumpTypeOK
    <3> QED
      BY <2>2, <3>1, KeptPumps DEF pumpVars, PumpInv
  <2> QED
    BY <2>1, <2>2
<1> QED
  BY <1>1, InitInv, PTL DEF PumpSpec

\* The state is well typed; in particular no pump runs more jobs than
\* max_jobs_per_pump, the last batch being cut to what is left.
THEOREM PumpTypeCorrect == PumpSpec => []PumpTypeOK
<1>1. PumpInv => PumpTypeOK
  BY DEF PumpInv
<1> QED
  BY <1>1, PumpInvariance, PTL

\* At most one thread of the process pumps, however submissions, wake-ups,
\* the end of a pump and a restart interleave.
THEOREM SinglePump == PumpSpec => []OnePump
<1>1. PumpInv => OnePump
  BY DEF PumpInv, HandleHeld, OnePump
<1> QED
  BY <1>1, PumpInvariance, PTL

\* After request_shutdown a pool of n workers claims at most n more jobs.
THEOREM ShutdownBound == PumpSpec => []ShutdownAdmitsOneBatch
<1>1. PumpInv => ShutdownAdmitsOneBatch
  BY DEF PumpInv, LateCounts, ShutdownAdmitsOneBatch
<1> QED
  BY <1>1, PumpInvariance, PTL
=============================================================================
