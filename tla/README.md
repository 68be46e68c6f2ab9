# NOX Shield: TLA+ models, checks and proofs

NOX Shield is a shielded pool on an EVM chain. People deposit assets and get notes, commitments in
an append-only tree. A STARK proof spends two notes, makes two new ones and may pay somebody. A
*lander* takes proofs over HTTP and settles them, so the owner of a note need not appear on the
chain. This directory models the state machines around the proof system: who may be refused and for
how long, what the pool owes and holds, what the tree publishes, which fee a proof may carry, and
what a lander answers and commits, and the tools whose output the contracts run on: the generator of
the hash's bytecode and the planner of the circuit's tape. The proof system itself is not modelled; the
repository proves it in Lean.

Paths below are relative to `src/`. `SP` is `contracts/shield/ShieldedPool.sol` and `AP` is
`contracts/shield/AmountPolicy.sol`, `tools` is `script/tools`.

## 1. The system

| component | state | operations | talks to |
|---|---|---|---|
| `ShieldedPool` | balances, four ledgers per asset, nullifiers, beta caps and refunds, switches, settler, routers | `absorb`, `settleBatch`, `claim`, `sweepFees`, `betaRefund`, `commitRoot`, owner's setters and timelocks | tokens, recipients, DEX and fee router (external calls); policy, verifier, registry (views); inherits the tree |
| `ShieldLedger`, `SettlerGate`, `BatchClearing` | none (libraries) | debit, gate, clearing price | called by the pool |
| `AmountPolicy` | ranges, schedules, percentages with pending and replaced values; the pause | queue, cancel, activate of each; `pausePool`, `unpausePool`, `queueExtension`, `extendPause` | read by the pool on every deposit and intent; has an owner of its own |
| `GoldilocksIncrementalTree` | frontier, leaf count, current root, ring of known roots | deferred and eager, single and batch insert, `commitRoot` | Poseidon |
| `lander/relayer.py` | `jobs` and the queue in memory, a directory per job with `status.json` | request threads (`do_POST`), `worker`/`settle`, `roots`, `restore` | the pool through RPC nodes and `forge` |
| `RootBounty` | time of the last payment, balance | `commit` | pool |
| `AssociationSetRegistry` | append-only roots | `publishRoot` | read by the pool |
| `NoxShieldStaking`, `ShieldFeeRouter` | stakes, reward accumulator, cooldowns; splits, routers, timelocks | stake, unstake, notify, claim; convert, distribute, propose and execute | the router feeds the staking contract |
| `RelayerRegistry` | bonds, dense list of active relayers | register, deregister, withdraw | pool (fee cap) |
| `NOXFaucet`, `LinkRegistry` | epoch budgets, cooldowns, nonces; links | claim, owner's setters; link, unlink | token |
| `tools/nullifier_tree.py` | none but a growing chain it reads | search for a window of time, read its logs, build their tree | node; the pool's tree |
| `tools/poseidon_fast/gen.py`, `evm_lite.py` | a symbolic stack and the items emitted; the machine's stack and memory | one emitter per block of code, assemble; one step per opcode | emits the hasher that `PoseidonGoldilocks` specifies and the tree calls |
| `tools/gen_program_air.py`, `program_form_blob.py` | cells of the evaluator and the values in them | encode, read back, split, plan | the generated evaluators of the verifier |
| STARK verifier | staged proofs | verify | pool |

What is hard here, and what makes each part right:

* **Many callers, one clock.** Anyone may send any call at any instant of a block. Guardian, owner,
  settler and public race each other, and every bound ("a pause ends", "the public gets in once an
  epoch") must hold along every chain of calls, not per call. Lever and gate also refuse settlements
  together, under two independent owners.
* **External calls in the middle of a transaction.** A batch makes one call per payout. The callee
  may refuse, move less than asked, answer wrongly, or call back. The pool must be solvent at each.
* **Changes announced in advance.** A proof takes time to make. Fees in force when it was made must
  still be accepted, stale ones must not, in whatever order changes are activated.
* **A ring of roots and a frontier with stale entries.** What a spend may refer to depends on every
  insert and commit before.
* **Generated code nobody reads.** The generator keeps the names of what lies on the machine's stack
  while it swaps and buries words under others; one wrong name gives code that computes another hash.
  Three lanes share a word, so no sum may carry into the next one. The planner reuses a cell once its
  value is dead, and fuses ops so that the order in which values die is not the order of the tape.
* **A chain that moves while it is read.** The tool makes one call after another to a node whose head
  advances between them, and must still end with the logs of exactly its window.
* **Several landers, one root per slot.** Each compares and then commits; deposits, outsiders, a late
  transaction or a restart come in between.
* **Threads, crashes and late answers in the lander.** Two request threads check and then act; the
  worker's transaction may be mined after its call timed out or after the process was killed; the
  status file is not written atomically.

## 2. Modules

| module | models | composed of |
|---|---|---|
| `PauseLever` | AP: the containment lever and its two-step owner | |
| `AmountPolicy` | AP: ranges, schedules, percentages, the fee a proof must carry | extends `PauseLever` |
| `Timelock` | abstract: a governed value behind a delay | |
| `SettlerGate` | `SettlerGate.sol`, the gate of `settleBatch`, the settler timelock of SP | implements `Timelock` |
| `ExitGate` | lever and gate on one clock | `PauseLever`, `SettlerGate` |
| `Custody` | abstract: holds at least what it owes, never loses | |
| `ShieldedPool` | SP's ledger, settlement, payouts, swaps, beta and refunds | implements `Custody` |
| `IncrementalTree` | `GoldilocksIncrementalTree.sol` | |
| `NullifierTree` | `tools/nullifier_tree.py` against a growing chain | extends `IncrementalTree` |
| `Lander` | `lander/relayer.py`: hand-offs, queue, worker, restart | |
| `RootClock` | the roots thread of `lander/relayer.py` in several landers, `RootBounty.sol`, `AssociationSetRegistry.sol` | |
| `Poseidon` | the arithmetic of `gen.py`: the reference permutation and the packed one | |
| `PoseidonAsm`, `PoseidonGen` | its symbolic stack and assembler; its blocks of code | each extends the one before |
| `PoseidonHasher` | abstract: which call `PoseidonGoldilocks.sol` answers with what | extends `PoseidonGen` for its arithmetic |
| `EvmLite` | `evm_lite.py`: the machine running the generated code | implements `PoseidonHasher` |
| `ProgramTape` | `gen_program_air.py` and `program_form_blob.py` | |
| `MCAmountPolicy`, `MCExitGate`, `MCShieldedPool`, `MCIncrementalTree`, `MCLander`, `MCEvmLite`, `MCProgramTape` | instances for TLC | `MCAmountPolicy` has the lever, `MCExitGate` the gate, `MCIncrementalTree` the tool, `MCLander` the roots thread as well |
| `PauseLeverProofs`, `AmountPolicyProofs`, `ExitGateProofs` (with the gate's), `ShieldedPoolProofs` (with the ledger's sums), `TreeAndHashProofs` (tree, tool and the packed permutation), `LanderProofs` (with the roots thread's), `ProgramTapeProofs` | theorems | those of a composed module use those of its parts |
| `Recursion` | lemmas: induction over sets and numbers, functions defined by recursion, and finite sums | used by the pool's sums, `TreeAndHashProofs` and `ProgramTapeProofs` |

How state and actions correspond to the code:

* **Contracts.** A variable is a storage variable or a record of some; its name is the source's. One
  action is one external function, its guard the conjunction of the reverts' negations; a private
  function is an operator. `PROJECT.json` names the lines of every definition. Time is `now`, moved
  by `Tick` only, so that several transactions share a timestamp as they do in a block. The clock is
  capped by `MaxTime`.
* **`PauseLever`**: `pause` is AP's struct. `began`, `ownersHold`, `shut`, `caller` are history: when
  the pause began, whether an owner began it or announced its extension, the past instants the pool
  was shut, who sent the last transaction. `OwnerHeldPauseStays` reads `ownersHold`, set by who
  called, and not the flag `ownerHeld` the contract decides on.
* **`AmountPolicy`**: a ladder is the set of its rungs. `inForce` remembers, for `GRACE`, what was
  in force when, and `told` when each pending change was announced.
* **`SettlerGate`**: `refused` counts the instants in a row at whose end the public was refused;
  `seenOpen` says whether the public could have settled at any moment since the last proposal. Every
  call of gate or lever and every `Tick` records the moment before it, so that an opening between two
  transactions of one instant counts.
* **`ShieldedPool`**: a transaction with external calls is in flight in `tx`: `settleBatch` decodes
  and spends, `account` debits, then `payOrCredit`, `payFee` and `settleResidual` make one call per
  step, each with an outcome the callee chooses. `before` is the state a `revert` restores, and
  `commit` ends the transaction. `refunds` and `swapped` (the assets a residual swap has moved) are
  history, and so is the entry `lost` of `book`. `Push` is `_pushToken` with all its outcomes: a token
  is believed when it says it paid, else measured on the pool's balance, and credited in full when the
  balance cannot be read (SP:882), whatever has moved: `lost` adds up what has, the cost that "falls
  on the token's own escrow" (`HostileTokenReturns.t.sol:256`). Functions that are not `nonReentrant`
  may run meanwhile (`registerAsset`, switches, `endBetaMode`, `receive`). That an intent's inputs
  cover what it pays out is what the STARK proof establishes, so only such intents are enumerated.
* **`IncrementalTree`**: the hash is a free constructor, which is the collision resistance the
  contract assumes. `leaves` and `published` are history. A shift of an index is the function `above`,
  of its halves, and `bit` reads one off it, so that no power of two is needed.
* **`Lander`**: one record per thread holds what a Python frame would: the program point, the job,
  and what the thread is about to save. The queue is a bag, since the order of due times is left
  open. `set_status` is three steps, memory (relayer.py:236, from which requests are
  answered), the file opened and so emptied (231), its content (232), so that a kill can come between
  any two. `txs` is the mempool: a transaction whose `forge` timed out or was killed
  stays there (`own = FALSE`) and may still be mined. A chain call may fail at any time, which makes
  `refuse` possible at every point of `settle`, as the `except` of `worker` does. `jobs[j]` is
  "absent" when `j` is not a key; `"waiting"` stands for both `"queued"` and `"scheduled"`, which
  the code treats alike. The put into the queue that follows a save is part of that save's step: no
  thread can tell the difference but for the queue's length, which then is one higher a moment
  earlier.
* **`RootClock`**: a root is the number of leaves it covers. One step is one call of a round: ask what
  `commitRoot` would return and compare it, send, read the root, publish; `callFails` ends a round
  anywhere, with its transaction left in the mempool. Time is the phase within the slot, and what the
  code compares with a slot number is kept as a fact that ends with the slot: `done` (`last_slot =
  slot`) and `here` (the round was decided in this slot). `try` tells a transaction the thread waits
  for from one it gave up. `moved`, `faulted` and `sincePaid` are history; the last times payments by
  the money paid, so that it does not share the bounty's `lastPaidAt`.
* **`NullifierTree`**: one step is one call to the node, and the chain may grow before each. The
  digests are the free hash of `IncrementalTree`. `closed` is history: the window was over when the
  first head was read.
* **`PoseidonGen` and `EvmLite`**: a block of code is the sequence of moves (the methods of `Stack`)
  that emits it, and `PoseidonAsm` plays them into items; every item keeps the names the generator had
  on its stack there. `EvmLite` runs one opcode per step: `instruction` is the item at `pc`, and
  `image` says where the parts of the code lie. A halt keeps the flag that tells `RETURN` from
  `REVERT`, and the data at its offset and of its length; `CODECOPY` copies to its destination as many
  bytes as it is asked for. `given` is history: what the source's own arithmetic says each round
  computes. The program is evaluated from the generator's definitions, not written down.
* **`ProgramTape`**: one op of the tape per step, as `plan` goes through it. `cells` is what the
  evaluator's memory holds after the instructions planned so far.

## 3. Runs

| run | instance | what it shows |
|---|---|---|
| `policy` | lever: two accounts, pause 3 + extension 2, cooldown 3, 13 instants. Fees: one asset, 2 valid and 1 invalid value of each kind, delay 2, grace 1, 4 instants | A pause is bounded and followed by its cooldown; only the owner reopens a pause the owner holds; an extension never revives a lapsed pause. A proof for what was in force less than `GRACE` ago still settles, in every order of activation; nothing older does; the values in force decide how an ambiguous fee is split; every change was announced `CHANGE_DELAY` before |
| `amount_grace` | one range change | Violation: a *range* has no grace (finding 1) |
| `exit` | pause 5 + 1, cooldown 3, epoch 3 with one open instant, window 3, settler delay 4, two settlers, 12 instants | Lever and gate together keep a holder out for at most the longest pause and one shut stretch of an epoch, a bound that is reached; the settler implements `Timelock` |
| `exit_change` | the same | Violation: a change announced and executed in the middle of one pause lands before any opening (finding 2) |
| `pool` | an opened pool with batches of two intents; one in use that is wound down, with swaps; one as deployed with every switch | Balance equals the ledgers to the unit; the shielded total of an asset no swap has moved equals its unspent notes; per-account claims add up; refunds can all be paid in every order, are equal for equal deposits and never a profit; a wound-down pool stays so |
| `hostile` | two assets, one with a scale of 2, a token that moves and answers what it likes or has no readable balance, batches of two intents, swaps either way | Solvent at every call, but for what left unread, which no other asset pays for; `Custody` implemented; a swap keeps its band |
| `tree` | depth 3, ring of 3, batches up to 3, two kinds of leaf; and the tool on chains of 4 blocks, a window from 3 to 6, pages of 2 blocks | Capacity, frontier, published roots and the window of known roots agree with a reference Merkle tree; the tool's tree is built as the pool builds its own, with valid paths, and holds exactly the spends of a window that was over |
| `lander` | two hand-offs that share a note, two request threads, queue of 1, one kill; or two landers of which one stands by, slots of 2, two deposits, and one failure or a bounty | "settled" is true and is never sent again; a settled answer is final once its file is written, except for one race; the queue is bounded; every accepted hand-off is answered. A lander moves the root at most twice in a slot, with a late commit and the slot's own; every deposit gets a root; what a round reports is listed; a bounty is paid for a root that moves, once an interval |
| `lander_restart` | the same | Violation: an accepted hand-off is forgotten when `status.json` was being rewritten (finding 3) |
| `roots_standby` | the same | Violation: a standby lander commits in a slot that already has its commit (finding 4) |
| `fast` | a field of 11, three rounds, limbs of 7 bits, lanes of 9, words of 28; init and runtime code of five builds, some fifty calls | The names on the symbolic stack are the machine's; the code answers every call as the contract does, its reverts included; every call ends |
| `tape` | every tape of a leaf and three ops; dot products that fuse and chain; outputs and boundaries that share rows | No cell is overwritten while its value is still to be read; cells are as few as can be; both readers read back what was written |

Some runs hold two or three models that share no variable that moves: `policy`, `pool`, `tree` and
`lander` start in the initial state of each, and a step of one is allowed only while the others are as
at the start (or, in `MCLander`, as `thread_moving` says). What one reads of the other is its resting
value: the fees read whether a pause runs, which it then does not; the lander's two threads share the
chain lock, which either model has as a wait of any length.

Why the bounds are enough:

* *Time.* Delays keep the order and the divisibility the contracts' have (an epoch shorter than the
  settler delay, pause and extension whole epochs together, `GRACE <= CHANGE_DELAY`). In `exit` and
  `exit_change` the settler delay is shorter than a pause too (48 hours against 7 days), so that a change
  can be announced and executed with the pause still running. `policy` runs
  long enough for a pause with its extension, a cooldown and a second pause; `exit` for a pause, its
  cooldown and a shut stretch on either side. The theorems cover lever and gate for all values.
* *Values.* In `policy` two schedules accept the same fee at different positions, one value of each
  kind is invalid, one percentage is zero. In `pool` and `hostile` amounts are 0 or 1 unit against
  notes of 3: enough to separate principal, fee and change. A scale of 2 and a price of 3/2 make
  both roundings of the slippage floor matter.
* *Parties.* Recipients, fee recipients and submitters coincide or differ in every way with two
  accounts. The history of one asset touches another only through a swap, which has two. An intent
  pair in a batch is enough for a nullifier used twice.
* *Tree and tool.* Depth 3 has a carry to every level, one over two levels, and batches that straddle
  the end; the ring of 3 wraps twice. Four blocks with gaps of one or two put blocks before, on,
  between and after both ends of the window, and the logs need two pages.
* *Lander.* Two threads are enough for each check-then-act; a third only adds entries to the queue.
  One kill at every program point, with the transaction unsent, in the mempool or mined. A kill and a
  double hand-off of the job that has both notes are not run together, to keep the run short; the
  safety theorems cover both, for any number of kills. Two landers
  and two deposits are enough for a commit between a compare and its send; a bounty of 2 out of 3
  pays in full, in part and then nothing.
* *Generator.* These are the smallest widths at which three rows share a word as in the source; the
  generator never branches on the field, so its code differs from the deployed one in constants and
  in the number of rounds. Calls that are well formed, short, not canonical in each limb, wrongly
  encoded, or carry value reach every revert.
* Model bounds are named: `MaxTime` and `FeeTime` (the fee rules move in the first instants),
  `LedgerCap` and `RefundCap` (which also tell the instances of `pool` apart), `MaxNotes`
  (commitments made), `MaxGift` (base units sent to the pool unasked), `MAX_BATCH`, `MaxCrashes`,
  `MaxDeposits`, `MaxFaults` (calls that fail, restarts and retries), `MaxFunds`, `MaxBlocks` and
  `MaxGap`. `MCExitGate` leaves ownership changes to `policy`. `MCLander` lets either a call fail or
  the bounty pay: a failure does not read the purse.

Runs that may really come to rest say `CHECK_DEADLOCK FALSE` with the reason in the `.cfg`.

### Fairness

The contracts promise bounds and not progress: nothing makes anyone send a transaction, so their
properties are safety properties over an explicit clock ("at most n instants") with no fairness.

`AcceptedIsAnswered` is the liveness of the lander's settlements. Its assumptions are those its
process provides: each thread keeps running (`WF`), which needs `forge` and every `cast` to end,
and they have timeouts (relayer.py 166, 304); a not-before time comes (`WF ripen`); and no job
in the queue is passed over for ever (`SF take(j)`), because the heap is ordered by due time and a
job put back is due after those due now. Nothing is assumed of the chain: a transaction may never
be mined. Kills are finitely many.

`DepositsGetARoot` is the liveness of the roots. `RootFairness` assumes that a lander's thread goes on
(`WF roundStep(l)`: it sleeps 30 s at a time, and `cast` has a timeout), that blocks are mined (`WF`) and
that time passes (`WF tick`). Failures are bounded, so in the end some round goes through.
`EveryCallHalts` needs only that the interpreter goes on.

## 4. What is proved

TLAPS checks these for every value of the constants that the named `ASSUME`s allow.

**Lever** (`PauseLeverProofs`, from `LeverAssumption`). The invariant `LeverInv` adds to the type
and the bounds: the history knows only past instants (`Clock`); while a pause runs, every instant
from `began` on is shut, and what was shut before ended a cooldown earlier (`Runs`); a pause is
never longer than both durations, nor than one before its extension (`Bounded`); after every shut
instant there is a first open one unless the pool is still shut (`FirstOpen`). The bounds alone are
not inductive, since they do not tie `shut` to the pause that is running. From it follow
`ShutIsBounded`, `ExitWindow`, the two action properties, and `RunsInAnyWindow`, which covers a
window's shut instants by two intervals (one per pause it can touch) and counts those.

**Gate** (`ExitGateProofs`, from `GateAssumption`). `GateInv` bounds `refused` by the clock's
position in the epoch (`SinceSlot`), which needs Euclidean division of the clock by `EPOCH`, and
says that unless settlement was open since the pending proposal, `refused` covers every instant
since it (`SinceProposal`). This gives `BoundedExclusion`, `ChangeLandsAfterOpening` (with `EPOCH <=
SETTLER_DELAY`) and, by a step simulation, that the settler implements `Timelock`.

**Fees** (`AmountPolicyProofs`, from `PolicyAssumption` and `LeverAssumption`). `PolicyInv` says of
each kind of value what the contract remembers and until when: what is announced falls due
`CHANGE_DELAY` after it was announced (`Awaited`), every value in force less than `GRACE` ago is the
current or the replaced one (`Kept`), and a replaced one that still settles was in force until
`GRACE` before it lapses (`Recalled`). The hard case is an activation, which overwrites the one
replaced value there is room for: it needs that a change falls due only once every other remembered
value has been forgotten, which is what `GRACE <= CHANGE_DELAY` buys. From it follow the four fee
properties, for any sets of assets, amounts and fees. `PolicyKeepsLever` is a step simulation: the
policy is a lever, so the theorems above hold of it.

**Lever and gate together** (`ExitGateProofs`, from `ExitAssumption` and `GateAssumption`).
`ExitInv` is the lever's invariant with `Stretch`: a holder kept out for longer than the longest
pause and one shut stretch would have met two open slots a longest pause apart in one pause, or one
opened pause whose cooldown covers an epoch. Both are impossible, whatever the phase of the pause
within the epoch; this is `ExclusionBounded`. The settler's refinement of `Timelock` carries over.

**Pool** (`ShieldedPoolProofs`, from `PoolAssumption`). `PoolIsSolvent`: at every external call the
balance covers the ledgers and what the transaction in flight still has to pay. `PoolInv` strengthens
`Solvent`: the balance also covers what was to spare when the transaction began (`Covered`). Both
count `lost` with the balance of a token, and `LostInv` says that the native coin, whose pushes are
never measured, loses nothing. `PoolInv` adds that ledgers and refund terms are sound natural numbers
(`Sound`), that the steps left of a transaction are consistent with one another (`Chain`), and that
the state a revert would restore is sound and covered as well (`CanRevert`). The last is why solvency
alone is not inductive. `Covered` is what makes a commit a step of `Custody`: by a step simulation (a
transaction begins and runs as a stutter, and ends in the one step of the abstract custodian or,
reverted, in none) `PoolIsCustodian`. `Custody` takes what is owed for an integer, since that the
total of the credits is never negative is a sum. `SwapsKeepBand` chains the two roundings of the
swap's floor. Two further invariants on top of it give `RefundsStayFair` (terms are frozen by the
first refund, so each refund is a function of the deposit) and `WoundDownStaysFinal`.

**Lander** (`LanderProofs`). `LanderInv` has five parts besides the type: which thread may be at
which program point, and what it holds there (`Roles`); whatever says "settled", in memory, in a
file or in a thread about to save it, is so on the chain (`Truth`); no job on its way to `forge` was
answered settled (`Unanswered`); what a thread saves is the status of a job in memory (`Known`); and a
job handed off once is in one place, with one thread, in the queue or at rest, with the status, and
the file, that go with it (`Once`): the file is a status behind until it is opened, and empty until it
is written. They give `SettledMeansSpent`,
`SettledNeverResent` and `SettledStaysSettled` for any number of jobs, request threads and kills.

**Roots** (`LanderProofs`). `RootInv` says that the root never runs ahead of the tree and a
lander never knows more than the chain (`Covered`), that a transaction in the mempool is the one its
lander waits for or one it gave up when a call failed (`Attempt`, `Waiting`), and that a lander that
met no failure and moved the root with a commit of this slot is in the rest of that round or done with
the slot, and with a commit of an earlier one has no other of those (`Moved`), and that the bounty's own
record of its last payment is the true one. They give `AtMostLateAndOwn`, `ReportsAreListed` and
`BountyOnlyEarned` for any number of landers and any length of a slot.

Three theorems state what no run lists any more, because a composed run checks something stronger or
close to it: `LeverRunsInAnyWindow`, `GateExcludesForLessThanAnEpoch` and
`SettlerChangesLandAfterOpening`. The last two are of the gate alone; what becomes of them when a
pause runs as well is what `exit` and `exit_change` show.

**What the prover cannot instantiate.** The library states its induction principles, and what a fold
computes, for an operator that is a parameter, which none of the backends can take. `Recursion` states
them for *sets* instead: a set that contains 0 and the successor of each of its numbers contains every
number, a set that contains a finite set whenever it contains that set less any one element contains
every finite set. A proof by induction defines the set of what satisfies the claim and cites the lemma.
From this follow that a function defined by recursion along an interval satisfies its equations
(`RecursionAlong`), and that `SumFunctionOnSet`, a fold that takes elements in an order of its own,
does not depend on that order (`SumsAgree`), so that sums can be split, compared and changed at one
argument. The four sections that follow rest on it.

**Sums of the pool** (`ShieldedPoolProofs`, from `PoolAssumption`, which has finitely many accounts; each
invariant on top of `PoolInv`).

* `PoolStaysTyped` adds the type of the history to `PoolInv`.
* `TotalsStayAddedUp`: `TotalsInv` says that a payment that is not nothing has somebody to go to, or a
  credit would raise the total alone; and that the state a revert would restore adds up too.
* `NothingIsStranded` supposes `~Hostile` and `MaxGift = 0`, under which the run checks the property: an
  honest token and nobody who sends tokens unasked. `ExactInv` is the equation at every instant, with
  what the transaction in flight has still to pay.
* `NotesStayBacked`: `BackedInv` says the same in mid-transaction, where the notes of a batch are spent
  and its change is minted before its intents are accounted for: the difference is what the intents
  left to account for will take out (`pending`). It needs that the intents a batch decodes spend
  disjoint notes of one asset each and conserve value, through the recursive `changeNotes`. A swap
  takes its two assets out of the statement, by the history variable `swapped`.
* `RefundsStayPayable`: `RefundInv` says that the deposits still refundable add up to their total until
  terms are frozen, and that from then on what is due under the frozen terms is covered; rounding down
  each refund, the sum never exceeds the assets frozen.

**Tree and tool** (`TreeAndHashProofs`, from `TreeAssumption` and `ToolAssumption`, for any depth, window,
leaves and hash).

* `FrontierStaysComplete`, `PublishedRootsAreTrees`: `TreeInv` says that for each level at which the leaf
  count has its bit set, the frontier holds the node of the reference tree just before the next leaf
  (`Complete`). One lemma per way to insert: an eager insert hashes upward from the leaf to the root,
  a deferred one stops at the first clear bit, a batch repeats that, and the fold of the frontier is
  the walk of an empty leaf at the leaf count. Each is an induction over the levels.
* `WindowStaysTheLast`: `OrderInv` says the roots were published in the order of the prefixes they are
  of, so that they differ, and `RingInv` which slot holds the root published d roots ago. It supposes
  that no hash is the zero which marks an empty slot of the ring, as the contract does.
* `ToolBuildsThePoolsTree`: the tool's levels, padded lazily, are the nodes of the same reference tree.
* `ToolHoldsTheWindow` (of `ToolSpec`, the tool alone): `ToolInv` says that block times grow (`ChainInv`),
  that a search keeps what it looks for between its bounds even if the chain grew since it read them,
  that the first and last blocks found are the window's, and that the pages read so far hold what lies
  between, in order. All of it only if the window was over when the tool first read the head, which
  it does not check itself.

**Tape** (`ProgramTapeProofs`, from `TapeAssumption`, which is what the contract checks of a tape: operands
are earlier ops and outputs are ops). One lemma per recursion of the tools gives its steps.

* `WhatIsWrittenIsRead`: the blob is a concatenation whose parts have known lengths, so every field lies at
  a known offset (`BlobLayout`); the parser and the splitter walk over the same offsets, though their tables
  of op lengths are two, and the boundary reader over those of the rows and boundaries.
* `ValuesKeepTheirCells`: `PlanUse` says that the scan from the end counts every reader of a value and
  keeps the last one. What an instruction of a fused run reads is what the ops of the run read less what
  is computed in it (`OperandsSet`), by ops no earlier than any instruction before it, so that the last
  reader of a value is never behind the instruction that still reads it (`StillWanted`). `SlotsInv` then
  says that no cell is free twice, and that the cell of a value still to be read is its own and not free.
* `CellsAreAsFew`: `TightInv` says that a cell that is not free holds a value still to be read, so that
  when one is added, the values kept beside the new one (`kept`) fill all the others, and at no
  instruction are there more of them than cells. `LifeInv` ties births and deaths to the instructions
  that wrote and last read a value, so that what the check at the end counts as alive at an instruction
  is what was kept there (`AliveBeside`). A cell with the number that the evaluator takes for none is never
  freed nor read, which is why the theorem stops at 255 cells.

**Packed permutation** (`TreeAndHashProofs`). The generator asserts on two hundred random inputs that its packed
permutation is the reference one; `FastPermIsReference` says it of every input and number of rounds,
`WordsNeverOverflow` that no input makes a word drop a carry. They suppose a prime field, given by its
inverses (`FieldAssumption`), a matrix that is the integer one over `F` (`ScaleFound`, `IntegerMDS`) and
the bound the generator asserts of it (`LanesFit`), so they hold for other constants too. `PowersOfTwo`
states the law of exponents, for which the provers have no rule. One round: a packed row is the
reference row times the next scale, up to multiples of `P` (`ScaledRow`); rows packed in one word add up
without meeting (`WeighedRows`, `RowFits`), so cutting the lanes gives back whole sums
(`RoundUnpacks`). `LanesFollow` is the induction over the rounds. The model reduces every product of
`fast_sbox`, so that its squares fit a word (`l < 2^128`) is left to the run. That the code emitted
computes `accumulators` is `NamesAreTrue`, which the run checks. `fast_perm` computes the third word of
the last round too, whose rows nobody reads and the source skips.

**Queue** (`LanderProofs`). `QueueStaysBounded`: `QueueInv` counts together the entries of the queue and
the threads that have a job in hand, and says that what a restart will find unfinished on disk is in
one of the two. A kill empties the queue and every hand, so what is put back is no more than was there.
`Displaced` covers a worker that saves an answer while a second hand-off of the same job has set it
waiting again: the file may then get the second one's status, whose entry or thread exists.

**Only model-checked.** Liveness: `AcceptedIsAnswered`, `DepositsGetARoot`, `EveryCallHalts`, since
neither fairness nor `ENABLED` can be reasoned about. The generated code (`NamesAreTrue`,
`AnswersAsTheContract`), whose machine needs bitwise operators, which the library defines by `RECURSIVE`
operators that no backend takes.

## 5. Findings

1. `amount_grace`: AP:29 promises that a proof made before a switch still lands. This holds of fees
   and percentages, but `activateRange` keeps only the replaced fee; a withdrawal proved for an
   amount the narrower range no longer has is refused at once.
2. `exit_change`: SP:89 says a settler change lands after settlement opens. The settler timelock
   runs on during a pause of the policy, so one announced and executed within a pause does not.
3. `lander_restart`: relayer.py:460 says unfinished jobs run again after a restart. `save` truncates
   `status.json` before writing it; a kill in between makes `restore` skip the job. The wallet can
   hand it off again, so `AcceptedIsAnswered` counts that as an answer.
4. `roots_standby`: relayer.py:49 says that a standby lander commits only if those ahead of it did not. It
   compares roots and not commits, so a deposit after the first commit is enough for a second in the
   same slot, at the standby's cost.

A fifth disagreement has no run of its own, since the property that holds says it as exactly. "At most
once per clock slot" (relayer.py:330, and "at most one commit per slot" at 17) is so of the slots in
which a lander decides, and not of those in which the root moves: a commit that waits, for the chain
lock or to be mined, moves it in the next slot, whose own commit follows. `LateThenOwnCommit` allows one
of each, and no more; a failed call or a restart forgets the slot.

Some behaviours contradict no doc but are worth knowing. A settled answer (relayer.py:236) is given
before its file is written: a kill in between makes the job settling again, and the worker then finds
its notes spent. After a publication failed, the next round finds the root unmoved and marks the slot
done, so that root stays unlisted until a deposit moves the root on. Two landers may list one root
twice, under two ids. Run before its window is over, the nullifier tool leaves out the newest block,
which `closed` accounts for.

Some things the models assume are worth knowing. `NotesAreBacked` speaks of assets that no residual swap
has moved: a swap's input is named by the submitter and backed by no proof, so for the others only
`Solvent` and the debit's refusal are left. A token never moves more than it was asked to, and its
`balanceOf`, when it can be read, tells the balance. When it cannot be read around a push that is not
answered with success, the pool credits the whole amount though it may have moved
(`docs/08-pool.md:361`, and a test); `Solvent` and `PoolKeepsCustody` leave out that cost, which that
token's holders bear, and say that no other asset does.

## 6. Not modelled

* The STARK verifier, its transcript, Merkle and field code, and the generated evaluators: arithmetic
  over a 64-bit prime field, beyond enumeration; see `formal/lean`. The pool takes "the batch
  verified" as an input. The Solidity permutation of `PoseidonGoldilocks` is not unrolled: its
  specification here is the reference of `gen.py`.
* SDK, settlement bridge, scripts, deployments and vectors: packaging and one-shot steps. So are
  `code_unchanged.py`, `check_doc_facts.py` and `standard_gas.py`: each compares two texts or prints a
  table in one pass and keeps no state.
* In the lander: the checks of a package's format and rank in `check`, the read-only routes, and disk
  errors, two of which are hazards without a property: a refusal that turns out wrong after a timeout
  (relayer.py:304) is a step of the model that no doc forbids, and a status file that cannot be
  written ends the worker (relayer.py:326). RPC nodes that lag behind one another are modelled for the
  settlement's simulation, not for the roots.
* In the pool: the fee router and DEX router timelocks, the residual band setter and the attestation
  verifier. Each is an eta, a guard and an assignment. `revokeRouter` leaves a pending proposal in place
  (SP:616), so a revoked router returns when that proposal is executed.
* Staking and fee router, relayer registry, faucet, link registry: contracts beside the pool, whose state
  the pool and the lander never read. Their own hazards: the rounding of distributed rewards
  (`NoxShieldStaking.sol:159`), the swap-and-pop of the active list (`RelayerRegistry.sol:117`), the
  reset of an epoch's budget (`NOXFaucet.sol:135`) and links that must stay inverse
  (`LinkRegistry.sol:100`).

## 7. Plan

Done, in this order: lever, policy, gate, both together, ledger, tree, lander, with the theorems of
section 4; then the roots clock with the bounty, the tool's tree, the bytecode generator with its
machine, and the tape; then theorems for the sums of the pool, the tree, the tool,
the queue, the tape and its plan, and the packed permutation.

What could follow: `Rewards`, for staking with the fee router (stakes and rewards are always covered,
rounding never favours the claimant); `PoolRoutes`, for the two router timelocks.
