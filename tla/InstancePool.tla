---------------------------- MODULE InstancePool ----------------------------
(***************************************************************************)
(* The pool of WebAssembly instances of one loaded module                  *)
(* (internal/engine/wasm/pool.go).  Three kinds of goroutine share it:     *)
(* request goroutines that Borrow and Return instances, the one            *)
(* replenishLoop that keeps the idle channel warm, and the goroutines that *)
(* retire the pool with DrainAndClose (a hot reload's cleanup and engine   *)
(* shutdown may overlap).  Every channel operation, atomic addition and    *)
(* mutex section is a step of its own.                                     *)
(***************************************************************************)
EXTENDS Integers, FiniteSets

CONSTANTS Borrowers,   \* request goroutines
          Drainers,    \* goroutines that call DrainAndClose
          MaxSize,     \* capacity of the tokens channel
          WarmSize     \* capacity of the idle channel

ASSUME SizeAssumption ==
    /\ MaxSize \in Nat \ {0}
    /\ WarmSize \in Nat \ {0}

ASSUME FiniteAssumption ==
    /\ IsFiniteSet(Borrowers)
    /\ IsFiniteSet(Drainers)

VARIABLES
    tokens,      \* elements buffered in the tokens channel
    idle,        \* instances buffered in the idle channel
    idleClosed,  \* close(p.idle) has run
    draining,    \* the flag read and set under p.mu
    stop,        \* the replenish context is cancelled
    once,        \* state of the sync.OnceFunc closeIdle
    borrowed,    \* the atomic counter DrainAndClose polls
    live,        \* created - closed
    bpc,         \* where each request goroutine is
    rpc,         \* where replenishLoop is
    dpc          \* where each retiring goroutine is

vars == <<tokens, idle, idleClosed, draining, stop, once, borrowed, live, bpc, rpc, dpc>>

BorrowerStates == {"out", "tryIdle", "select", "instantiate", "dropToken",
                   "got", "using", "retToken", "retDone"}
ReplenishStates == {"select", "instantiate", "failToken", "offer", "dropToken", "done"}
DrainerStates == {"init", "closeIdle", "waitReplenish", "sweep", "sweepToken",
                  "poll", "wait", "drained", "timedOut"}

Init ==
    /\ tokens = 0
    /\ idle = 0
    /\ idleClosed = FALSE
    /\ draining = FALSE
    /\ stop = FALSE
    /\ once = "no"
    /\ borrowed = 0
    /\ live = 0
    /\ bpc = [b \in Borrowers |-> "out"]
    /\ rpc = "select"
    /\ dpc = [d \in Drainers |-> "init"]

-----------------------------------------------------------------------------
(* Borrow and Return *)

BGoto(b, s) == bpc' = [bpc EXCEPT ![b] = s]

\* The draining flag is read under p.mu: a draining pool answers
\* ErrPoolDraining.  The rest of Borrow runs unlocked.
BorrowCheck(b) ==
    /\ bpc[b] = "out"
    /\ BGoto(b, IF draining THEN "out" ELSE "tryIdle")
    /\ UNCHANGED <<tokens, idle, idleClosed, draining, stop, once, borrowed, live, rpc, dpc>>

\* Mutant: a warm instance is handed out without afterBorrow.
RecvIdle_Uncounted(b) ==
    /\ idle > 0
    /\ idle' = idle - 1
    /\ BGoto(b, "using")
    /\ UNCHANGED <<tokens, idleClosed, draining, stop, once, borrowed, live, rpc, dpc>>

\* A receive takes a buffered instance even after close(p.idle).
RecvIdle(b) ==
    /\ idle > 0
    /\ idle' = idle - 1
    /\ BGoto(b, "got")
    /\ UNCHANGED <<tokens, idleClosed, draining, stop, once, borrowed, live, rpc, dpc>>

\* A receive from the closed and empty channel yields !ok: ErrPoolDraining.
RecvClosed(b) ==
    /\ idleClosed
    /\ idle = 0
    /\ BGoto(b, "out")
    /\ UNCHANGED <<tokens, idle, idleClosed, draining, stop, once, borrowed, live, rpc, dpc>>

\* The first, non-blocking select: default falls through to the second one.
BorrowTryIdle(b) ==
    /\ bpc[b] = "tryIdle"
    /\ \/ RecvIdle(b)
       \/ RecvClosed(b)
       \/ /\ idle = 0
          /\ ~idleClosed
          /\ BGoto(b, "select")
          /\ UNCHANGED <<tokens, idle, idleClosed, draining, stop, once, borrowed, live, rpc, dpc>>

\* The blocking select that waits for a token, an instance or the timeout.
BorrowToken(b) ==
    /\ bpc[b] = "select"
    /\ tokens < MaxSize
    /\ tokens' = tokens + 1
    /\ BGoto(b, "instantiate")
    /\ UNCHANGED <<idle, idleClosed, draining, stop, once, borrowed, live, rpc, dpc>>

BorrowSelectIdle(b) ==
    /\ bpc[b] = "select"
    /\ RecvIdle(b) \/ RecvClosed(b)

\* Mutant: only a cancelled pool ends the wait, not the caller's timeout.
BorrowTimeout_OnlyStop(b) ==
    /\ bpc[b] = "select"
    /\ stop
    /\ BGoto(b, "out")
    /\ UNCHANGED <<tokens, idle, idleClosed, draining, stop, once, borrowed, live, rpc, dpc>>

\* ctx.Done() or BorrowTimeout: ErrPoolTimeout.
BorrowTimeout(b) ==
    /\ bpc[b] = "select"
    /\ BGoto(b, "out")
    /\ UNCHANGED <<tokens, idle, idleClosed, draining, stop, once, borrowed, live, rpc, dpc>>

\* Mutant: a failed instantiation keeps its token.
BorrowInstantiate_LeakToken(b) ==
    /\ bpc[b] = "instantiate"
    /\ \/ live' = live + 1 /\ BGoto(b, "got")
       \/ live' = live /\ BGoto(b, "out")
    /\ UNCHANGED <<tokens, idle, idleClosed, draining, stop, once, borrowed, rpc, dpc>>

\* newModuleInstance succeeds, or fails and Borrow must give the token back.
BorrowInstantiate(b) ==
    /\ bpc[b] = "instantiate"
    /\ \/ live' = live + 1 /\ BGoto(b, "got")
       \/ live' = live /\ BGoto(b, "dropToken")
    /\ UNCHANGED <<tokens, idle, idleClosed, draining, stop, once, borrowed, rpc, dpc>>

BorrowDropToken(b) ==
    /\ bpc[b] = "dropToken"
    /\ tokens > 0
    /\ tokens' = tokens - 1
    /\ BGoto(b, "out")
    /\ UNCHANGED <<idle, idleClosed, draining, stop, once, borrowed, live, rpc, dpc>>

AfterBorrow(b) ==
    /\ bpc[b] = "got"
    /\ borrowed' = borrowed + 1
    /\ BGoto(b, "using")
    /\ UNCHANGED <<tokens, idle, idleClosed, draining, stop, once, live, rpc, dpc>>

\* Mutant: the token is released with the instance and then once more.
ReturnClose_DoubleRelease(b) ==
    /\ bpc[b] = "using"
    /\ live' = live - 1
    /\ tokens' = tokens - 1
    /\ BGoto(b, "retToken")
    /\ UNCHANGED <<idle, idleClosed, draining, stop, once, borrowed, rpc, dpc>>

\* Return closes the instance (never puts it back on idle), ...
ReturnClose(b) ==
    /\ bpc[b] = "using"
    /\ live' = live - 1
    /\ BGoto(b, "retToken")
    /\ UNCHANGED <<tokens, idle, idleClosed, draining, stop, once, borrowed, rpc, dpc>>

\* ... releases its token, ...
ReturnToken(b) ==
    /\ bpc[b] = "retToken"
    /\ tokens > 0
    /\ tokens' = tokens - 1
    /\ BGoto(b, "retDone")
    /\ UNCHANGED <<idle, idleClosed, draining, stop, once, borrowed, live, rpc, dpc>>

\* ... and the deferred decrement runs last.
ReturnDone(b) ==
    /\ bpc[b] = "retDone"
    /\ borrowed' = borrowed - 1
    /\ BGoto(b, "out")
    /\ UNCHANGED <<tokens, idle, idleClosed, draining, stop, once, live, rpc, dpc>>

-----------------------------------------------------------------------------
(* replenishLoop *)

\* With the context cancelled and a token free, Go's select may take either case.
ReplenishStop ==
    /\ rpc = "select"
    /\ stop
    /\ rpc' = "done"
    /\ UNCHANGED <<tokens, idle, idleClosed, draining, stop, once, borrowed, live, bpc, dpc>>

\* Mutant: the replenisher does not wait for a free token.
ReplenishToken_NoCap ==
    /\ rpc = "select"
    /\ tokens' = tokens + 1
    /\ rpc' = "instantiate"
    /\ UNCHANGED <<idle, idleClosed, draining, stop, once, borrowed, live, bpc, dpc>>

ReplenishToken ==
    /\ rpc = "select"
    /\ tokens < MaxSize
    /\ tokens' = tokens + 1
    /\ rpc' = "instantiate"
    /\ UNCHANGED <<idle, idleClosed, draining, stop, once, borrowed, live, bpc, dpc>>

ReplenishInstantiate ==
    /\ rpc = "instantiate"
    /\ \/ live' = live + 1 /\ rpc' = "offer"
       \/ live' = live /\ rpc' = "failToken"
    /\ UNCHANGED <<tokens, idle, idleClosed, draining, stop, once, borrowed, bpc, dpc>>

\* A failed instantiation gives the token back and, after a pause, loops.
ReplenishFailToken ==
    /\ rpc = "failToken"
    /\ tokens > 0
    /\ tokens' = tokens - 1
    /\ rpc' = "select"
    /\ UNCHANGED <<idle, idleClosed, draining, stop, once, borrowed, live, bpc, dpc>>

ReplenishOffer ==
    /\ rpc = "offer"
    /\ idle < WarmSize
    /\ idle' = idle + 1
    /\ rpc' = "select"
    /\ UNCHANGED <<tokens, idleClosed, draining, stop, once, borrowed, live, bpc, dpc>>

\* Mutant: the instance in hand is dropped without being closed.
ReplenishOfferStop_NotClosed ==
    /\ rpc = "offer"
    /\ stop
    /\ rpc' = "dropToken"
    /\ UNCHANGED <<tokens, idle, idleClosed, draining, stop, once, borrowed, live, bpc, dpc>>

\* Cancelled while the idle channel is full: close the instance just made.
ReplenishOfferStop ==
    /\ rpc = "offer"
    /\ stop
    /\ live' = live - 1
    /\ rpc' = "dropToken"
    /\ UNCHANGED <<tokens, idle, idleClosed, draining, stop, once, borrowed, bpc, dpc>>

ReplenishDropToken ==
    /\ rpc = "dropToken"
    /\ tokens > 0
    /\ tokens' = tokens - 1
    /\ rpc' = "done"
    /\ UNCHANGED <<idle, idleClosed, draining, stop, once, borrowed, live, bpc, dpc>>

-----------------------------------------------------------------------------
(* DrainAndClose *)

DGoto(d, s) == dpc' = [dpc EXCEPT ![d] = s]

DrainStart(d) ==
    /\ dpc[d] = "init"
    /\ draining' = TRUE
    /\ DGoto(d, "closeIdle")
    /\ UNCHANGED <<tokens, idle, idleClosed, stop, once, borrowed, live, bpc, rpc>>

\* Mutant: closeIdle waits for replenishLoop without cancelling it.
CloseIdleFirst_NoStop(d) ==
    /\ dpc[d] = "closeIdle"
    /\ once = "no"
    /\ once' = "running"
    /\ DGoto(d, "waitReplenish")
    /\ UNCHANGED <<tokens, idle, idleClosed, draining, stop, borrowed, live, bpc, rpc>>

\* The first caller runs closeIdle's body, beginning with stopReplenish().
CloseIdleFirst(d) ==
    /\ dpc[d] = "closeIdle"
    /\ once = "no"
    /\ once' = "running"
    /\ stop' = TRUE
    /\ DGoto(d, "waitReplenish")
    /\ UNCHANGED <<tokens, idle, idleClosed, draining, borrowed, live, bpc, rpc>>

\* sync.OnceFunc makes later callers wait for the first one to finish.
CloseIdleLater(d) ==
    /\ dpc[d] = "closeIdle"
    /\ once = "done"
    /\ DGoto(d, "poll")
    /\ UNCHANGED <<tokens, idle, idleClosed, draining, stop, once, borrowed, live, bpc, rpc>>

\* Mutant: the channel is closed without waiting for its sender.
CloseIdleChannel_NoWait(d) ==
    /\ dpc[d] = "waitReplenish"
    /\ idleClosed' = TRUE
    /\ DGoto(d, "sweep")
    /\ UNCHANGED <<tokens, idle, draining, stop, once, borrowed, live, bpc, rpc>>

\* <-p.replenishDone, then close(p.idle).
CloseIdleChannel(d) ==
    /\ dpc[d] = "waitReplenish"
    /\ rpc = "done"
    /\ idleClosed' = TRUE
    /\ DGoto(d, "sweep")
    /\ UNCHANGED <<tokens, idle, draining, stop, once, borrowed, live, bpc, rpc>>

\* for inst := range p.idle: close the instance ...
SweepIdle(d) ==
    /\ dpc[d] = "sweep"
    /\ idle > 0
    /\ idle' = idle - 1
    /\ live' = live - 1
    /\ DGoto(d, "sweepToken")
    /\ UNCHANGED <<tokens, idleClosed, draining, stop, once, borrowed, bpc, rpc>>

\* ... and release its token.
SweepToken(d) ==
    /\ dpc[d] = "sweepToken"
    /\ tokens > 0
    /\ tokens' = tokens - 1
    /\ DGoto(d, "sweep")
    /\ UNCHANGED <<idle, idleClosed, draining, stop, once, borrowed, live, bpc, rpc>>

\* Mutant: the sweep ends with instances still buffered.
SweepDone_Early(d) ==
    /\ dpc[d] = "sweep"
    /\ once' = "done"
    /\ DGoto(d, "poll")
    /\ UNCHANGED <<tokens, idle, idleClosed, draining, stop, borrowed, live, bpc, rpc>>

SweepDone(d) ==
    /\ dpc[d] = "sweep"
    /\ idle = 0
    /\ once' = "done"
    /\ DGoto(d, "poll")
    /\ UNCHANGED <<tokens, idle, idleClosed, draining, stop, borrowed, live, bpc, rpc>>

\* The poll loop: borrowed == 0 returns nil, anything else waits ...
DrainPoll(d) ==
    /\ dpc[d] = "poll"
    /\ DGoto(d, IF borrowed = 0 THEN "drained" ELSE "wait")
    /\ UNCHANGED <<tokens, idle, idleClosed, draining, stop, once, borrowed, live, bpc, rpc>>

\* ... for the next tick ...
DrainTick(d) ==
    /\ dpc[d] = "wait"
    /\ DGoto(d, "poll")
    /\ UNCHANGED <<tokens, idle, idleClosed, draining, stop, once, borrowed, live, bpc, rpc>>

\* ... or the deadline, which returns ctx.Err().
DrainTimeout(d) ==
    /\ dpc[d] = "wait"
    /\ DGoto(d, "timedOut")
    /\ UNCHANGED <<tokens, idle, idleClosed, draining, stop, once, borrowed, live, bpc, rpc>>

-----------------------------------------------------------------------------
Borrow(b) ==
    \/ BorrowCheck(b) \/ BorrowTryIdle(b) \/ BorrowToken(b) \/ BorrowSelectIdle(b)
    \/ BorrowTimeout(b) \/ BorrowInstantiate(b) \/ BorrowDropToken(b) \/ AfterBorrow(b)

Return(b) == ReturnClose(b) \/ ReturnToken(b) \/ ReturnDone(b)

replenishLoop ==
    \/ ReplenishStop \/ ReplenishToken \/ ReplenishInstantiate \/ ReplenishFailToken
    \/ ReplenishOffer \/ ReplenishOfferStop \/ ReplenishDropToken

CloseIdle(d) ==
    \/ CloseIdleFirst(d) \/ CloseIdleLater(d) \/ CloseIdleChannel(d)
    \/ SweepIdle(d) \/ SweepToken(d) \/ SweepDone(d)

PollBorrowed(d) == DrainPoll(d) \/ DrainTick(d) \/ DrainTimeout(d)

DrainAndClose(d) == DrainStart(d) \/ CloseIdle(d) \/ PollBorrowed(d)

Next ==
    \/ \E b \in Borrowers : Borrow(b) \/ Return(b)
    \/ replenishLoop
    \/ \E d \in Drainers : DrainAndClose(d)

Spec == Init /\ [][Next]_vars

(***************************************************************************)
(* Fairness.  The Go scheduler runs every runnable goroutine, hence weak   *)
(* fairness for a call that has begun; nothing makes a request arrive, a   *)
(* borrower give its instance back or anyone start a drain.  A select with *)
(* several ready cases picks one at random, and a cancelled context or a   *)
(* passed deadline stays ready, hence strong fairness for those two cases. *)
(***************************************************************************)
Fairness ==
    /\ \A b \in Borrowers : WF_vars(Borrow(b) /\ bpc[b] # "out")
    /\ WF_vars(replenishLoop)
    /\ SF_vars(ReplenishStop)
    /\ \A d \in Drainers : WF_vars(CloseIdle(d) \/ PollBorrowed(d)) /\ SF_vars(DrainTimeout(d))

FairSpec == Spec /\ Fairness

-----------------------------------------------------------------------------
(* What the pool promises *)

TypeOK ==
    /\ tokens \in 0..MaxSize
    /\ idle \in 0..WarmSize
    /\ idleClosed \in BOOLEAN
    /\ draining \in BOOLEAN
    /\ stop \in BOOLEAN
    /\ once \in {"no", "running", "done"}
    /\ borrowed \in Nat
    /\ live \in Nat
    /\ bpc \in [Borrowers -> BorrowerStates]
    /\ rpc \in ReplenishStates
    /\ dpc \in [Drainers -> DrainerStates]

\* How many goroutines are in one of the states Q.
Count(pc, Q) == Cardinality({x \in DOMAIN pc : pc[x] \in Q})

\* Where a goroutine has taken a token and owes it back, where it holds an
\* open instance, where it is counted in borrowed, and where it runs
\* closeIdle's body.
TokenStates == {"instantiate", "dropToken", "got", "using", "retToken"}
InstanceStates == {"got", "using"}
BorrowedStates == {"using", "retToken", "retDone"}
SweepTokenStates == {"sweepToken"}
CloserStates == {"waitReplenish", "sweep", "sweepToken"}
ReplenishTokens == IF rpc \in {"instantiate", "failToken", "offer", "dropToken"} THEN 1 ELSE 0
ReplenishInstances == IF rpc = "offer" THEN 1 ELSE 0

\* The tokens buffered in the channel are exactly those owed by an idle
\* instance or by a goroutine between its acquire and its release: no path
\* through Borrow, Return, replenishLoop or closeIdle loses or doubles one.
TokenAccounting ==
    tokens = idle + Count(bpc, TokenStates) + ReplenishTokens + Count(dpc, SweepTokenStates)

\* created - closed counts exactly the instances that are idle, borrowed or
\* in replenishLoop's hands, and there are never more than MaxSize of them,
\* however instantiation failures, returns and a drain interleave.
InstanceAccounting ==
    /\ live = idle + Count(bpc, InstanceStates) + ReplenishInstances
    /\ live <= MaxSize

\* borrowed, the counter DrainAndClose polls, counts the callers between
\* afterBorrow and Return's deferred decrement.
BorrowedAccounting == borrowed = Count(bpc, BorrowedStates)

\* No receive on the tokens channel that means "give my token back" can
\* block: a goroutine that reached one always finds a token there.
ReleaseNeverBlocks ==
    (\/ \E b \in Borrowers : bpc[b] \in {"dropToken", "retToken"}
     \/ rpc \in {"failToken", "dropToken"}
     \/ \E d \in Drainers : dpc[d] = "sweepToken") => tokens > 0

\* close(p.idle) runs once and only after replenishLoop, the channel's one
\* sender, has ended: a send on the closed channel would panic the engine.
NoSendOnClosed ==
    /\ idleClosed => rpc = "done"
    /\ \A d, e \in Drainers :
           dpc[d] \in CloserStates /\ dpc[e] \in CloserStates => d = e

\* When closeIdle has finished and no request is inside the pool, every
\* instance ever created is closed and every token is back.
NothingLeaks ==
    once = "done" /\ (\A b \in Borrowers : bpc[b] = "out") =>
        tokens = 0 /\ live = 0 /\ borrowed = 0

\* The drain protocol: one goroutine at a time runs closeIdle's body, the
\* channel is closed before it is swept, and a finished closeIdle leaves it
\* closed and empty for good.
DrainProtocol ==
    /\ (\E d \in Drainers : dpc[d] \in CloserStates) => once = "running"
    /\ \A d \in Drainers : dpc[d] \in {"sweep", "sweepToken"} => idleClosed
    /\ once = "done" => idleClosed /\ idle = 0

\* The inductive invariant the proofs use.
PoolInv ==
    /\ TypeOK
    /\ TokenAccounting
    /\ live = idle + Count(bpc, InstanceStates) + ReplenishInstances
    /\ BorrowedAccounting
    /\ NoSendOnClosed
    /\ DrainProtocol

\* Every DrainAndClose returns, even if a borrower never gives its instance
\* back and whoever else is draining the same pool.
DrainReturns ==
    \A d \in Drainers : dpc[d] = "closeIdle" ~> dpc[d] \in {"drained", "timedOut"}

\* Every Borrow ends: with an instance or with an error.
BorrowReturns ==
    \A b \in Borrowers : bpc[b] = "tryIdle" ~> bpc[b] \in {"using", "out"}
=============================================================================
