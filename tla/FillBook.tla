------------------------------ MODULE FillBook ------------------------------
(***************************************************************************)
(* The books of the live loop for one option contract: the account at the  *)
(* broker, the fill-derived local book and the sleeves' own books, kept in *)
(* step by live/runner.py (_sync_from_broker, _reattribute_sleeves,        *)
(* _ingest_fills, _close_expiring_options, _signal_to_order) over the      *)
(* broker adapters (execution/alpaca_broker.py, sim_broker.py).            *)
(*                                                                         *)
(* The broker works while the loop does: with Alpaca an order fills at any *)
(* time after it was sent, between any two calls of the loop; SimBroker    *)
(* fills it inside the call.  All memory of the loop dies with its         *)
(* process, SimBroker and its account with it; the trades table and an     *)
(* account at Alpaca stay.  SQLite does not fail here, and an order fills  *)
(* whole or not at all.                                                    *)
(***************************************************************************)
EXTENDS Integers, Sequences, FiniteSetsExt

CONSTANTS
    Sleeves,      \* the strategies trading the contract
    Setups,       \* circumstances to consider (see SetupType)
    MaxOrders,    \* most orders ever sent         (bound)
    MaxCrashes    \* most process restarts         (bound)

(* broker: the adapter in use.  expires: the contract expires today.       *)
(* quiet: a restart finds no order working and every fill ingested.        *)
(* faults: at Alpaca a poll of the fills may time out and the answer to an *)
(* order may be lost, and the kill switch may flatten the account.         *)
SetupType == [broker: {"alpaca", "sim"}, expires: BOOLEAN,
              quiet: BOOLEAN, faults: BOOLEAN]

ASSUME BookAssumption ==
    /\ IsFiniteSet(Sleeves) /\ Setups \subseteq SetupType
    /\ MaxOrders \in Nat /\ MaxCrashes \in Nat
    /\ {"expiry_guard", "kill_switch", "unattributed", "none"}
           \cap Sleeves = {}

VARIABLES
    setup,        \* the circumstances, fixed
    orders,       \* every order the broker accepted, in order of arrival
    pc,           \* where the loop is
    toRun,        \* sleeves still to run in this pass
    snapQty,      \* position as get_positions returned it
    localQty,     \* LiveRunner._local_qty
    seeded,       \* LiveRunner._local_seeded
    seen,         \* orders whose fill was returned by get_fills once
    meta,         \* orders whose sender this process remembers
    sleeveQty,    \* position in each sleeve's own book
    lastOwner,    \* strategy_id of the newest trade              (durable)
    cutoff,       \* expiry_flatten_after_utc has passed
    guardSent,    \* the contract is in _expiry_guard_sent
    tripped,      \* the reconciliation breaker's last verdict
    crashes

loopVars   == <<pc, toRun>>
bookVars   == <<localQty, seeded, seen, sleeveQty, lastOwner>>
vars == <<setup, orders, loopVars, snapQty, bookVars, meta, cutoff, guardSent,
          tripped, crashes>>

Senders == Sleeves \cup {"expiry_guard", "kill_switch"}
Orders  == 1..Len(orders)

Qty         == [i \in Orders |-> orders[i].qty]
SumQty(ids) == SumFunctionOnSet(Qty, ids)

Working == {i \in Orders : orders[i].state = "working"}
Filled  == {i \in Orders : orders[i].state = "filled"}

(* What the account holds, and the fills the loop has not been told of.    *)
AccountQty == SumQty(Filled)
Unseen     == Filled \ seen

-----------------------------------------------------------------------------
Init ==
    /\ setup \in Setups
    /\ orders = <<>>
    /\ pc = "start"
    /\ toRun = {}
    /\ snapQty = 0
    /\ localQty = 0
    /\ seeded = FALSE
    /\ seen = {}
    /\ meta = {}
    /\ sleeveQty = [s \in Sleeves |-> 0]
    /\ lastOwner = "none"
    /\ cutoff = FALSE
    /\ guardSent = FALSE
    /\ tripped = FALSE
    /\ crashes = 0

(* An order reaches the broker: SimBroker fills it at once, with Alpaca it *)
(* is left working.                                                        *)
Accept(sender, qty) ==
    /\ Len(orders) < MaxOrders
    /\ orders' = Append(orders,
           [by |-> sender, qty |-> qty,
            state |-> IF setup.broker = "sim" THEN "filled" ELSE "working"])

(* submit_order returns: adapter and loop remember who sent the order.     *)
Submit(sender, qty) ==
    /\ Accept(sender, qty)
    /\ meta' = meta \cup {Len(orders) + 1}

(* submit_order times out after the order got through: that exception is   *)
(* not a BrokerError, nothing is remembered and the iteration ends.        *)
ReplyLost(sender, qty) ==
    /\ setup.faults /\ setup.broker = "alpaca"
    /\ Accept(sender, qty)
    /\ pc' = "start"
    /\ toRun' = {}
    /\ UNCHANGED <<setup, snapQty, bookVars, meta, cutoff, guardSent, tripped,
                   crashes>>

-----------------------------------------------------------------------------
(* _sync_from_broker *)

(* get_positions: the master book is rebuilt from it.                      *)
GetPositions ==
    /\ pc = "start"
    /\ pc' = IF seeded THEN "ingest" ELSE "seed"
    /\ snapQty' = AccountQty
    /\ UNCHANGED <<setup, orders, toRun, bookVars, meta, cutoff, guardSent,
                   tripped, crashes>>

(* Mutation: the first sync forgets that the fills of the past are already *)
(* in the positions.                                                       *)
SeedOpen ==
    /\ pc = "seed"
    /\ pc' = "ingest"
    /\ localQty' = snapQty
    /\ seeded' = TRUE
    /\ UNCHANGED <<setup, orders, toRun, snapQty, seen, sleeveQty, lastOwner,
                   meta, cutoff, guardSent, tripped, crashes>>

(* Mutation: orders still working are marked seen with the filled ones. *)
SeedSeesWorking ==
    /\ pc = "seed"
    /\ pc' = "ingest"
    /\ localQty' = snapQty
    /\ seeded' = TRUE
    /\ seen' = Filled \cup Working
    /\ sleeveQty' = [s \in Sleeves |->
                        IF s = lastOwner THEN snapQty ELSE sleeveQty[s]]
    /\ UNCHANGED <<setup, orders, toRun, snapQty, lastOwner, meta, cutoff,
                   guardSent, tripped, crashes>>

(* First sync of a process: the local book starts from the positions, the  *)
(* fills the broker lists now are marked seen, and the whole position goes *)
(* to the sleeve of the newest trade.                                      *)
Seed ==
    /\ pc = "seed"
    /\ pc' = "ingest"
    /\ localQty' = snapQty
    /\ seeded' = TRUE
    /\ seen' = Filled
    /\ sleeveQty' = [s \in Sleeves |->
                        IF s = lastOwner THEN snapQty ELSE sleeveQty[s]]
    /\ UNCHANGED <<setup, orders, toRun, snapQty, lastOwner, meta, cutoff,
                   guardSent, tripped, crashes>>

(* The same with get_fills failing, as only Alpaca's does: a BrokerError is*)
(* swallowed and the rest follows; any other exception ends the iteration, *)
(* with the book seeded but no sleeve restored.                            *)
SeedFails ==
    /\ setup.faults /\ setup.broker = "alpaca"
    /\ pc = "seed"
    /\ localQty' = snapQty
    /\ seeded' = TRUE
    /\ \/ /\ pc' = "ingest"
          /\ sleeveQty' = [s \in Sleeves |->
                              IF s = lastOwner THEN snapQty ELSE sleeveQty[s]]
       \/ /\ pc' = "start"
          /\ UNCHANGED sleeveQty
    /\ UNCHANGED <<setup, orders, toRun, snapQty, seen, lastOwner, meta,
                   cutoff, guardSent, tripped, crashes>>

-----------------------------------------------------------------------------
(* _ingest_fills *)

(* The strategy a fill is booked to: SimBroker keeps the sender with the   *)
(* fill, with Alpaca adapter and loop know the sender only of orders sent  *)
(* by this process.                                                        *)
BookedTo(i) ==
    IF setup.broker = "sim" \/ i \in meta THEN orders[i].by
    ELSE "unattributed"

(* Mutation: every poll applies every fill again. *)
ApplyAllFills ==
    /\ localQty' = localQty + SumQty(Filled)
    /\ sleeveQty' = [s \in Sleeves |->
           sleeveQty[s] + SumQty({i \in Filled : BookedTo(i) = s})]
    /\ seen' = Filled
    /\ IF Unseen = {} THEN UNCHANGED lastOwner
       ELSE \E i \in Unseen : lastOwner' = BookedTo(i)

(* Every new fill goes to the local book, to its sleeve and to the trades  *)
(* table; the broker lists a batch in no order the code relies on.         *)
ApplyFills ==
    /\ localQty' = localQty + SumQty(Unseen)
    /\ sleeveQty' = [s \in Sleeves |->
           sleeveQty[s] + SumQty({i \in Unseen : BookedTo(i) = s})]
    /\ seen' = Filled
    /\ IF Unseen = {} THEN UNCHANGED lastOwner
       ELSE \E i \in Unseen : lastOwner' = BookedTo(i)

(* Both ingests of an iteration; at Alpaca a BrokerError skips one, and a  *)
(* timeout of get_fills ends the iteration.                                *)
IngestFills ==
    /\ pc \in {"ingest", "ingest2"}
    /\ \/ /\ pc' = IF pc = "ingest" THEN "guard" ELSE "start"
          /\ \/ ApplyFills
             \/ /\ setup.broker = "alpaca"
                /\ UNCHANGED <<localQty, sleeveQty, seen, lastOwner>>
       \/ /\ setup.faults /\ setup.broker = "alpaca"
          /\ pc' = "start"
          /\ UNCHANGED <<localQty, sleeveQty, seen, lastOwner>>
    /\ UNCHANGED <<setup, orders, toRun, snapQty, seeded, meta, cutoff,
                   guardSent, tripped, crashes>>

-----------------------------------------------------------------------------
(* _close_expiring_options *)

GuardDue == cutoff /\ setup.expires /\ snapQty # 0 /\ ~guardSent

(* Mutation: the guard does not remember what it has sent. *)
GuardForgets ==
    /\ pc = "guard"
    /\ GuardDue
    /\ pc' = "check"
    /\ Submit("expiry_guard", -snapQty)
    /\ UNCHANGED <<setup, toRun, snapQty, bookVars, cutoff, guardSent,
                   tripped, crashes>>

(* The guard sends the whole position and remembers the contract.          *)
GuardSends ==
    /\ pc = "guard"
    /\ GuardDue
    /\ pc' = "check"
    /\ guardSent' = TRUE
    /\ Submit("expiry_guard", -snapQty)
    /\ UNCHANGED <<setup, toRun, snapQty, bookVars, cutoff, tripped, crashes>>

(* Nothing is due, or the broker raised: next time.  The broker may also   *)
(* answer with a REJECTED order, and that counts as sent.                  *)
GuardPasses ==
    /\ pc = "guard"
    /\ pc' = "check"
    /\ \/ UNCHANGED guardSent
       \/ GuardDue /\ guardSent' = TRUE
    /\ UNCHANGED <<setup, orders, toRun, snapQty, bookVars, meta, cutoff,
                   tripped, crashes>>

GuardReplyLost ==
    /\ pc = "guard"
    /\ GuardDue
    /\ ReplyLost("expiry_guard", -snapQty)

-----------------------------------------------------------------------------
(* Breakers and the strategy pass *)

(* Mutation: a trip is never taken back. *)
CheckLatches ==
    /\ pc = "check"
    /\ tripped' = (tripped \/ snapQty # localQty)
    /\ IF tripped'
       THEN pc' = "start" /\ UNCHANGED toRun
       ELSE \/ pc' = "pass" /\ toRun' = Sleeves
            \/ pc' = "start" /\ UNCHANGED toRun
    /\ UNCHANGED <<setup, orders, snapQty, bookVars, meta, cutoff, guardSent,
                   crashes>>

(* Reconciliation compares the positions read at the start of the          *)
(* iteration with the book as it is after the ingest.  A trip skips the    *)
(* pass; so does the throttle.                                             *)
CheckReconciled ==
    /\ pc = "check"
    /\ tripped' = (snapQty # localQty)
    /\ IF tripped'
       THEN pc' = "start" /\ UNCHANGED toRun
       ELSE \/ pc' = "pass" /\ toRun' = Sleeves
            \/ pc' = "start" /\ UNCHANGED toRun
    /\ UNCHANGED <<setup, orders, snapQty, bookVars, meta, cutoff, guardSent,
                   crashes>>

(* The risk gate on a call with no shares behind it: no short, judged on   *)
(* the positions of the start of the iteration, whatever was sent since.   *)
GateApproves(qty) == snapQty + qty >= 0

(* A sleeve that holds nothing, by its own book, asks for one contract.    *)
SleeveOpens(s) ==
    /\ pc = "pass"
    /\ s \in toRun
    /\ sleeveQty[s] = 0
    /\ toRun' = toRun \ {s}
    /\ Submit(s, 1)
    /\ UNCHANGED <<setup, pc, snapQty, bookVars, cutoff, guardSent, tripped,
                   crashes>>

(* Mutation: a close sells the account's position, not the sleeve's. *)
SleeveClosesAccount(s) ==
    /\ pc = "pass"
    /\ s \in toRun
    /\ snapQty # 0
    /\ toRun' = toRun \ {s}
    /\ Submit(s, -snapQty)
    /\ UNCHANGED <<setup, pc, snapQty, bookVars, cutoff, guardSent, tripped,
                   crashes>>

(* CLOSE: the whole quantity of the sleeve's own book.                     *)
SleeveCloses(s) ==
    /\ pc = "pass"
    /\ s \in toRun
    /\ sleeveQty[s] # 0
    /\ GateApproves(-sleeveQty[s])
    /\ toRun' = toRun \ {s}
    /\ Submit(s, -sleeveQty[s])
    /\ UNCHANGED <<setup, pc, snapQty, bookVars, cutoff, guardSent, tripped,
                   crashes>>

SleeveReplyLost(s) ==
    /\ pc = "pass"
    /\ s \in toRun
    /\ \/ sleeveQty[s] = 0 /\ ReplyLost(s, 1)
       \/ /\ sleeveQty[s] # 0
          /\ GateApproves(-sleeveQty[s])
          /\ ReplyLost(s, -sleeveQty[s])

(* The sleeve has no signal, or its order was refused.                     *)
SleeveSkips(s) ==
    /\ pc = "pass"
    /\ s \in toRun
    /\ toRun' = toRun \ {s}
    /\ UNCHANGED <<setup, orders, pc, snapQty, bookVars, meta, cutoff,
                   guardSent, tripped, crashes>>

PassDone ==
    /\ pc = "pass"
    /\ toRun = {}
    /\ pc' = "ingest2"
    /\ UNCHANGED <<setup, orders, toRun, snapQty, bookVars, meta, cutoff,
                   guardSent, tripped, crashes>>

-----------------------------------------------------------------------------
(* The rest of the world *)

(* The clock passes the expiry cutoff.                                     *)
CutoffPasses ==
    /\ ~cutoff
    /\ cutoff' = TRUE
    /\ UNCHANGED <<setup, orders, loopVars, snapQty, bookVars, meta,
                   guardSent, tripped, crashes>>

(* The broker fills a working order, or drops it unfilled.                 *)
BrokerSettles(i) ==
    /\ i \in Working
    /\ \E end \in {"filled", "dropped"} :
           orders' = [orders EXCEPT ![i].state = end]
    /\ UNCHANGED <<setup, loopVars, snapQty, bookVars, meta, cutoff,
                   guardSent, tripped, crashes>>

(* KillSwitch.engage on another thread: flatten_all cancels what works and *)
(* sells what is held, with orders no sleeve ever sent.                    *)
KillFlattens ==
    /\ setup.faults
    /\ AccountQty # 0
    /\ Len(orders) < MaxOrders
    /\ orders' = Append(
           [i \in Orders |-> IF i \in Working
                             THEN [orders[i] EXCEPT !.state = "dropped"]
                             ELSE orders[i]],
           [by |-> "kill_switch", qty |-> -AccountQty,
            state |-> IF setup.broker = "sim" THEN "filled" ELSE "working"])
    /\ UNCHANGED <<setup, loopVars, snapQty, bookVars, meta, cutoff,
                   guardSent, tripped, crashes>>

(* The process dies and starts again, with a new and empty SimBroker.      *)
Restart ==
    /\ crashes < MaxCrashes
    /\ setup.quiet => Working = {} /\ Unseen = {}
    /\ crashes' = crashes + 1
    /\ pc' = "start"
    /\ toRun' = {}
    /\ snapQty' = 0
    /\ localQty' = 0
    /\ seeded' = FALSE
    /\ seen' = {}
    /\ meta' = {}
    /\ sleeveQty' = [s \in Sleeves |-> 0]
    /\ guardSent' = FALSE
    /\ tripped' = FALSE
    /\ orders' = IF setup.broker = "sim" THEN <<>> ELSE orders
    /\ UNCHANGED <<setup, lastOwner, cutoff>>

LoopStep ==
    \/ GetPositions \/ Seed \/ SeedFails \/ IngestFills \/ GuardSends
    \/ GuardPasses \/ GuardReplyLost \/ CheckReconciled \/ PassDone
    \/ \E s \in Sleeves : \/ SleeveOpens(s) \/ SleeveCloses(s)
                          \/ SleeveSkips(s) \/ SleeveReplyLost(s)

Next ==
    \/ LoopStep
    \/ CutoffPasses
    \/ \E i \in Orders : BrokerSettles(i)
    \/ KillFlattens
    \/ Restart

Spec == Init /\ [][Next]_vars

(* The loop keeps running, and a poll of the fills does not fail for ever. *)
Fairness ==
    /\ WF_vars(LoopStep)
    /\ SF_vars(IngestFills /\ seen' = Filled)

FairSpec == Spec /\ Fairness

-----------------------------------------------------------------------------
(* Properties                                                              *)

(* Every variable keeps its type; only filled orders are ever seen.        *)
TypeOK ==
    /\ setup \in Setups
    /\ orders \in Seq([by: Senders, qty: Int,
                       state: {"working", "filled", "dropped"}])
    /\ Len(orders) <= MaxOrders
    /\ pc \in {"start", "seed", "ingest", "guard", "check", "pass", "ingest2"}
    /\ toRun \subseteq Sleeves
    /\ snapQty \in Int /\ localQty \in Int /\ sleeveQty \in [Sleeves -> Int]
    /\ seeded \in BOOLEAN /\ cutoff \in BOOLEAN
    /\ guardSent \in BOOLEAN /\ tripped \in BOOLEAN
    /\ seen \subseteq Filled /\ meta \subseteq Orders
    /\ lastOwner \in Sleeves \cup {"none", "unattributed", "expiry_guard",
                                 "kill_switch"}
    /\ crashes \in 0..MaxCrashes

(* By how much the local book, once it has been told of every fill, would  *)
(* differ from the account.                                                *)
Drift == localQty + SumQty(Unseen) - AccountQty

(* The local book and the fills still to come account for the position at  *)
(* the broker to the contract, after restarts into an existing position    *)
(* too (runner.py 129: fills of the past must not be counted twice).       *)
BookMatchesAccount == seeded => Drift = 0

(* Each fill reaches the local book once and whole: whatever is lost,      *)
(* delayed, polled twice or sold by other threads, the divergence between  *)
(* the book and the account is settled by the first sync of the process.   *)
FillsCountOnce == [][seeded /\ seeded' => Drift' = Drift]_vars

(* The sleeves' own books add up to the local book, so no sleeve sells     *)
(* what another one owns or manages a position that is not there.          *)
SleevesOwnBook ==
    seeded => SumFunctionOnSet(sleeveQty, Sleeves) = localQty

(* Where restarts are quiet and the broker answers, the local book agrees  *)
(* with the account, and while the expiry guard has no business with the   *)
(* contract, the sleeves' books with the local book.                       *)
CalmBooksAgree ==
    setup.quiet /\ ~setup.faults =>
        BookMatchesAccount /\ (setup.expires \/ SleevesOwnBook)

(* The account is never short of the contract, the one exposure the        *)
(* platform bans outright.                                                 *)
NeverShort == AccountQty >= 0

(* Fresh books keep it so: where every order fills within its call and the *)
(* guard has no business with the contract, no sequence of closes,         *)
(* re-entries and restarts sells what is not held.                         *)
CalmNeverShort ==
    /\ setup.broker = "sim" /\ setup.quiet
    /\ ~setup.faults /\ ~setup.expires
    => NeverShort

(* The guard sends one flatten per process and day, however long the first *)
(* stays working and the position keeps showing.                           *)
GuardSendsOnce ==
    ~setup.faults =>
        Cardinality({i \in Orders : orders[i].by = "expiry_guard"})
            <= 1 + crashes

(* A fill that lands between the positions and the fills of one iteration  *)
(* trips the breaker for that iteration only: once no order is working,    *)
(* reconciliation clears and stays clear.                                  *)
QuietAccountReconciles ==
    setup.quiet /\ ~setup.faults =>
        (<>[](Working = {}) => <>[]~tripped)
=============================================================================
