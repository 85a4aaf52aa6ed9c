---------------------------- MODULE FillBookProofs ----------------------------
(***************************************************************************)
(* Theorems about FillBook, for any sleeves, any number of orders and of   *)
(* restarts.  Positions are sums over the orders: Arithmetic has what the  *)
(* proofs need to know of them.                                            *)
(***************************************************************************)
EXTENDS FillBook, Arithmetic, SequenceTheorems

USE BookAssumption DEF BookAssumption

-----------------------------------------------------------------------------
(* The orders at the broker *)

States == {"working", "filled", "dropped"}
OrdersOver(Q) == Seq([by : Senders, qty : Q, state : States])

(* The part of the type invariant that says nothing of quantities.         *)
Listed ==
    /\ \E Q : orders \in OrdersOver(Q)
    /\ crashes \in Nat /\ guardSent \in BOOLEAN

(* An order that reaches the broker is the last of a list that is as it    *)
(* was before.                                                             *)
LEMMA AcceptGives ==
    ASSUME Listed, NEW sender \in Senders, NEW qty, Accept(sender, qty)
    PROVE  /\ \E Q : orders' \in OrdersOver(Q)
           /\ Len(orders) \in Nat /\ Len(orders') = Len(orders) + 1
           /\ \A i \in 1..Len(orders) : orders'[i] = orders[i]
           /\ orders'[Len(orders) + 1].by = sender
<1> DEFINE new == [by |-> sender, qty |-> qty,
                   state |-> IF setup.broker = "sim" THEN "filled" ELSE "working"]
<1>1. PICK Q : orders \in OrdersOver(Q)
  BY DEF Listed
<1> DEFINE Both == Q \cup {qty}
           Order == [by : Senders, qty : Both, state : States]
<1>2. orders \in Seq(Order)
  <2>1. [by : Senders, qty : Q, state : States] \subseteq Order
    OBVIOUS
  <2> QED
    BY <1>1, <2>1, SeqMonotonic DEF OrdersOver
<1>3. new \in Order
  BY DEF States
<1>4. orders' = Append(orders, new)
  BY DEF Accept
<1>5. new.by = sender
  OBVIOUS
<1> HIDE DEF new, Order
<1>6. /\ orders' \in Seq(Order) /\ Len(orders) \in Nat
      /\ Len(orders') = Len(orders) + 1
      /\ \A i \in 1..Len(orders) : orders'[i] = orders[i]
      /\ orders'[Len(orders) + 1] = new
  BY <1>2, <1>3, <1>4, AppendProperties
<1> QED
  BY <1>5, <1>6 DEF OrdersOver, Order

-----------------------------------------------------------------------------
(* One flatten per process *)

GuardOrders == {i \in Orders : orders[i].by = "expiry_guard"}

(* The guard's orders are finitely many, and no more than the processes    *)
(* there have been, less the present one while it has sent none.           *)
Counted ==
    /\ IsFiniteSet(GuardOrders)
    /\ Cardinality(GuardOrders) <= crashes + IF guardSent THEN 1 ELSE 0

GuardInv == Listed /\ (~setup.faults => Counted)

LEMMA InitGuard == Init => GuardInv
<1> SUFFICES ASSUME Init PROVE GuardInv
  OBVIOUS
<1>1. orders = <<>> /\ crashes = 0
  BY DEF Init
<1>2. Listed
  <2>1. orders \in OrdersOver({})
    BY <1>1, EmptySeq DEF OrdersOver
  <2>2. guardSent \in BOOLEAN
    BY Zenon DEF Init
  <2> QED
    BY <1>1, <2>1, <2>2 DEF Listed
<1>3. GuardOrders = {}
  BY <1>1 DEF GuardOrders, Orders
<1>4. Counted
  BY <1>1, <1>3, FS_EmptySet DEF Counted
<1> QED
  BY <1>2, <1>4 DEF GuardInv

(* An order of another sender leaves the guard's as they are; one of the   *)
(* guard's adds one.                                                       *)
LEMMA AcceptCounts ==
    ASSUME Listed, NEW sender \in Senders, NEW qty, Accept(sender, qty),
           IsFiniteSet(GuardOrders)
    PROVE  /\ sender # "expiry_guard" => GuardOrders' = GuardOrders
           /\ IsFiniteSet(GuardOrders')
           /\ Cardinality(GuardOrders') <= Cardinality(GuardOrders) + 1
           /\ Cardinality(GuardOrders) \in Nat /\ Cardinality(GuardOrders') \in Nat
<1>1. /\ Len(orders) \in Nat /\ Len(orders') = Len(orders) + 1
      /\ \A i \in 1..Len(orders) : orders'[i] = orders[i]
      /\ orders'[Len(orders) + 1].by = sender
  BY AcceptGives
<1>2. /\ \A i \in 1..Len(orders') : i \in 1..Len(orders) \/ i = Len(orders) + 1
      /\ 1..Len(orders) \subseteq 1..Len(orders')
      /\ Len(orders) + 1 \notin 1..Len(orders)
  BY <1>1
<1>3. sender # "expiry_guard" => GuardOrders' = GuardOrders
  BY <1>1, <1>2 DEF GuardOrders, Orders
<1>4. GuardOrders' \subseteq GuardOrders \cup {Len(orders) + 1}
  BY <1>1, <1>2 DEF GuardOrders, Orders
<1>5. /\ IsFiniteSet(GuardOrders \cup {Len(orders) + 1})
      /\ Cardinality(GuardOrders \cup {Len(orders) + 1})
             <= Cardinality(GuardOrders) + 1
      /\ Cardinality(GuardOrders) \in Nat
  <2>1. Cardinality(GuardOrders) \in Nat
    BY FS_CardinalityType
  <2>2. /\ IsFiniteSet(GuardOrders \cup {Len(orders) + 1})
        /\ \/ Cardinality(GuardOrders \cup {Len(orders) + 1})
                  = Cardinality(GuardOrders)
           \/ Cardinality(GuardOrders \cup {Len(orders) + 1})
                  = Cardinality(GuardOrders) + 1
    BY FS_AddElement
  <2> QED
    BY <2>1, <2>2
<1>6. /\ IsFiniteSet(GuardOrders')
      /\ Cardinality(GuardOrders')
             <= Cardinality(GuardOrders \cup {Len(orders) + 1})
  BY <1>4, <1>5, FS_Subset
<1>7. /\ Cardinality(GuardOrders') \in Nat
      /\ Cardinality(GuardOrders \cup {Len(orders) + 1}) \in Nat
  BY <1>5, <1>6, FS_CardinalityType
<1> QED
  BY <1>3, <1>5, <1>6, <1>7

(* An order of a sleeve.                                                   *)
LEMMA SleeveOrders ==
    ASSUME GuardInv, NEW sender \in Sleeves, NEW qty, Accept(sender, qty),
           setup' = setup, crashes' = crashes, guardSent' = guardSent
    PROVE  GuardInv'
<1>1. sender \in Senders /\ sender # "expiry_guard" /\ Listed
  BY DEF Senders, GuardInv
<1>2. Listed'
  BY <1>1, AcceptGives, Zenon DEF Listed
<1>3. ASSUME ~setup.faults PROVE Counted'
  <2>1. Counted
    BY <1>3 DEF GuardInv
  <2>2. GuardOrders' = GuardOrders
    BY <1>1, <2>1, AcceptCounts DEF Counted
  <2> QED
    BY <2>1, <2>2 DEF Counted
<1> QED
  BY <1>2, <1>3 DEF GuardInv

(* The loop's steps that send nothing.                                     *)
LEMMA NothingSent ==
    ASSUME GuardInv, orders' = orders, crashes' = crashes, setup' = setup,
           guardSent' = guardSent \/ guardSent' = TRUE
    PROVE  GuardInv'
<1>1. Listed'
  BY Zenon DEF GuardInv, Listed
<1>2. ASSUME Counted PROVE Counted'
  <2>1. GuardOrders' = GuardOrders
    BY DEF GuardOrders, Orders
  <2>2. Cardinality(GuardOrders) \in Nat /\ crashes \in Nat
    BY <1>2, FS_CardinalityType DEF Counted, GuardInv, Listed
  <2>3. Cardinality(GuardOrders) <= crashes \/ (guardSent' /\ Cardinality(GuardOrders) <= crashes + 1)
    BY <1>2, <2>2 DEF Counted
  <2> QED
    BY <1>2, <2>1, <2>2, <2>3 DEF Counted
<1> QED
  BY <1>1, <1>2 DEF GuardInv

LEMMA NextGuard == GuardInv /\ [Next]_vars => GuardInv'
<1> SUFFICES ASSUME GuardInv, [Next]_vars PROVE GuardInv'
  OBVIOUS
<1>1. Listed /\ (~setup.faults => Counted)
  BY DEF GuardInv
<1>2. CASE GetPositions \/ Seed \/ SeedFails \/ IngestFills \/ CheckReconciled
           \/ PassDone \/ CutoffPasses \/ UNCHANGED vars
  <2>1. orders' = orders /\ crashes' = crashes /\ setup' = setup
    BY <1>2 DEF GetPositions, Seed, SeedFails, IngestFills, CheckReconciled,
                PassDone, CutoffPasses, vars
  <2>2. guardSent' = guardSent
    BY <1>2, Zenon DEF GetPositions, Seed, SeedFails, IngestFills,
                       CheckReconciled, PassDone, CutoffPasses, vars
  <2> QED
    BY <2>1, <2>2, NothingSent
<1>3. CASE GuardPasses
  <2>1. orders' = orders /\ crashes' = crashes /\ setup' = setup
    BY <1>3 DEF GuardPasses
  <2>2. guardSent' = guardSent \/ guardSent' = TRUE
    BY <1>3, Zenon DEF GuardPasses
  <2> QED
    BY <2>1, <2>2, NothingSent
<1>4. ASSUME NEW s \in Sleeves, SleeveSkips(s) PROVE GuardInv'
  <2>1. orders' = orders /\ crashes' = crashes /\ setup' = setup
    BY <1>4 DEF SleeveSkips
  <2>2. guardSent' = guardSent
    BY <1>4, Zenon DEF SleeveSkips
  <2> QED
    BY <2>1, <2>2, NothingSent
<1>5. ASSUME NEW s \in Sleeves, SleeveOpens(s) PROVE GuardInv'
  <2>1. Accept(s, 1) /\ crashes' = crashes /\ setup' = setup
    BY <1>5 DEF SleeveOpens, Submit
  <2>2. guardSent' = guardSent
    BY <1>5, Zenon DEF SleeveOpens
  <2> QED
    BY <2>1, <2>2, SleeveOrders
<1>6. ASSUME NEW s \in Sleeves, SleeveCloses(s) PROVE GuardInv'
  <2>1. Accept(s, -sleeveQty[s]) /\ crashes' = crashes /\ setup' = setup
    BY <1>6 DEF SleeveCloses, Submit
  <2>2. guardSent' = guardSent
    BY <1>6, Zenon DEF SleeveCloses
  <2> QED
    BY <2>1, <2>2, SleeveOrders
<1>7. CASE GuardSends
  <2>1. /\ Accept("expiry_guard", -snapQty)
        /\ crashes' = crashes /\ setup' = setup
        /\ "expiry_guard" \in Senders
    BY <1>7 DEF GuardSends, Submit, Senders
  <2>2. ~guardSent /\ guardSent' = TRUE
    BY <1>7, Zenon DEF GuardSends, GuardDue
  <2>3. Listed'
    BY <1>1, <2>1, <2>2, AcceptGives, Zenon DEF Listed
  <2>4. ASSUME Counted PROVE Counted'
    <3>1. Cardinality(GuardOrders) <= crashes
      BY <1>1, <2>2, <2>4 DEF Counted, Listed
    <3>2. /\ IsFiniteSet(GuardOrders')
          /\ Cardinality(GuardOrders') <= Cardinality(GuardOrders) + 1
          /\ Cardinality(GuardOrders) \in Nat /\ Cardinality(GuardOrders') \in Nat
      BY <1>1, <2>1, <2>4, AcceptCounts DEF Counted
    <3>3. Cardinality(GuardOrders') <= crashes' + 1
      BY <1>1, <2>1, <3>1, <3>2 DEF Listed
    <3> QED
      BY <2>2, <3>2, <3>3 DEF Counted
  <2> QED
    BY <1>1, <2>1, <2>3, <2>4 DEF GuardInv
<1>8. ASSUME NEW sender \in Senders, NEW qty, ReplyLost(sender, qty)
      PROVE  GuardInv'
  <2>1. /\ Accept(sender, qty) /\ setup.faults
        /\ crashes' = crashes /\ setup' = setup
    BY <1>8 DEF ReplyLost
  <2>2. guardSent' = guardSent
    BY <1>8, Zenon DEF ReplyLost
  <2>3. Listed'
    BY <1>1, <2>1, <2>2, AcceptGives, Zenon DEF Listed
  <2> QED
    BY <2>1, <2>3 DEF GuardInv
<1>9. CASE \/ GuardReplyLost
           \/ \E s \in Sleeves : SleeveReplyLost(s)
  BY <1>8, <1>9 DEF GuardReplyLost, SleeveReplyLost, Senders
<1>10. ASSUME NEW i \in Orders, BrokerSettles(i) PROVE GuardInv'
  <2>1. PICK Q : orders \in OrdersOver(Q)
    BY <1>1 DEF Listed
  <2>2. PICK end \in {"filled", "dropped"} :
            orders' = [orders EXCEPT ![i].state = end]
    BY <1>10 DEF BrokerSettles
  <2>3. i \in 1..Len(orders) /\ orders[i] \in [by : Senders, qty : Q, state : States]
    BY <2>1, ElementOfSeq DEF Orders, OrdersOver
  <2> DEFINE settled == [orders[i] EXCEPT !.state = end]
  <2>4. /\ settled \in [by : Senders, qty : Q, state : States]
        /\ settled.by = orders[i].by
    BY <2>3 DEF States
  <2>5. orders' = [orders EXCEPT ![i] = settled]
    BY <2>2
  <2> HIDE DEF settled
  <2>6. /\ orders' \in OrdersOver(Q) /\ Len(orders') = Len(orders)
        /\ \A j \in 1..Len(orders) : orders'[j].by = orders[j].by
    BY <2>1, <2>3, <2>4, <2>5, ExceptSeq DEF OrdersOver
  <2>7. crashes' = crashes /\ setup' = setup
    BY <1>10 DEF BrokerSettles
  <2>8. guardSent' = guardSent
    BY <1>10, Zenon DEF BrokerSettles
  <2>9. Listed'
    BY <1>1, <2>6, <2>7, <2>8, Zenon DEF Listed
  <2>10. GuardOrders' = GuardOrders
    BY <2>6 DEF GuardOrders, Orders
  <2> QED
    BY <1>1, <2>7, <2>8, <2>9, <2>10, Zenon DEF GuardInv, Counted
<1>11. CASE KillFlattens
  <2> DEFINE kept == [j \in Orders |-> IF j \in Working
                                       THEN [orders[j] EXCEPT !.state = "dropped"]
                                       ELSE orders[j]]
             sold == [by |-> "kill_switch", qty |-> -AccountQty,
                      state |-> IF setup.broker = "sim" THEN "filled" ELSE "working"]
  <2>1. PICK Q : orders \in OrdersOver(Q)
    BY <1>1 DEF Listed
  <2> DEFINE Order == [by : Senders, qty : Q \cup {-AccountQty}, state : States]
  <2>2. kept \in [1..Len(orders) -> Order] /\ Len(orders) \in Nat
    <3>1. Len(orders) \in Nat
      BY <2>1, LenProperties DEF OrdersOver
    <3>2. ASSUME NEW j \in 1..Len(orders) PROVE kept[j] \in Order
      <4>1. orders[j] \in [by : Senders, qty : Q, state : States]
        BY <2>1, <3>2, ElementOfSeq DEF OrdersOver
      <4> QED
        BY <3>2, <4>1 DEF States, Orders
    <3> QED
      BY <3>1, <3>2 DEF Orders
  <2>3. sold \in Order
    BY DEF States, Senders
  <2>4. orders' = Append(kept, sold)
    BY <1>11 DEF KillFlattens
  <2> HIDE DEF kept, sold, Order
  <2>5. kept \in Seq(Order)
    BY <2>2, SeqDef
  <2>6. orders' \in Seq(Order)
    BY <2>3, <2>4, <2>5, AppendProperties
  <2>7. \E R : orders' \in OrdersOver(R)
    BY <2>6 DEF Order, OrdersOver
  <2>8. setup.faults /\ crashes' = crashes /\ setup' = setup
    BY <1>11 DEF KillFlattens
  <2>9. guardSent' = guardSent
    BY <1>11, Zenon DEF KillFlattens
  <2>10. Listed'
    BY <1>1, <2>7, <2>8, <2>9, Zenon DEF Listed
  <2> QED
    BY <2>8, <2>10 DEF GuardInv
<1>12. CASE Restart
  <2>1. /\ crashes' = crashes + 1 /\ setup' = setup
        /\ orders' = orders \/ orders' = <<>>
    BY <1>12 DEF Restart
  <2>2. guardSent' = FALSE
    BY <1>12, Zenon DEF Restart
  <2>3. Listed'
    <3>1. \E Q : orders' \in OrdersOver(Q)
      <4>1. <<>> \in OrdersOver({})
        BY EmptySeq DEF OrdersOver
      <4> QED
        BY <1>1, <2>1, <4>1 DEF Listed
    <3>2. crashes' \in Nat
      BY <1>1, <2>1 DEF Listed
    <3> QED
      BY <2>2, <3>1, <3>2, Zenon DEF Listed
  <2>4. ASSUME Counted PROVE Counted'
    <3>1. crashes \in Nat /\ Cardinality(GuardOrders) \in Nat
      BY <1>1, <2>4, FS_CardinalityType DEF Listed, Counted
    <3>2. Cardinality(GuardOrders) <= crashes + 1
      BY <2>4, <3>1 DEF Counted
    <3>3. CASE orders' = orders
      <4>1. GuardOrders' = GuardOrders
        BY <3>3 DEF GuardOrders, Orders
      <4> QED
        BY <2>1, <2>2, <2>4, <3>1, <3>2, <4>1 DEF Counted
    <3>4. CASE orders' = <<>>
      <4>1. GuardOrders' = {}
        BY <3>4 DEF GuardOrders, Orders
      <4> QED
        BY <2>1, <2>2, <3>1, <4>1, FS_EmptySet DEF Counted
    <3> QED
      BY <2>1, <3>3, <3>4
  <2> QED
    BY <1>1, <2>1, <2>3, <2>4 DEF GuardInv
<1> QED
  BY <1>2, <1>3, <1>4, <1>5, <1>6, <1>7, <1>9, <1>10, <1>11, <1>12
     DEF Next, LoopStep

(* Where the broker answers and nobody flattens, the expiry guard sends at *)
(* most one flatten per process.                                           *)
THEOREM OneFlatten == Spec => []GuardSendsOnce
<1>1. Init => GuardInv
  BY InitGuard
<1>2. GuardInv /\ [Next]_vars => GuardInv'
  BY NextGuard
<1>3. GuardInv => GuardSendsOnce
  <2> SUFFICES ASSUME GuardInv, ~setup.faults
               PROVE  Cardinality(GuardOrders) <= 1 + crashes
    BY DEF GuardSendsOnce, GuardOrders
  <2>1. Counted /\ crashes \in Nat
    BY DEF GuardInv, Listed
  <2>2. Cardinality(GuardOrders) \in Nat
    BY <2>1, FS_CardinalityType DEF Counted
  <2> QED
    BY <2>1, <2>2 DEF Counted
<1> QED
  BY <1>1, <1>2, <1>3, PTL DEF Spec

-----------------------------------------------------------------------------
(* The type invariant *)

Order == [by : Senders, qty : Int, state : States]

(* The orders go on as they were, a filled one filled and a dropped one    *)
(* dropped.                                                                *)
Kept ==
    /\ orders' \in Seq(Order)
    /\ Len(orders) <= Len(orders') /\ Len(orders') <= MaxOrders
    /\ \A i \in Orders : /\ i \in Orders'
                         /\ orders'[i].by = orders[i].by
                         /\ orders'[i].qty = orders[i].qty
                         /\ orders[i].state = "filled" => orders'[i].state = "filled"
                         /\ orders[i].state = "dropped" => orders'[i].state = "dropped"

LEMMA Listing ==
    ASSUME TypeOK
    PROVE  /\ orders \in Seq(Order) /\ Len(orders) \in Nat
           /\ IsFiniteSet(Orders)
           /\ \A i \in Orders : orders[i] \in Order /\ Qty[i] = orders[i].qty
           /\ \A i \in Orders : Qty[i] \in Int
<1>1. orders \in Seq(Order)
  BY DEF TypeOK, Order, States
<1>2. Len(orders) \in Nat
  BY <1>1, LenProperties
<1>3. IsFiniteSet(Orders)
  <2>1. 0 \in Int /\ 1 \in Int
    OBVIOUS
  <2> QED
    BY <1>2, <2>1, FS_Interval DEF Orders
<1>4. \A i \in Orders : orders[i] \in Order
  BY <1>1, <1>2, ElementOfSeq DEF Orders
<1>5. \A i \in Orders : Qty[i] = orders[i].qty
  BY DEF Qty
<1>6. \A i \in Orders : Qty[i] \in Int
  BY <1>4, <1>5 DEF Order
<1> QED
  BY <1>1, <1>2, <1>3, <1>4, <1>5, <1>6

(* Sums over orders. *)
LEMMA SumOfOrders ==
    ASSUME TypeOK, NEW ids, \A i \in ids : i \in Orders
    PROVE  IsFiniteSet(ids) /\ SumQty(ids) \in Int
<1>1. ids \in SUBSET Orders
  OBVIOUS
<1>2. IsFiniteSet(ids)
  BY <1>1, Listing, FS_Subset
<1> QED
  BY <1>2, Listing, SumInt DEF SumQty

LEMMA AcceptKeeps ==
    ASSUME TypeOK, NEW sender \in Senders, NEW qty \in Int, Accept(sender, qty)
    PROVE  /\ Kept /\ Orders' = Orders \cup {Len(orders) + 1}
           /\ Len(orders) + 1 \notin Orders
           /\ \A i \in Orders : orders'[i] = orders[i]
           /\ orders'[Len(orders) + 1]
                  = [by |-> sender, qty |-> qty,
                     state |-> IF setup.broker = "sim" THEN "filled" ELSE "working"]
<1> DEFINE new == [by |-> sender, qty |-> qty,
                   state |-> IF setup.broker = "sim" THEN "filled" ELSE "working"]
<1>1. new \in Order
  BY DEF Order, States
<1>2. orders' = Append(orders, new) /\ Len(orders) < MaxOrders /\ MaxOrders \in Nat
  BY DEF Accept
<1> HIDE DEF new
<1>3. /\ orders' \in Seq(Order) /\ Len(orders) \in Nat
      /\ Len(orders') = Len(orders) + 1
      /\ \A i \in 1..Len(orders) : orders'[i] = orders[i]
      /\ orders'[Len(orders) + 1] = new
  BY <1>1, <1>2, Listing, AppendProperties
<1>4. /\ Orders' = Orders \cup {Len(orders) + 1}
      /\ Len(orders) + 1 \notin Orders
  BY <1>3 DEF Orders
<1>5. Kept
  BY <1>2, <1>3, <1>4 DEF Kept, Orders
<1> QED
  BY <1>3, <1>4, <1>5 DEF Orders, new

LEMMA SettleKeeps ==
    ASSUME TypeOK, NEW i \in Orders, BrokerSettles(i)
    PROVE  Kept /\ Orders' = Orders
<1>1. PICK end \in {"filled", "dropped"} :
          orders' = [orders EXCEPT ![i].state = end]
  BY DEF BrokerSettles
<1> DEFINE settled == [orders[i] EXCEPT !.state = end]
<1>2. orders[i] \in Order /\ orders[i].state = "working"
  BY Listing DEF BrokerSettles, Working
<1>3. /\ settled \in Order
      /\ settled.by = orders[i].by /\ settled.qty = orders[i].qty
  BY <1>2 DEF States, Order
<1>4. orders' = [orders EXCEPT ![i] = settled] /\ i \in 1..Len(orders)
  BY <1>1 DEF Orders
<1> HIDE DEF settled
<1>5. /\ orders' \in Seq(Order) /\ Len(orders') = Len(orders)
      /\ \A j \in 1..Len(orders) :
             orders'[j] = IF j = i THEN settled ELSE orders[j]
  BY <1>3, <1>4, Listing, ExceptSeq
<1>6. Len(orders) \in Nat /\ Len(orders) <= MaxOrders
  BY Listing DEF TypeOK
<1> QED
  BY <1>2, <1>3, <1>5, <1>6 DEF Kept, Orders

LEMMA KillKeeps ==
    ASSUME TypeOK, KillFlattens
    PROVE  Kept
<1> DEFINE kept == [j \in Orders |-> IF j \in Working
                                     THEN [orders[j] EXCEPT !.state = "dropped"]
                                     ELSE orders[j]]
           sold == [by |-> "kill_switch", qty |-> -AccountQty,
                    state |-> IF setup.broker = "sim" THEN "filled" ELSE "working"]
<1>1. \A j \in 1..Len(orders) :
          /\ kept[j] \in Order
          /\ kept[j].by = orders[j].by /\ kept[j].qty = orders[j].qty
          /\ orders[j].state = "filled" => kept[j].state = "filled"
          /\ orders[j].state = "dropped" => kept[j].state = "dropped"
  <2> SUFFICES ASSUME NEW j \in 1..Len(orders)
               PROVE  /\ kept[j] \in Order
                      /\ kept[j].by = orders[j].by /\ kept[j].qty = orders[j].qty
                      /\ orders[j].state = "filled" => kept[j].state = "filled"
                      /\ orders[j].state = "dropped" => kept[j].state = "dropped"
    OBVIOUS
  <2>1. j \in Orders /\ orders[j] \in Order
    BY Listing DEF Orders
  <2>2. CASE j \in Working
    <3>1. kept[j] = [orders[j] EXCEPT !.state = "dropped"]
      BY <2>1, <2>2
    <3> HIDE DEF kept
    <3> QED
      BY <2>1, <2>2, <3>1 DEF Order, States, Working
  <2>3. CASE j \notin Working
    <3>1. kept[j] = orders[j]
      BY <2>1, <2>3
    <3> HIDE DEF kept
    <3> QED
      BY <2>1, <3>1
  <2> QED
    BY <2>2, <2>3
<1>2. sold \in Order
  <2>1. AccountQty \in Int
    BY SumOfOrders DEF AccountQty, Filled
  <2>2. -AccountQty \in Int
    BY <2>1
  <2> QED
    BY <2>2 DEF States, Senders, Order
<1>3. orders' = Append(kept, sold) /\ Len(orders) < MaxOrders
  BY DEF KillFlattens
<1>4. DOMAIN kept = 1..Len(orders) /\ Len(orders) \in Nat /\ MaxOrders \in Nat
  BY Listing DEF Orders
<1>5. kept \in Seq(Order) /\ Len(kept) = Len(orders)
  <2>1. kept = [j \in 1..Len(orders) |-> kept[j]]
    BY DEF Orders
  <2> HIDE DEF kept
  <2>2. kept \in [1..Len(orders) -> Order]
    BY <1>1, <1>4, <2>1
  <2>3. kept \in Seq(Order)
    BY <1>4, <2>2, SeqDef
  <2>4. Len(kept) \in Nat /\ DOMAIN kept = 1..Len(kept)
    BY <2>3, LenProperties
  <2>5. 1..Len(kept) = 1..Len(orders)
    BY <1>4, <2>4
  <2>6. Len(kept) = Len(orders)
    BY <1>4, <2>4, <2>5
  <2> QED
    BY <2>3, <2>6
<1> HIDE DEF kept, sold
<1>6. /\ orders' \in Seq(Order) /\ Len(orders') = Len(orders) + 1
      /\ \A j \in 1..Len(orders) : orders'[j] = kept[j]
  BY <1>2, <1>3, <1>4, <1>5, AppendProperties
<1> QED
  BY <1>1, <1>3, <1>4, <1>6 DEF Kept, Orders

Flags ==
    /\ seeded \in BOOLEAN /\ cutoff \in BOOLEAN
    /\ guardSent \in BOOLEAN /\ tripped \in BOOLEAN

LEMMA NextFlags == Flags /\ [Next]_vars => Flags'
<1> SUFFICES ASSUME Flags, [Next]_vars PROVE Flags'
  OBVIOUS
<1>1. CASE GetPositions
  BY <1>1, Zenon DEF GetPositions, Flags, bookVars
<1>2. CASE Seed
  BY <1>2, Zenon DEF Seed, Flags
<1>3. CASE SeedFails
  BY <1>3, Zenon DEF SeedFails, Flags
<1>4. CASE IngestFills
  BY <1>4, Zenon DEF IngestFills, Flags
<1>5. CASE GuardSends
  BY <1>5, Zenon DEF GuardSends, Flags, bookVars
<1>6. CASE GuardPasses
  BY <1>6, Zenon DEF GuardPasses, Flags, bookVars
<1>7. CASE CheckReconciled
  <2>1. /\ tripped' = (snapQty # localQty)
        /\ UNCHANGED <<seeded, cutoff, guardSent>>
    BY <1>7, Zenon DEF CheckReconciled, bookVars
  <2>2. tripped' \in BOOLEAN
    BY <2>1, Zenon
  <2> QED
    BY <2>1, <2>2, Zenon DEF Flags
<1>8. CASE PassDone
  BY <1>8, Zenon DEF PassDone, Flags, bookVars
<1>9. ASSUME NEW sender, NEW qty, ReplyLost(sender, qty) PROVE Flags'
  BY <1>9, Zenon DEF ReplyLost, Flags, bookVars
<1>10. ASSUME NEW s \in Sleeves,
              SleeveOpens(s) \/ SleeveCloses(s) \/ SleeveSkips(s)
       PROVE  Flags'
  BY <1>10, Zenon DEF SleeveOpens, SleeveCloses, SleeveSkips, Flags, bookVars
<1>11. CASE CutoffPasses
  BY <1>11, Zenon DEF CutoffPasses, Flags, bookVars
<1>12. ASSUME NEW i \in Orders, BrokerSettles(i) PROVE Flags'
  BY <1>12, Zenon DEF BrokerSettles, Flags, bookVars
<1>13. CASE KillFlattens
  BY <1>13, Zenon DEF KillFlattens, Flags, bookVars
<1>14. CASE Restart
  BY <1>14, Zenon DEF Restart, Flags
<1>15. CASE UNCHANGED vars
  BY <1>15, Zenon DEF vars, Flags, bookVars
<1> QED
  BY <1>1, <1>2, <1>3, <1>4, <1>5, <1>6, <1>7, <1>8, <1>9, <1>10, <1>11, <1>12,
     <1>13, <1>14, <1>15
     DEF Next, LoopStep, GuardReplyLost, SleeveReplyLost

Owners == Sleeves \cup {"none", "unattributed", "expiry_guard", "kill_switch"}

Sizes ==
    /\ setup \in Setups
    /\ pc \in {"start", "seed", "ingest", "guard", "check", "pass", "ingest2"}
    /\ toRun \subseteq Sleeves
    /\ snapQty \in Int /\ localQty \in Int /\ sleeveQty \in [Sleeves -> Int]
    /\ lastOwner \in Owners
    /\ crashes \in 0..MaxCrashes

Known == seen \subseteq Filled /\ meta \subseteq Orders

LEMMA Parted ==
    TypeOK <=> /\ Sizes /\ Flags /\ Known
               /\ orders \in Seq(Order) /\ Len(orders) <= MaxOrders
  BY Zenon DEF TypeOK, Sizes, Flags, Known, Order, States, Owners

(* What an iteration reads and books are whole quantities.                 *)
LEMMA Quantities ==
    ASSUME TypeOK
    PROVE  /\ AccountQty \in Int /\ SumQty(Unseen) \in Int
           /\ \A s : SumQty({i \in Unseen : BookedTo(i) = s}) \in Int
           /\ \A i \in Orders : BookedTo(i) \in Owners
<1>1. \A i \in Filled : i \in Orders
  BY DEF Filled
<1>2. /\ \A i \in Unseen : i \in Orders
      /\ \A s : \A i \in {j \in Unseen : BookedTo(j) = s} : i \in Orders
  BY <1>1 DEF Unseen
<1>3. AccountQty \in Int /\ SumQty(Unseen) \in Int
  BY <1>1, <1>2, SumOfOrders DEF AccountQty
<1>4. \A s : SumQty({i \in Unseen : BookedTo(i) = s}) \in Int
  BY <1>2, SumOfOrders
<1>5. \A i \in Orders : BookedTo(i) \in Owners
  BY Listing DEF BookedTo, Order, Owners, Senders
<1> QED
  BY <1>3, <1>4, <1>5

LEMMA NextSizes == TypeOK /\ [Next]_vars => Sizes'
<1> SUFFICES ASSUME TypeOK, [Next]_vars PROVE Sizes'
  OBVIOUS
<1>1. /\ Sizes
      /\ AccountQty \in Int /\ SumQty(Unseen) \in Int
      /\ \A s : SumQty({i \in Unseen : BookedTo(i) = s}) \in Int
      /\ \A i \in Orders : BookedTo(i) \in Owners
  BY Parted, Quantities
<1>2. CASE GetPositions
  BY <1>1, <1>2 DEF GetPositions, Sizes, bookVars
<1>3. CASE Seed
  BY <1>1, <1>3 DEF Seed, Sizes
<1>4. CASE SeedFails
  BY <1>1, <1>4 DEF SeedFails, Sizes
<1>5. CASE IngestFills
  <2>1. CASE UNCHANGED <<localQty, sleeveQty, seen, lastOwner>>
    BY <1>1, <1>5, <2>1 DEF IngestFills, Sizes
  <2>2. CASE ApplyFills
    <3>1. localQty' \in Int
      BY <1>1, <2>2 DEF ApplyFills, Sizes
    <3>2. sleeveQty' \in [Sleeves -> Int]
      <4>1. sleeveQty' = [s \in Sleeves |->
                sleeveQty[s] + SumQty({i \in Unseen : BookedTo(i) = s})]
        BY <2>2 DEF ApplyFills
      <4>2. \A s \in Sleeves :
                sleeveQty[s] + SumQty({i \in Unseen : BookedTo(i) = s}) \in Int
        <5> SUFFICES ASSUME NEW s \in Sleeves
                     PROVE  sleeveQty[s] + SumQty({i \in Unseen : BookedTo(i) = s}) \in Int
          OBVIOUS
        <5> DEFINE new == SumQty({i \in Unseen : BookedTo(i) = s})
        <5>1. new \in Int
          BY <1>1
        <5>2. sleeveQty[s] \in Int
          BY <1>1 DEF Sizes
        <5> HIDE DEF new
        <5>3. sleeveQty[s] + new \in Int
          BY <5>1, <5>2
        <5> QED
          BY <5>3 DEF new
      <4> QED
        BY <4>1, <4>2
    <3>3. lastOwner' \in Owners
      <4>1. lastOwner' = lastOwner \/ \E i \in Unseen : lastOwner' = BookedTo(i)
        BY <2>2 DEF ApplyFills
      <4>2. \A i \in Unseen : i \in Orders
        BY DEF Unseen, Filled
      <4> QED
        BY <1>1, <4>1, <4>2 DEF Sizes
    <3> QED
      BY <1>1, <1>5, <3>1, <3>2, <3>3 DEF IngestFills, Sizes
  <2> QED
    BY <1>5, <2>1, <2>2 DEF IngestFills
<1>6. CASE GuardSends \/ GuardPasses
  BY <1>1, <1>6 DEF GuardSends, GuardPasses, Sizes, bookVars
<1>7. CASE CheckReconciled \/ PassDone
  BY <1>1, <1>7 DEF CheckReconciled, PassDone, Sizes, bookVars
<1>8. ASSUME NEW sender, NEW qty, ReplyLost(sender, qty) PROVE Sizes'
  BY <1>1, <1>8 DEF ReplyLost, Sizes, bookVars
<1>9. ASSUME NEW s \in Sleeves,
             SleeveOpens(s) \/ SleeveCloses(s) \/ SleeveSkips(s)
      PROVE  Sizes'
  BY <1>1, <1>9 DEF SleeveOpens, SleeveCloses, SleeveSkips, Sizes, bookVars
<1>10. CASE CutoffPasses \/ KillFlattens \/ UNCHANGED vars
  BY <1>1, <1>10 DEF CutoffPasses, KillFlattens, vars, loopVars, Sizes, bookVars
<1>11. ASSUME NEW i \in Orders, BrokerSettles(i) PROVE Sizes'
  BY <1>1, <1>11 DEF BrokerSettles, loopVars, Sizes, bookVars
<1>12. CASE Restart
  <2>1. sleeveQty' \in [Sleeves -> Int]
    BY <1>12 DEF Restart
  <2>2. crashes' \in 0..MaxCrashes
    <3>1. crashes \in Nat /\ crashes < MaxCrashes /\ crashes' = crashes + 1
      BY <1>1, <1>12 DEF Restart, Sizes
    <3>2. MaxCrashes \in Nat
      OBVIOUS
    <3> QED
      BY <3>1, <3>2
  <2> QED
    BY <1>1, <1>12, <2>1, <2>2 DEF Restart, Sizes
<1> QED
  BY <1>2, <1>3, <1>4, <1>5, <1>6, <1>7, <1>8, <1>9, <1>10, <1>11, <1>12
     DEF Next, LoopStep, GuardReplyLost, SleeveReplyLost

(* Every step but a restart goes on with the orders there are.             *)
LEMMA NextKept ==
    ASSUME TypeOK, [Next]_vars
    PROVE  Kept \/ Restart
<1>1. ASSUME orders' = orders PROVE Kept
  <2>1. \A i \in Orders : i \in Orders'
    BY <1>1 DEF Orders
  <2> QED
    BY <1>1, <2>1, Listing DEF Kept, TypeOK
<1>2. CASE \/ GetPositions \/ Seed \/ SeedFails \/ IngestFills \/ GuardPasses
           \/ CheckReconciled \/ PassDone \/ CutoffPasses \/ UNCHANGED vars
           \/ \E s \in Sleeves : SleeveSkips(s)
  BY <1>1, <1>2
     DEF GetPositions, Seed, SeedFails, IngestFills, GuardPasses,
         CheckReconciled, PassDone, CutoffPasses, vars, SleeveSkips
<1>3. /\ "expiry_guard" \in Senders /\ \A s \in Sleeves : s \in Senders
      /\ 1 \in Int /\ -snapQty \in Int
      /\ \A s \in Sleeves : -sleeveQty[s] \in Int
  <2>1. snapQty \in Int /\ \A s \in Sleeves : sleeveQty[s] \in Int
    BY DEF TypeOK
  <2> QED
    BY <2>1 DEF Senders
<1>4. CASE GuardSends \/ GuardReplyLost
  BY <1>3, <1>4, AcceptKeeps
     DEF GuardSends, GuardReplyLost, ReplyLost, Submit
<1>5. ASSUME NEW s \in Sleeves,
             SleeveOpens(s) \/ SleeveCloses(s) \/ SleeveReplyLost(s)
      PROVE  Kept
  <2>1. Accept(s, 1) \/ Accept(s, -sleeveQty[s])
    BY <1>5 DEF SleeveOpens, SleeveCloses, SleeveReplyLost, ReplyLost, Submit
  <2> QED
    BY <1>3, <2>1, AcceptKeeps
<1>6. CASE KillFlattens
  BY <1>6, KillKeeps
<1>7. CASE \E i \in Orders : BrokerSettles(i)
  BY <1>7, SettleKeeps
<1> QED
  BY <1>2, <1>4, <1>5, <1>6, <1>7 DEF Next, LoopStep

LEMMA KeptFilled ==
    ASSUME Kept
    PROVE  Orders \subseteq Orders' /\ Filled \subseteq Filled'
  BY DEF Kept, Filled

LEMMA NextTyped == TypeOK /\ [Next]_vars => TypeOK'
<1> SUFFICES ASSUME TypeOK, [Next]_vars PROVE TypeOK'
  OBVIOUS
<1>1. Sizes' /\ Flags' /\ Known
  BY Parted, NextSizes, NextFlags
<1>2. orders' \in Seq(Order) /\ Len(orders') <= MaxOrders
  <2>1. CASE Kept
    BY <2>1 DEF Kept
  <2>2. CASE Restart
    <3>1. orders' = orders \/ orders' = <<>>
      BY <2>2 DEF Restart
    <3>2. orders \in Seq(Order) /\ Len(orders) <= MaxOrders
      BY Listing DEF TypeOK
    <3>3. <<>> \in Seq(Order) /\ Len(<<>>) <= MaxOrders
      BY EmptySeq
    <3> QED
      BY <3>1, <3>2, <3>3
  <2> QED
    BY <2>1, <2>2, NextKept
<1>3. Known'
  <2>1. CASE Restart
    BY <2>1 DEF Restart, Known
  <2>2. CASE Kept /\ ~Restart
    <3>1. Orders \subseteq Orders' /\ Filled \subseteq Filled'
      BY <2>2, KeptFilled
    <3>2. seen' \in {seen, Filled}
      BY <2>2
         DEF Next, LoopStep, GetPositions, Seed, SeedFails, IngestFills,
             ApplyFills, GuardSends, GuardPasses, GuardReplyLost, ReplyLost,
             CheckReconciled, PassDone, SleeveOpens, SleeveCloses, SleeveSkips,
             SleeveReplyLost, CutoffPasses, BrokerSettles, KillFlattens,
             vars, bookVars
    <3>3. \/ meta' = meta
          \/ /\ meta' = meta \cup {Len(orders) + 1}
             /\ Len(orders) + 1 \in Orders'
      <4>1. ASSUME NEW sender \in Senders, NEW qty \in Int, Submit(sender, qty)
            PROVE  /\ meta' = meta \cup {Len(orders) + 1}
                   /\ Len(orders) + 1 \in Orders'
        BY <4>1, AcceptKeeps DEF Submit
      <4>2. snapQty \in Int /\ \A s \in Sleeves : sleeveQty[s] \in Int
        BY DEF TypeOK
      <4>3. CASE GuardSends
        <5>1. Submit("expiry_guard", -snapQty)
          BY <4>3 DEF GuardSends
        <5>2. -snapQty \in Int /\ "expiry_guard" \in Senders
          BY <4>2 DEF Senders
        <5> QED
          BY <4>1, <5>1, <5>2
      <4>4. CASE \E s \in Sleeves : SleeveOpens(s) \/ SleeveCloses(s)
        <5>1. PICK s \in Sleeves : Submit(s, 1) \/ Submit(s, -sleeveQty[s])
          BY <4>4 DEF SleeveOpens, SleeveCloses
        <5>2. 1 \in Int /\ -sleeveQty[s] \in Int /\ s \in Senders
          BY <4>2 DEF Senders
        <5> QED
          BY <4>1, <5>1, <5>2
      <4>5. CASE ~GuardSends /\ ~ \E s \in Sleeves : SleeveOpens(s) \/ SleeveCloses(s)
        BY <2>2, <4>5
           DEF Next, LoopStep, GetPositions, Seed, SeedFails, IngestFills,
               GuardPasses, GuardReplyLost, ReplyLost, CheckReconciled,
               PassDone, SleeveSkips, SleeveReplyLost, CutoffPasses,
               BrokerSettles, KillFlattens, vars
      <4> QED
        BY <4>3, <4>4, <4>5
    <3> QED
      BY <1>1, <3>1, <3>2, <3>3 DEF Known
  <2> QED
    BY <2>1, <2>2, NextKept
<1> QED
  BY <1>1, <1>2, <1>3, Zenon DEF TypeOK, Sizes, Flags, Known, Order, States, Owners

LEMMA InitTyped == Init => TypeOK
<1> SUFFICES ASSUME Init PROVE TypeOK
  OBVIOUS
<1>1. Sizes
  BY DEF Init, Sizes, Owners
<1>2. Flags
  BY Zenon DEF Init, Flags
<1>3. orders \in Seq(Order) /\ Len(orders) <= MaxOrders /\ seen = {} /\ meta = {}
  BY EmptySeq DEF Init
<1> QED
  BY <1>1, <1>2, <1>3, Parted DEF Known

(* The books, the orders and the loop keep their types, and what is marked *)
(* seen has filled.                                                        *)
THEOREM Typed == Spec => []TypeOK
<1> QED
  BY InitTyped, NextTyped, PTL DEF Spec

-----------------------------------------------------------------------------
(* Every fill is counted once *)

(* The first sync of a process comes before anything else it does.         *)
Seeding ==
    /\ ~seeded => pc \in {"start", "seed"}
    /\ pc = "seed" => ~seeded

LEMMA NextSeeding == Seeding /\ [Next]_vars => Seeding'
<1> SUFFICES ASSUME Seeding, [Next]_vars PROVE Seeding'
  OBVIOUS
<1>1. CASE GetPositions
  BY <1>1 DEF GetPositions, Seeding, bookVars
<1>2. CASE Seed \/ SeedFails
  BY <1>2 DEF Seed, SeedFails, Seeding
<1>3. CASE IngestFills
  BY <1>3 DEF IngestFills, Seeding
<1>4. CASE GuardSends \/ GuardPasses
  BY <1>4 DEF GuardSends, GuardPasses, Seeding, bookVars
<1>5. CASE CheckReconciled \/ PassDone
  BY <1>5 DEF CheckReconciled, PassDone, Seeding, bookVars
<1>6. ASSUME NEW sender, NEW qty, ReplyLost(sender, qty) PROVE Seeding'
  BY <1>6 DEF ReplyLost, Seeding, bookVars
<1>7. ASSUME NEW s \in Sleeves,
             SleeveOpens(s) \/ SleeveCloses(s) \/ SleeveSkips(s)
      PROVE  Seeding'
  BY <1>7 DEF SleeveOpens, SleeveCloses, SleeveSkips, Seeding, bookVars
<1>8. CASE CutoffPasses \/ KillFlattens \/ UNCHANGED vars
  BY <1>8 DEF CutoffPasses, KillFlattens, vars, loopVars, Seeding, bookVars
<1>9. ASSUME NEW i \in Orders, BrokerSettles(i) PROVE Seeding'
  BY <1>9 DEF BrokerSettles, loopVars, Seeding, bookVars
<1>10. CASE Restart
  BY <1>10 DEF Restart, Seeding
<1> QED
  BY <1>1, <1>2, <1>3, <1>4, <1>5, <1>6, <1>7, <1>8, <1>9, <1>10
     DEF Next, LoopStep, GuardReplyLost, SleeveReplyLost

(* The fills the local book was told of are what it differs by. *)
LEMMA DriftIs ==
    TypeOK => /\ Drift = localQty - SumQty(seen)
              /\ SumQty(Unseen) = AccountQty - SumQty(seen)
              /\ SumQty(seen) \in Int /\ AccountQty \in Int /\ localQty \in Int
<1> SUFFICES ASSUME TypeOK
             PROVE  /\ Drift = localQty - SumQty(seen)
                    /\ SumQty(Unseen) = AccountQty - SumQty(seen)
                    /\ SumQty(seen) \in Int /\ AccountQty \in Int
                    /\ localQty \in Int
  OBVIOUS
<1>1. /\ \A i \in seen : i \in Filled
      /\ \A i \in Filled : i \in Orders
      /\ localQty \in Int
  BY DEF TypeOK, Filled
<1>2. IsFiniteSet(Filled)
  BY <1>1, SumOfOrders
<1>3. \A i \in Filled : Qty[i] \in Int
  BY <1>1, Listing
<1>4. /\ AccountQty \in Int /\ SumQty(seen) \in Int
      /\ SumQty(Unseen) = AccountQty - SumQty(seen)
  BY <1>1, <1>2, <1>3, SumLess DEF AccountQty, SumQty, Unseen
<1>5. Drift = localQty + SumQty(Unseen) - AccountQty
  BY DEF Drift
<1> DEFINE a == SumQty(Unseen)
           b == SumQty(seen)
<1> HIDE DEF a, b
<1>6. localQty + a - AccountQty = localQty - b
  BY <1>1, <1>4 DEF a, b
<1> QED
  BY <1>1, <1>4, <1>5, <1>6 DEF a, b

(* Orders that go on weigh what they weighed. *)
LEMMA KeptSum ==
    ASSUME TypeOK, Kept, NEW ids, \A i \in ids : i \in Orders
    PROVE  SumFunctionOnSet(Qty', ids) = SumQty(ids)
<1>1. IsFiniteSet(ids)
  BY SumOfOrders
<1>2. \A i \in ids : Qty'[i] = Qty[i]
  BY DEF Qty, Kept
<1>3. SumFunctionOnSet(Qty', ids) = SumFunctionOnSet(Qty, ids)
  BY <1>1, <1>2, SumSame
<1> QED
  BY <1>3 DEF SumQty

(* Besides the first sync, only an ingest moves the books.                 *)
LEMMA BookMoves ==
    ASSUME [Next]_vars
    PROVE  \/ Restart \/ Seed \/ SeedFails
           \/ IngestFills /\ ApplyFills
           \/ UNCHANGED bookVars
  BY DEF Next, LoopStep, GetPositions, IngestFills, GuardSends, GuardPasses,
         GuardReplyLost, ReplyLost, CheckReconciled, PassDone, SleeveOpens,
         SleeveCloses, SleeveSkips, SleeveReplyLost, CutoffPasses,
         BrokerSettles, KillFlattens, vars, bookVars

LEMMA NextDrift ==
    ASSUME TypeOK, TypeOK', Seeding, [Next]_vars, seeded, seeded'
    PROVE  Drift' = Drift
<1>1. /\ Drift = localQty - SumQty(seen)
      /\ SumQty(Unseen) = AccountQty - SumQty(seen)
      /\ SumQty(seen) \in Int /\ AccountQty \in Int /\ localQty \in Int
  BY DriftIs
<1>2. Drift' = localQty' - SumQty(seen)'
  <2>1. (TypeOK => Drift = localQty - SumQty(seen))'
    BY DriftIs, PTL
  <2> QED
    BY <2>1
<1>3. SumQty(seen)' = SumFunctionOnSet(Qty', seen')
  BY DEF SumQty
<1>4. ~Restart /\ ~Seed /\ ~SeedFails
  BY DEF Restart, Seed, SeedFails, Seeding
<1>5. Kept
  BY <1>4, NextKept
<1>6. (\A i \in seen : i \in Orders) /\ (\A i \in Filled : i \in Orders)
  BY DEF TypeOK, Filled
<1>7. CASE UNCHANGED bookVars
  <2>1. SumFunctionOnSet(Qty', seen) = SumQty(seen)
    BY <1>5, <1>6, KeptSum
  <2> QED
    BY <1>1, <1>2, <1>3, <1>7, <2>1 DEF bookVars
<1>8. CASE ApplyFills
  <2>1. SumFunctionOnSet(Qty', Filled) = AccountQty
    BY <1>5, <1>6, KeptSum DEF AccountQty
  <2>2. localQty' = localQty + SumQty(Unseen) /\ seen' = Filled
    BY <1>8 DEF ApplyFills
  <2>3. SumQty(seen)' = AccountQty
    BY <1>3, <2>1, <2>2
  <2> DEFINE u == SumQty(Unseen)
             v == SumQty(seen)
  <2>4. Drift' = localQty' - AccountQty
    BY <1>2, <2>3
  <2>5. /\ Drift = localQty - v /\ u = AccountQty - v /\ localQty' = localQty + u
        /\ v \in Int /\ AccountQty \in Int /\ localQty \in Int
    BY <1>1, <2>2
  <2> HIDE DEF u, v
  <2> QED
    BY <2>4, <2>5
<1> QED
  BY <1>4, <1>7, <1>8, BookMoves

LEMMA SeedingHolds == Spec => [](TypeOK /\ Seeding)
<1>1. Init => TypeOK /\ Seeding
  BY InitTyped DEF Init, Seeding
<1>2. TypeOK /\ Seeding /\ [Next]_vars => TypeOK' /\ Seeding'
  BY NextTyped, NextSeeding
<1> QED
  BY <1>1, <1>2, PTL DEF Spec

(* Each fill reaches the local book once and whole, for any number of      *)
(* orders, sleeves and restarts and whatever fails: after the first sync   *)
(* the difference between book and account does not change.                *)
THEOREM CountedOnce == Spec => FillsCountOnce
<1> DEFINE Step == seeded /\ seeded' => Drift' = Drift
<1>1. TypeOK /\ Seeding /\ TypeOK' /\ [Next]_vars => [Step]_vars
  BY NextDrift
<1> HIDE DEF Step
<1>2. Spec => [][Step]_vars
  BY <1>1, SeedingHolds, PTL DEF Spec
<1> QED
  BY <1>2 DEF FillsCountOnce, Step

-----------------------------------------------------------------------------
(* Calm books *)

Calm  == setup.quiet /\ ~setup.faults
Plain == Calm /\ ~setup.expires

(* Before its first sync a calm process has no order at work, so what it   *)
(* reads of the positions still is the account when it seeds; afterwards   *)
(* its book is the fills it has seen.                                      *)
BooksInv ==
    Calm => /\ ~seeded => /\ Working = {}
                          /\ pc = "seed" => snapQty = AccountQty
            /\ seeded => localQty = SumQty(seen)

LEMMA SetupFixed ==
    ASSUME [Next]_vars
    PROVE  setup' = setup
  BY DEF Next, LoopStep, GetPositions, Seed, SeedFails, IngestFills, GuardSends,
         GuardPasses, GuardReplyLost, ReplyLost, CheckReconciled, PassDone,
         SleeveOpens, SleeveCloses, SleeveSkips, SleeveReplyLost, CutoffPasses,
         BrokerSettles, KillFlattens, Restart, vars

(* Nothing happens to the orders before the first sync. *)
LEMMA Dormant ==
    ASSUME Calm, Seeding, ~seeded, Working = {}, [Next]_vars, ~Restart
    PROVE  /\ orders' = orders
           /\ \/ GetPositions \/ Seed
              \/ UNCHANGED <<bookVars, pc, snapQty>>
<1>1. pc \in {"start", "seed"} /\ ~setup.faults
  BY DEF Seeding, Calm
<1>2. CASE GetPositions \/ Seed
  BY <1>2 DEF GetPositions, Seed
<1>3. CASE CutoffPasses \/ UNCHANGED vars
  BY <1>3 DEF CutoffPasses, vars, loopVars
<1> QED
  BY <1>1, <1>2, <1>3
     DEF Next, LoopStep, SeedFails, IngestFills, GuardSends, GuardPasses,
         GuardReplyLost, ReplyLost, CheckReconciled, PassDone, SleeveOpens,
         SleeveCloses, SleeveSkips, SleeveReplyLost, BrokerSettles, KillFlattens

LEMMA NextBooks ==
    ASSUME TypeOK, Seeding, BooksInv, [Next]_vars
    PROVE  BooksInv'
<1> SUFFICES ASSUME Calm
             PROVE  /\ ~seeded' => /\ Working' = {}
                                   /\ pc' = "seed" => snapQty' = AccountQty'
                    /\ seeded' => localQty' = SumQty(seen)'
  BY SetupFixed DEF BooksInv, Calm
<1>1. /\ ~seeded => Working = {} /\ (pc = "seed" => snapQty = AccountQty)
      /\ seeded => localQty = SumQty(seen)
  BY DEF BooksInv
<1>2. /\ \A i \in seen : i \in Orders
      /\ \A i \in Filled : i \in Orders
  BY DEF TypeOK, Filled
<1>3. SumQty(seen)' = SumFunctionOnSet(Qty', seen')
  BY DEF SumQty
<1>4. AccountQty' = SumFunctionOnSet(Qty', Filled')
  BY DEF SumQty, AccountQty
<1>5. orders' = orders => /\ Qty' = Qty /\ Filled' = Filled /\ Working' = Working
                          /\ AccountQty' = AccountQty
  BY DEF Qty, Filled, Working, Orders, AccountQty, SumQty
<1>6. CASE Restart
  <2>1. Working = {} /\ (orders' = orders \/ orders' = <<>>)
    BY <1>6 DEF Restart, Calm
  <2>2. Working' = {}
    BY <1>5, <2>1 DEF Working, Orders
  <2> QED
    BY <1>6, <2>2 DEF Restart
<1>7. CASE Seed
  <2>1. ~seeded /\ pc = "seed" /\ orders' = orders /\ seeded' = TRUE
        /\ localQty' = snapQty /\ seen' = Filled
    BY <1>7 DEF Seed, Seeding
  <2>2. snapQty = SumFunctionOnSet(Qty, Filled)
    BY <1>1, <2>1 DEF AccountQty, SumQty
  <2> QED
    BY <1>3, <1>5, <2>1, <2>2
<1>8. CASE SeedFails
  BY <1>8 DEF SeedFails, Calm
<1>9. CASE IngestFills /\ ApplyFills
  <2>1. seeded /\ seeded' = seeded /\ orders' = orders
    BY <1>9 DEF IngestFills, Seeding
  <2>2. localQty' = localQty + SumQty(Unseen) /\ seen' = Filled
    BY <1>9 DEF ApplyFills
  <2>3. /\ SumQty(Unseen) = AccountQty - SumQty(seen)
        /\ SumQty(seen) \in Int /\ AccountQty \in Int
    BY DriftIs
  <2>4. SumQty(seen)' = AccountQty
    BY <1>3, <1>5, <2>1, <2>2 DEF AccountQty, SumQty
  <2> DEFINE u == SumQty(Unseen)
             v == SumQty(seen)
  <2>5. /\ localQty' = localQty + u /\ localQty = v /\ u = AccountQty - v
        /\ v \in Int /\ AccountQty \in Int
    BY <1>1, <2>1, <2>2, <2>3
  <2> HIDE DEF u, v
  <2>6. localQty' = AccountQty
    BY <2>5
  <2> QED
    BY <2>1, <2>4, <2>6
<1>10. CASE UNCHANGED bookVars /\ ~Restart
  <2>1. UNCHANGED <<localQty, seeded, seen>>
    BY <1>10 DEF bookVars
  <2>2. CASE seeded
    <3>1. SumFunctionOnSet(Qty', seen) = SumQty(seen)
      BY <1>2, <1>10, NextKept, KeptSum
    <3>2. seeded'
      BY <2>1, <2>2, Zenon
    <3> QED
      BY <1>1, <1>3, <2>1, <2>2, <3>1, <3>2
  <2>3. CASE ~seeded
    <3>1. ~seeded' /\ Working = {}
      BY <1>1, <2>1, <2>3, Zenon
    <3>2. orders' = orders
      BY <1>10, <2>3, <3>1, Dormant
    <3>3. \/ GetPositions \/ Seed
          \/ UNCHANGED <<bookVars, pc, snapQty>>
      BY <1>10, <2>3, <3>1, Dormant
    <3>4. pc' = "seed" => snapQty' = AccountQty
      BY <1>1, <2>3, <3>3 DEF GetPositions, Seed
    <3> QED
      BY <1>5, <3>1, <3>2, <3>4
  <2> QED
    BY <2>2, <2>3
<1> QED
  BY <1>6, <1>7, <1>8, <1>9, <1>10, BookMoves

(* While the guard has no business with the contract, every order is a     *)
(* sleeve's.  Those whose fill is still to come are remembered, so the fill*)
(* will be booked to its sender; and the newest trade names an owner for   *)
(* whatever the account holds when the next process seeds.                 *)
Live == {i \in Orders : orders[i].state # "dropped"}

OwnersInv ==
    Plain =>
        /\ \A i \in Orders : orders[i].by \in Sleeves
        /\ lastOwner \in Sleeves \cup {"none"}
        /\ ~seeded => /\ \A s \in Sleeves : sleeveQty[s] = 0
                      /\ lastOwner = "none" => Filled = {}
        /\ seeded => /\ \A i \in Live \ seen : BookedTo(i) = orders[i].by
                     /\ lastOwner = "none" => seen = {}
                     /\ SumFunctionOnSet(sleeveQty, Sleeves) = localQty

(* A new order is a sleeve's, and remembered. *)
LEMMA NewOrders ==
    ASSUME TypeOK, Plain, [Next]_vars, ~Restart
    PROVE  /\ \A i \in meta : i \in meta'
           /\ \A i \in Orders' : i \in Orders \/ (i \in meta' /\ orders'[i].by \in Sleeves)
<1>1. snapQty \in Int /\ \A s \in Sleeves : sleeveQty[s] \in Int
  BY DEF TypeOK
<1>2. CASE \E s \in Sleeves : SleeveOpens(s) \/ SleeveCloses(s)
  <2>1. PICK s \in Sleeves : Submit(s, 1) \/ Submit(s, -sleeveQty[s])
    BY <1>2 DEF SleeveOpens, SleeveCloses
  <2>2. 1 \in Int /\ -sleeveQty[s] \in Int /\ s \in Senders
    BY <1>1 DEF Senders
  <2>3. PICK q \in Int : Submit(s, q)
    BY <2>1, <2>2
  <2>4. /\ Orders' = Orders \cup {Len(orders) + 1}
        /\ orders'[Len(orders) + 1].by = s
        /\ meta' = meta \cup {Len(orders) + 1}
    <3>1. Accept(s, q) /\ meta' = meta \cup {Len(orders) + 1}
      BY <2>3 DEF Submit
    <3>2. /\ Orders' = Orders \cup {Len(orders) + 1}
          /\ orders'[Len(orders) + 1]
                 = [by |-> s, qty |-> q,
                    state |-> IF setup.broker = "sim" THEN "filled" ELSE "working"]
      BY <2>2, <3>1, AcceptKeeps
    <3>3. orders'[Len(orders) + 1].by = s
      BY <3>2
    <3> QED
      BY <3>1, <3>2, <3>3
  <2> QED
    BY <2>4
<1>3. ASSUME NEW i \in Orders, BrokerSettles(i)
      PROVE  Orders' = Orders /\ meta' = meta
  BY <1>3, SettleKeeps DEF BrokerSettles
<1>4. CASE ~ \E s \in Sleeves : SleeveOpens(s) \/ SleeveCloses(s)
  <2>1. ~setup.faults /\ ~setup.expires
    BY DEF Plain, Calm
  <2>2. meta' = meta /\ (orders' = orders \/ \E i \in Orders : BrokerSettles(i))
    BY <1>4, <2>1
       DEF Next, LoopStep, GetPositions, Seed, SeedFails, IngestFills,
           GuardSends, GuardDue, GuardPasses, GuardReplyLost, ReplyLost,
           CheckReconciled, PassDone, SleeveSkips, SleeveReplyLost,
           CutoffPasses, BrokerSettles, KillFlattens, vars
  <2>3. Orders' = Orders
    BY <1>3, <2>2 DEF Orders
  <2> QED
    BY <2>2, <2>3
<1> QED
  BY <1>2, <1>4

(* The whole position goes to one sleeve. *)
LEMMA SeedSum ==
    ASSUME NEW owner \in Sleeves, NEW q \in Int, NEW f,
           \A s \in Sleeves : f[s] = IF s = owner THEN q ELSE 0
    PROVE  SumFunctionOnSet(f, Sleeves) = q
<1>1. IsFiniteSet(Sleeves \ {owner}) /\ \A s \in Sleeves \ {owner} : f[s] = 0
  BY FS_RemoveElement
<1>2. SumFunctionOnSet(f, Sleeves \ {owner}) = 0
  BY <1>1, SumZero
<1>3. \A s \in Sleeves : f[s] \in Int
  OBVIOUS
<1>4. SumFunctionOnSet(f, Sleeves)
          = f[owner] + SumFunctionOnSet(f, Sleeves \ {owner})
  BY <1>3, SumRemove
<1> QED
  BY <1>2, <1>4

(* Fills that are all booked to sleeves move their books as the whole.     *)
LEMMA BookedSum ==
    ASSUME TypeOK, \A i \in Unseen : BookedTo(i) \in Sleeves, NEW f,
           \A s \in Sleeves :
               f[s] = sleeveQty[s] + SumQty({i \in Unseen : BookedTo(i) = s})
    PROVE  SumFunctionOnSet(f, Sleeves)
               = SumFunctionOnSet(sleeveQty, Sleeves) + SumQty(Unseen)
<1> DEFINE key == [i \in Unseen |-> BookedTo(i)]
           part == [s \in Sleeves |-> SumFunctionOnSet(Qty, {i \in Unseen : key[i] = s})]
<1>1. /\ IsFiniteSet(Unseen) /\ \A i \in Unseen : key[i] \in Sleeves
      /\ \A i \in Unseen : Qty[i] \in Int
  <2>1. \A i \in Unseen : i \in Orders
    BY DEF Unseen, Filled
  <2> QED
    BY <2>1, Listing, SumOfOrders
<1>2. SumFunctionOnSet(part, Sleeves) = SumFunctionOnSet(Qty, Unseen)
  <2> HIDE DEF key
  <2> QED
    BY <1>1, SumByKey
<1>3. \A s \in Sleeves : part[s] = SumQty({i \in Unseen : BookedTo(i) = s})
  <2> SUFFICES ASSUME NEW s \in Sleeves
               PROVE  part[s] = SumQty({i \in Unseen : BookedTo(i) = s})
    OBVIOUS
  <2>1. {i \in Unseen : key[i] = s} = {i \in Unseen : BookedTo(i) = s}
    OBVIOUS
  <2>2. part[s] = SumFunctionOnSet(Qty, {i \in Unseen : key[i] = s})
    OBVIOUS
  <2> HIDE DEF part, key
  <2> QED
    BY <2>1, <2>2 DEF SumQty
<1> HIDE DEF part, key
<1>4. \A s \in Sleeves : /\ sleeveQty[s] \in Int /\ part[s] \in Int
                         /\ f[s] = sleeveQty[s] + part[s]
  <2> SUFFICES ASSUME NEW s \in Sleeves
               PROVE  /\ sleeveQty[s] \in Int /\ part[s] \in Int
                      /\ f[s] = sleeveQty[s] + part[s]
    OBVIOUS
  <2>1. part[s] = SumQty({i \in Unseen : BookedTo(i) = s})
    BY <1>3
  <2>2. part[s] \in Int
    BY <2>1, Quantities
  <2>3. sleeveQty[s] \in Int
    BY DEF TypeOK
  <2>4. f[s] = sleeveQty[s] + part[s]
    BY <2>1
  <2> QED
    BY <2>2, <2>3, <2>4
<1>5. SumFunctionOnSet(f, Sleeves)
          = SumFunctionOnSet(sleeveQty, Sleeves) + SumFunctionOnSet(part, Sleeves)
  BY <1>4, SumPlus
<1> QED
  BY <1>2, <1>5 DEF SumQty

LEMMA NextOwners ==
    ASSUME TypeOK, Seeding, BooksInv, OwnersInv, [Next]_vars
    PROVE  OwnersInv'
<1> SUFFICES ASSUME Plain
             PROVE  /\ \A i \in Orders' : orders'[i].by \in Sleeves
                    /\ lastOwner' \in Sleeves \cup {"none"}
                    /\ ~seeded' => /\ \A s \in Sleeves : sleeveQty'[s] = 0
                                   /\ lastOwner' = "none" => Filled' = {}
                    /\ seeded' =>
                         /\ \A i \in Live' \ seen' : BookedTo(i)' = orders'[i].by
                         /\ lastOwner' = "none" => seen' = {}
                         /\ SumFunctionOnSet(sleeveQty', Sleeves) = localQty'
  BY SetupFixed DEF OwnersInv, Plain, Calm
<1>1. /\ \A i \in Orders : orders[i].by \in Sleeves
      /\ lastOwner \in Sleeves \cup {"none"}
      /\ ~seeded => /\ \A s \in Sleeves : sleeveQty[s] = 0
                    /\ lastOwner = "none" => Filled = {}
      /\ seeded => /\ \A i \in Live \ seen : BookedTo(i) = orders[i].by
                   /\ lastOwner = "none" => seen = {}
                   /\ SumFunctionOnSet(sleeveQty, Sleeves) = localQty
  BY DEF OwnersInv
<1>2. ASSUME orders' = orders
      PROVE  /\ Orders' = Orders /\ Filled' = Filled /\ Live' = Live
             /\ \A i \in Orders' : orders'[i].by \in Sleeves
  BY <1>1, <1>2 DEF Orders, Filled, Live
<1>3. "none" \notin Sleeves /\ Calm
  BY DEF Plain
<1>4. CASE Restart
  <2>1. /\ ~seeded' /\ \A s \in Sleeves : sleeveQty'[s] = 0
        /\ lastOwner' = lastOwner /\ Unseen = {}
        /\ orders' = orders \/ orders' = <<>>
    BY <1>4, <1>3 DEF Restart, Calm
  <2>2. CASE orders' = <<>>
    <3>1. Orders' = {} /\ Filled' = {}
      BY <2>2 DEF Orders, Filled
    <3> QED
      BY <1>1, <2>1, <3>1
  <2>3. CASE orders' = orders
    <3>1. lastOwner = "none" => Filled = {}
      <4>1. lastOwner = "none" /\ seeded => Filled = {}
        BY <1>1, <2>1 DEF Unseen
      <4> QED
        BY <1>1, <4>1
    <3> QED
      BY <1>1, <1>2, <2>1, <2>3, <3>1
  <2> QED
    BY <2>1, <2>2, <2>3
<1>5. CASE Seed
  <2>1. /\ ~seeded /\ pc = "seed" /\ orders' = orders /\ seeded' /\ seen' = Filled
        /\ localQty' = snapQty /\ lastOwner' = lastOwner /\ snapQty = AccountQty
        /\ \A s \in Sleeves :
               sleeveQty'[s] = IF s = lastOwner THEN snapQty ELSE sleeveQty[s]
    BY <1>3, <1>5 DEF Seed, Seeding, BooksInv
  <2>2. Live' \ seen' = {}
    <3>1. Working = {}
      BY <1>3, <2>1 DEF BooksInv
    <3>2. \A i \in Orders : orders[i].state \in States
      BY Listing DEF Order
    <3> QED
      BY <1>2, <2>1, <3>1, <3>2 DEF Live, Filled, Working, States
  <2>3. lastOwner' = "none" => seen' = {}
    BY <1>1, <2>1
  <2>4. SumFunctionOnSet(sleeveQty', Sleeves) = localQty'
    <3>1. CASE lastOwner \in Sleeves
      <4>1. \A s \in Sleeves :
                sleeveQty'[s] = IF s = lastOwner THEN snapQty ELSE 0
        BY <1>1, <2>1
      <4>2. snapQty \in Int
        BY DEF TypeOK
      <4> QED
        BY <2>1, <3>1, <4>1, <4>2, SeedSum
    <3>2. CASE lastOwner = "none"
      <4>1. \A s \in Sleeves : sleeveQty'[s] = 0
        BY <1>1, <1>3, <2>1, <3>2
      <4>2. SumFunctionOnSet(sleeveQty', Sleeves) = 0
        BY <4>1, SumZero
      <4>3. Filled = {}
        BY <1>1, <2>1, <3>2
      <4>4. AccountQty = 0
        BY <4>3, SumEmpty DEF AccountQty, SumQty
      <4> QED
        BY <2>1, <4>2, <4>4
    <3> QED
      BY <1>1, <3>1, <3>2
  <2> QED
    BY <1>1, <1>2, <2>1, <2>2, <2>3, <2>4
<1>6. CASE SeedFails
  BY <1>3, <1>6 DEF SeedFails, Calm
<1>7. CASE IngestFills /\ ApplyFills
  <2>1. seeded /\ seeded' = seeded /\ orders' = orders /\ setup' = setup /\ meta' = meta
    BY <1>7 DEF IngestFills, Seeding
  <2>2. /\ localQty' = localQty + SumQty(Unseen) /\ seen' = Filled
        /\ \A s \in Sleeves : sleeveQty'[s]
               = sleeveQty[s] + SumQty({i \in Unseen : BookedTo(i) = s})
        /\ IF Unseen = {} THEN lastOwner' = lastOwner
           ELSE \E i \in Unseen : lastOwner' = BookedTo(i)
    BY <1>7 DEF ApplyFills
  <2>3. \A i \in Unseen : BookedTo(i) \in Sleeves
    <3>1. \A i \in Unseen : i \in Live \ seen /\ i \in Orders
      BY DEF Unseen, Filled, Live
    <3> QED
      BY <1>1, <2>1, <3>1
  <2>4. SumFunctionOnSet(sleeveQty', Sleeves) = localQty'
    <3>1. SumFunctionOnSet(sleeveQty', Sleeves)
              = SumFunctionOnSet(sleeveQty, Sleeves) + SumQty(Unseen)
      BY <2>2, <2>3, BookedSum
    <3> QED
      BY <1>1, <2>1, <2>2, <3>1
  <2>5. \A i \in Live' \ seen' : BookedTo(i)' = orders'[i].by
    <3>1. seen \subseteq Filled
      BY DEF TypeOK
    <3>2. \A i : BookedTo(i)' = BookedTo(i)
      BY <2>1 DEF BookedTo
    <3> QED
      BY <1>1, <1>2, <2>1, <2>2, <3>1, <3>2
  <2>6. lastOwner' \in Sleeves \cup {"none"} /\ (lastOwner' = "none" => seen' = {})
    <3>1. CASE Unseen = {}
      BY <1>1, <2>1, <2>2, <3>1 DEF Unseen
    <3>2. CASE Unseen # {}
      BY <1>3, <2>2, <2>3, <3>2
    <3> QED
      BY <3>1, <3>2
  <2> QED
    BY <1>2, <2>1, <2>4, <2>5, <2>6
<1>8. CASE UNCHANGED bookVars /\ ~Restart
  <2>1. UNCHANGED <<localQty, seeded, seen, sleeveQty, lastOwner>>
    BY <1>8 DEF bookVars
  <2>2. Kept /\ setup' = setup
    BY <1>8, NextKept, SetupFixed
  <2>3. /\ \A i \in meta : i \in meta'
        /\ \A i \in Orders' : i \in Orders \/ (i \in meta' /\ orders'[i].by \in Sleeves)
    BY <1>8, NewOrders
  <2>4. \A i \in Orders' : orders'[i].by \in Sleeves
    BY <1>1, <2>2, <2>3 DEF Kept
  <2>5. CASE seeded
    <3>1. \A i \in Live' \ seen' : BookedTo(i)' = orders'[i].by
      <4> SUFFICES ASSUME NEW i \in Live' \ seen'
                   PROVE  BookedTo(i)' = orders'[i].by
        OBVIOUS
      <4>1. CASE i \in Orders
        <5>1. i \in Live \ seen
          BY <2>1, <2>2, <4>1 DEF Live, Kept
        <5>2. BookedTo(i) = orders[i].by /\ orders'[i].by = orders[i].by
          BY <1>1, <2>2, <2>5, <4>1, <5>1 DEF Kept
        <5>3. "unattributed" \notin Sleeves /\ orders[i].by \in Sleeves
          BY <1>1, <4>1
        <5> QED
          BY <2>2, <2>3, <5>2, <5>3 DEF BookedTo
      <4>2. CASE i \notin Orders
        <5>1. i \in meta'
          BY <2>3, <4>2 DEF Live
        <5> QED
          BY <5>1 DEF BookedTo
      <4> QED
        BY <4>1, <4>2
    <3>2. seeded'
      BY <2>1, <2>5, Zenon
    <3> QED
      BY <1>1, <2>1, <2>4, <2>5, <3>1, <3>2
  <2>6. CASE ~seeded
    <3>1. ~seeded' /\ Working = {}
      BY <1>3, <2>1, <2>6, Zenon DEF BooksInv
    <3>2. orders' = orders
      BY <1>3, <1>8, <2>6, <3>1, Dormant
    <3> QED
      BY <1>1, <1>2, <2>1, <2>4, <2>6, <3>1, <3>2
  <2> QED
    BY <2>5, <2>6
<1> QED
  BY <1>4, <1>5, <1>6, <1>7, <1>8, BookMoves

LEMMA InitBooks == Init => BooksInv /\ OwnersInv
<1> SUFFICES ASSUME Init PROVE BooksInv /\ OwnersInv
  OBVIOUS
<1>1. /\ orders = <<>> /\ pc = "start" /\ ~seeded /\ lastOwner = "none"
      /\ \A s \in Sleeves : sleeveQty[s] = 0
  BY DEF Init
<1>2. Orders = {} /\ Working = {} /\ Filled = {}
  BY <1>1 DEF Orders, Working, Filled
<1> QED
  BY <1>1, <1>2 DEF BooksInv, OwnersInv

LEMMA BooksHold == Spec => [](TypeOK /\ Seeding /\ BooksInv /\ OwnersInv)
<1>1. Init => TypeOK /\ Seeding /\ BooksInv /\ OwnersInv
  BY InitTyped, InitBooks DEF Init, Seeding
<1>2. TypeOK /\ Seeding /\ BooksInv /\ OwnersInv /\ [Next]_vars
          => TypeOK' /\ Seeding' /\ BooksInv' /\ OwnersInv'
  BY NextTyped, NextSeeding, NextBooks, NextOwners
<1> QED
  BY <1>1, <1>2, PTL DEF Spec

(* Where restarts are quiet and the broker answers, the local book is the  *)
(* account's as far as it was told, and the sleeves' books add up to it,   *)
(* for any number of sleeves, orders and restarts and either adapter.      *)
THEOREM CalmBooks == Spec => []CalmBooksAgree
<1>1. TypeOK /\ BooksInv /\ OwnersInv => CalmBooksAgree
  <2> SUFFICES ASSUME TypeOK, BooksInv, OwnersInv, Calm
               PROVE  BookMatchesAccount /\ (setup.expires \/ SleevesOwnBook)
    BY DEF CalmBooksAgree, Calm
  <2>1. BookMatchesAccount
    <3> SUFFICES ASSUME seeded PROVE Drift = 0
      BY DEF BookMatchesAccount
    <3>1. localQty = SumQty(seen) /\ localQty \in Int /\ Drift = localQty - SumQty(seen)
      BY DriftIs DEF BooksInv
    <3> QED
      BY <3>1
  <2>2. setup.expires \/ SleevesOwnBook
    BY DEF OwnersInv, Plain, SleevesOwnBook
  <2> QED
    BY <2>1, <2>2
<1> QED
  BY <1>1, BooksHold, PTL

-----------------------------------------------------------------------------
(* Never short *)

(* A sleeve's own position is its book and the fills it still has to be    *)
(* told of.  Over SimBroker, which fills within the call and never fails to*)
(* tell, it is never negative: there are no such fills when a pass begins, *)
(* and in a pass a sleeve sends one order.                                 *)
Sent(s) == {i \in Unseen : orders[i].by = s}
Own(s)  == sleeveQty[s] + SumQty(Sent(s))

Simulated == Plain /\ setup.broker = "sim"

Whole ==
    /\ Working = {}
    /\ ~seeded => orders = <<>>
    /\ pc \notin {"pass", "ingest2"} => Unseen = {}
    /\ pc = "pass" => \A s \in toRun : Sent(s) = {}
    /\ \A s \in Sleeves : Own(s) >= 0

SimInv == Simulated => Whole

LEMMA SentQuantities ==
    ASSUME TypeOK, NEW s \in Sleeves
    PROVE  /\ \A i \in Sent(s) : i \in Orders
           /\ sleeveQty[s] \in Int /\ SumQty(Sent(s)) \in Int
<1>1. \A i \in Sent(s) : i \in Orders
  BY DEF Sent, Unseen, Filled
<1>2. SumQty(Sent(s)) \in Int
  BY <1>1, SumOfOrders
<1> QED
  BY <1>1, <1>2 DEF TypeOK

(* An order of a sleeve fills in its call: the sleeve's position moves by  *)
(* as much, and no other sleeve's.                                         *)
LEMMA SimSubmits ==
    ASSUME TypeOK, Simulated, Working = {}, NEW s \in Sleeves, NEW q \in Int,
           Accept(s, q), Sent(s) = {}, seen' = seen, sleeveQty' = sleeveQty
    PROVE  /\ Working' = {}
           /\ \A t \in Sleeves \ {s} : Sent(t)' = Sent(t) /\ Own(t)' = Own(t)
           /\ Own(s)' = sleeveQty[s] + q
<1> DEFINE n == Len(orders) + 1
<1>1. s \in Senders /\ setup.broker = "sim"
  BY DEF Senders, Simulated
<1>2. /\ Kept /\ Orders' = Orders \cup {n} /\ n \notin Orders
      /\ \A i \in Orders : orders'[i] = orders[i]
      /\ orders'[n] = [by |-> s, qty |-> q, state |-> "filled"]
  BY <1>1, AcceptKeeps
<1>3. orders'[n].by = s /\ orders'[n].qty = q /\ orders'[n].state = "filled"
  BY <1>2
<1> HIDE DEF n
<1>4. Working' = {}
  BY <1>2, <1>3 DEF Working
<1>5. seen \subseteq Filled /\ Filled \subseteq Orders
  BY DEF TypeOK, Filled
<1>6. Unseen' = Unseen \cup {n} /\ n \notin Unseen /\ \A i \in Unseen : i \in Orders
  <2>1. Filled' = Filled \cup {n}
    BY <1>2, <1>3 DEF Filled
  <2> QED
    BY <1>2, <1>5, <2>1 DEF Unseen
<1>7. ASSUME NEW t \in Sleeves \ {s}
      PROVE  Sent(t)' = Sent(t) /\ Own(t)' = Own(t)
  <2>1. Sent(t)' = Sent(t)
    BY <1>2, <1>3, <1>6 DEF Sent
  <2>2. SumFunctionOnSet(Qty', Sent(t)) = SumQty(Sent(t))
    BY <1>2, KeptSum, SentQuantities
  <2> QED
    BY <2>1, <2>2 DEF Own, SumQty
<1>8. Sent(s)' = {n}
  BY <1>2, <1>3, <1>6 DEF Sent
<1>9. SumFunctionOnSet(Qty', {n}) = q
  <2>1. Qty'[n] = q
    BY <1>2, <1>3 DEF Qty
  <2>2. IsFiniteSet({}) /\ n \notin {} /\ \A i \in {} \cup {n} : Qty'[i] \in Int
    BY <2>1, FS_EmptySet
  <2>3. SumFunctionOnSet(Qty', {} \cup {n}) = Qty'[n] + SumFunctionOnSet(Qty', {})
    BY <2>2, SumAdd
  <2>4. SumFunctionOnSet(Qty', {}) = 0 /\ {} \cup {n} = {n}
    BY SumEmpty
  <2> QED
    BY <2>1, <2>3, <2>4
<1>10. Own(s)' = sleeveQty[s] + q
  BY <1>8, <1>9 DEF Own, SumQty
<1> QED
  BY <1>4, <1>7, <1>10

(* A step that leaves orders and books alone and begins no pass while fills*)
(* are still to come.                                                      *)
LEMMA StaysWhole ==
    ASSUME Whole, UNCHANGED <<orders, seeded, seen, sleeveQty>>,
           pc' = "pass" => (pc = "pass" /\ toRun' \subseteq toRun) \/ Unseen = {},
           pc' \notin {"pass", "ingest2"} => Unseen = {}
    PROVE  Whole'
<1>1. /\ Working' = Working /\ Unseen' = Unseen /\ Qty' = Qty
      /\ \A s : Sent(s)' = Sent(s)
  BY DEF Working, Filled, Unseen, Sent, Orders, Qty
<1>2. \A s : Own(s)' = Own(s)
  BY <1>1 DEF Own, SumQty
<1>3. pc' = "pass" => \A s \in toRun' : Sent(s)' = {}
  BY <1>1 DEF Sent, Whole
<1>4. ~seeded' => orders' = <<>>
  BY Zenon DEF Whole
<1> QED
  BY <1>1, <1>2, <1>3, <1>4 DEF Whole

LEMMA NextSim ==
    ASSUME TypeOK, Seeding, BooksInv, OwnersInv, SimInv, [Next]_vars
    PROVE  SimInv'
<1> SUFFICES ASSUME Simulated PROVE Whole'
  BY SetupFixed DEF SimInv, Simulated, Plain, Calm
<1>1. /\ Whole /\ Working = {}
      /\ ~seeded => orders = <<>>
      /\ pc \notin {"pass", "ingest2"} => Unseen = {}
      /\ pc = "pass" => \A s \in toRun : Sent(s) = {}
      /\ \A s \in Sleeves : Own(s) >= 0
  BY DEF SimInv, Whole
<1>2. /\ Plain /\ setup.broker = "sim" /\ setup.quiet
      /\ ~setup.faults /\ ~setup.expires
  BY DEF Simulated, Plain, Calm
<1>3. SumQty({})' = 0
  BY SumEmpty DEF SumQty
<1>4. CASE GetPositions \/ GuardPasses \/ CheckReconciled
  <2>1. /\ UNCHANGED <<orders, seeded, seen, sleeveQty>> /\ Unseen = {}
    BY <1>1, <1>4 DEF GetPositions, GuardPasses, CheckReconciled, bookVars
  <2> QED
    BY <1>1, <2>1, StaysWhole
<1>5. CASE PassDone
  <2>1. /\ UNCHANGED <<orders, seeded, seen, sleeveQty>> /\ pc' = "ingest2"
    BY <1>5 DEF PassDone, bookVars
  <2> QED
    BY <1>1, <2>1, StaysWhole
<1>6. CASE CutoffPasses \/ UNCHANGED vars
  <2>1. /\ UNCHANGED <<orders, seeded, seen, sleeveQty, pc, toRun>>
    BY <1>6 DEF CutoffPasses, vars, loopVars, bookVars
  <2> QED
    BY <1>1, <2>1, StaysWhole
<1>7. ASSUME NEW s \in Sleeves, SleeveSkips(s) PROVE Whole'
  <2>1. /\ UNCHANGED <<orders, seeded, seen, sleeveQty, pc>>
        /\ pc = "pass" /\ toRun' \subseteq toRun
    BY <1>7 DEF SleeveSkips, bookVars
  <2> QED
    BY <1>1, <2>1, StaysWhole
<1>8. ASSUME orders' = orders, seen' = Filled
      PROVE  /\ Unseen' = {} /\ Working' = {}
             /\ \A s : Sent(s)' = {} /\ Own(s)' = sleeveQty'[s] + 0
  <2>1. Unseen' = {} /\ Working' = {}
    BY <1>1, <1>8 DEF Unseen, Filled, Working, Orders
  <2>2. \A s : Sent(s)' = {}
    BY <2>1 DEF Sent
  <2> QED
    BY <1>3, <2>1, <2>2 DEF Own, SumQty
<1>9. CASE Seed
  <2>1. /\ ~seeded /\ pc = "seed" /\ orders' = orders /\ seeded' /\ seen' = Filled
        /\ pc' = "ingest"
        /\ \A s \in Sleeves :
               sleeveQty'[s] = IF s = lastOwner THEN snapQty ELSE sleeveQty[s]
    BY <1>9 DEF Seed, Seeding
  <2>2. snapQty = 0
    <3>1. snapQty = AccountQty
      BY <1>2, <2>1 DEF BooksInv, Plain
    <3>2. Filled = {}
      BY <1>1, <2>1 DEF Filled, Orders
    <3>3. AccountQty = 0
      BY <3>2, SumEmpty DEF AccountQty, SumQty
    <3> QED
      BY <3>1, <3>3
  <2>3. \A s \in Sleeves : sleeveQty'[s] = 0
    BY <1>2, <2>1, <2>2 DEF OwnersInv
  <2>4. \A s \in Sleeves : Own(s)' >= 0
    BY <1>8, <2>1, <2>3
  <2> QED
    BY <1>8, <2>1, <2>4 DEF Whole
<1>10. CASE SeedFails
  BY <1>2, <1>10 DEF SeedFails
<1>11. CASE IngestFills
  <2>1. /\ ApplyFills /\ orders' = orders /\ seeded' = seeded /\ seeded
        /\ pc' \in {"guard", "start"}
    BY <1>2, <1>11 DEF IngestFills, Seeding
  <2>2. /\ seen' = Filled
        /\ \A s \in Sleeves : sleeveQty'[s]
               = sleeveQty[s] + SumQty({i \in Unseen : BookedTo(i) = s})
    BY <2>1 DEF ApplyFills
  <2>3. \A s \in Sleeves : Own(s)' >= 0
    <3> SUFFICES ASSUME NEW s \in Sleeves PROVE Own(s)' >= 0
      OBVIOUS
    <3>1. {i \in Unseen : BookedTo(i) = s} = Sent(s)
      BY <1>2 DEF BookedTo, Sent
    <3>2. sleeveQty'[s] = Own(s)
      BY <2>2, <3>1 DEF Own
    <3>3. Own(s)' = sleeveQty'[s] + 0
      BY <1>8, <2>1, <2>2
    <3>4. Own(s) \in Int
      BY SentQuantities DEF Own
    <3> QED
      BY <1>1, <3>2, <3>3, <3>4
  <2>4. seeded'
    BY <2>1, Zenon
  <2> QED
    BY <1>8, <2>1, <2>2, <2>3, <2>4 DEF Whole
<1>12. ASSUME NEW s \in Sleeves, SleeveOpens(s) \/ SleeveCloses(s) PROVE Whole'
  <2>1. /\ pc = "pass" /\ s \in toRun /\ pc' = pc /\ toRun' = toRun \ {s}
        /\ seen' = seen /\ sleeveQty' = sleeveQty /\ seeded' = seeded
    BY <1>12 DEF SleeveOpens, SleeveCloses, bookVars
  <2>2. PICK q \in Int : Accept(s, q) /\ sleeveQty[s] + q >= 0
    <3>1. CASE SleeveOpens(s)
      <4>1. Accept(s, 1) /\ sleeveQty[s] = 0
        BY <3>1 DEF SleeveOpens, Submit
      <4> QED
        BY <4>1
    <3>2. CASE SleeveCloses(s)
      <4>1. Accept(s, -sleeveQty[s])
        BY <3>2 DEF SleeveCloses, Submit
      <4>2. sleeveQty[s] \in Int
        BY DEF TypeOK
      <4>3. -sleeveQty[s] \in Int /\ sleeveQty[s] + (-sleeveQty[s]) >= 0
        BY <4>2
      <4> QED
        BY <4>1, <4>3
    <3> QED
      BY <1>12, <3>1, <3>2
  <2>3. Sent(s) = {}
    BY <1>1, <2>1
  <2>4. /\ Working' = {}
        /\ \A t \in Sleeves \ {s} : Sent(t)' = Sent(t) /\ Own(t)' = Own(t)
        /\ Own(s)' = sleeveQty[s] + q
    BY <1>1, <2>1, <2>2, <2>3, SimSubmits
  <2>5. \A t \in Sleeves : Own(t)' >= 0
    BY <1>1, <2>2, <2>4
  <2>6. \A t \in toRun' : Sent(t)' = {}
    <3>1. \A t \in toRun' : t \in Sleeves \ {s} /\ t \in toRun
      BY <2>1 DEF TypeOK
    <3> QED
      BY <1>1, <2>1, <2>4, <3>1
  <2>7. seeded'
    <3>1. seeded
      BY <2>1 DEF Seeding
    <3> QED
      BY <2>1, <3>1, Zenon
  <2> QED
    BY <2>1, <2>4, <2>5, <2>6, <2>7 DEF Whole
<1>13. CASE Restart
  <2>1. /\ orders' = <<>> /\ seen' = {} /\ pc' = "start"
        /\ \A s \in Sleeves : sleeveQty'[s] = 0
    BY <1>2, <1>13 DEF Restart
  <2>2. Working' = {} /\ Unseen' = {} /\ \A s : Sent(s)' = {}
    BY <2>1 DEF Working, Unseen, Filled, Sent, Orders
  <2>3. \A s \in Sleeves : Own(s)' >= 0
    <3>1. \A s \in Sleeves : Own(s)' = 0 + 0
      BY <1>3, <2>1, <2>2 DEF Own, SumQty
    <3> QED
      BY <3>1
  <2> QED
    BY <2>1, <2>2, <2>3 DEF Whole
<1>14. CASE \/ GuardSends \/ GuardReplyLost \/ KillFlattens
            \/ \E s \in Sleeves : SleeveReplyLost(s)
            \/ \E i \in Orders : BrokerSettles(i)
  BY <1>1, <1>2, <1>14
     DEF GuardSends, GuardDue, GuardReplyLost, ReplyLost, KillFlattens,
         SleeveReplyLost, BrokerSettles
<1> QED
  BY <1>4, <1>5, <1>6, <1>7, <1>9, <1>10, <1>11, <1>12, <1>13, <1>14
     DEF Next, LoopStep

LEMMA InitSim == Init => SimInv
<1> SUFFICES ASSUME Init PROVE Whole
  BY DEF SimInv
<1>1. /\ orders = <<>> /\ pc = "start" /\ \A s \in Sleeves : sleeveQty[s] = 0
  BY DEF Init
<1>2. Working = {} /\ Unseen = {} /\ \A s : Sent(s) = {}
  BY <1>1 DEF Working, Unseen, Filled, Sent, Orders
<1>3. \A s \in Sleeves : Own(s) = 0 + 0
  BY <1>1, <1>2, SumEmpty DEF Own, SumQty
<1> QED
  BY <1>1, <1>2, <1>3 DEF Whole

(* The account is the sum of what its sleeves own. *)
LEMMA OwnersLong ==
    ASSUME TypeOK, BooksInv, OwnersInv, SimInv, Simulated
    PROVE  AccountQty >= 0
<1>1. CASE ~seeded
  <2>1. Filled = {}
    BY <1>1 DEF SimInv, Whole, Filled, Orders
  <2>2. AccountQty = 0
    BY <2>1, SumEmpty DEF AccountQty, SumQty
  <2> QED
    BY <2>2
<1>2. CASE seeded
  <2> DEFINE own == [s \in Sleeves |-> Own(s)]
             u == SumQty(Unseen)
             v == SumQty(seen)
  <2>1. \A i \in Unseen : BookedTo(i) \in Sleeves
    <3>1. \A i \in Unseen : i \in Orders
      BY DEF Unseen, Filled
    <3> QED
      BY <3>1 DEF OwnersInv, Simulated, BookedTo
  <2>2. \A s \in Sleeves :
            own[s] = sleeveQty[s] + SumQty({i \in Unseen : BookedTo(i) = s})
    <3> SUFFICES ASSUME NEW s \in Sleeves
                 PROVE  Own(s) = sleeveQty[s]
                                     + SumQty({i \in Unseen : BookedTo(i) = s})
      OBVIOUS
    <3>1. {i \in Unseen : BookedTo(i) = s} = Sent(s)
      BY DEF BookedTo, Sent, Simulated
    <3> QED
      BY <3>1 DEF Own
  <2>3. \A s \in Sleeves : own[s] \in Nat
    <3>1. \A s \in Sleeves : Own(s) \in Int /\ Own(s) >= 0
      BY SentQuantities DEF Own, SimInv, Whole
    <3> QED
      BY <3>1
  <2>4. SumFunctionOnSet(own, Sleeves) = SumFunctionOnSet(sleeveQty, Sleeves) + u
    <3> HIDE DEF own
    <3> QED
      BY <2>1, <2>2, BookedSum
  <2>5. SumFunctionOnSet(own, Sleeves) \in Nat
    <3> HIDE DEF own
    <3> QED
      BY <2>3, SumNat
  <2>6. /\ SumFunctionOnSet(sleeveQty, Sleeves) = v
        /\ u = AccountQty - v /\ v \in Int /\ AccountQty \in Int
    BY <1>2, DriftIs DEF OwnersInv, BooksInv, Simulated, Plain
  <2> HIDE DEF own, u, v
  <2> QED
    BY <2>4, <2>5, <2>6
<1> QED
  BY <1>1, <1>2

(* Over SimBroker and away from expiration the account is never short,     *)
(* whatever its sleeves open, close and reopen, through restarts.          *)
THEOREM NeverShortWhenCalm == Spec => []CalmNeverShort
<1>1. Init => SimInv
  BY InitSim
<1>2. TypeOK /\ Seeding /\ BooksInv /\ OwnersInv /\ SimInv /\ [Next]_vars => SimInv'
  BY NextSim
<1>3. TypeOK /\ BooksInv /\ OwnersInv /\ SimInv => CalmNeverShort
  BY OwnersLong DEF CalmNeverShort, NeverShort, Simulated, Plain, Calm
<1> QED
  BY <1>1, <1>2, <1>3, BooksHold, PTL DEF Spec
=============================================================================
