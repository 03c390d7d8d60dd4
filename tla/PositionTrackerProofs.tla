----------------------- MODULE PositionTrackerProofs -----------------------
(***************************************************************************)
(* What holds of the position tracker, for every set of symbols and        *)
(* requests, every limit, every price and every answer of the broker.      *)
(***************************************************************************)
EXTENDS PositionTracker, KillSwitchProofs, DataLemmas

(* A sync never lets a loss through and never resumes trading: it replaces *)
(* the P&L it then checks, and the margin check that follows may only      *)
(* exchange one halt for another (PositionTracker.sync).                   *)
THEOREM SyncHaltsHolds == TrackerSpec => SyncHalts
<1>1. ASSUME NEW m \in Margins, SyncApplies(m)
      PROVE  /\ LossExceeded(realized' + unrealized') => ~CheckOrderAllowed(ks'.level)
             /\ ~CheckOrderAllowed(ks.level) => ~CheckOrderAllowed(ks'.level)
  <2>1. ks' = MarginChecked(LossChecked(ks, realized + syncing.pnl), m)
    BY <1>1 DEF SyncApplies
  <2>2. realized' + unrealized' = realized + syncing.pnl
    BY <1>1 DEF SyncApplies
  <2> QED
    BY <2>1, <2>2, ChecksHalt
<1>2. /\ SyncEnds /\ LossExceeded(realized' + unrealized') => ~CheckOrderAllowed(ks'.level)
      /\ SyncEnds /\ ~CheckOrderAllowed(ks.level) => ~CheckOrderAllowed(ks'.level)
  BY <1>1 DEF SyncEnds
<1> QED
  BY <1>2, PTL DEF SyncHalts
-----------------------------------------------------------------------------
(* The shape of the tracker's state and of the account.                    *)

(* A whole number divided by the size of another one.                      *)
LEMMA QuotientType ==
    ASSUME NEW x \in Int, NEW q \in Int, q # 0
    PROVE  x \div Abs(q) \in Int
<1>1. Abs(q) \in Int /\ Abs(q) > 0
  BY DEF Abs
<1> QED
  BY <1>1

(* What a fill does to a snapshot: it stays one, and the quantity moves by *)
(* what was bought or sold.                                                *)
Signed(f) == IF f.side = "BUY" THEN f.quantity ELSE -f.quantity

(* Each of the three ways a fill changes a snapshot keeps its type and     *)
(* moves its quantity by the fill, signed.                                 *)
LEMMA SnapshotFilled ==
    ASSUME NEW p \in Snapshot, NEW f \in Fill
    PROVE  /\ Opened(f) \in Snapshot /\ Opened(f).quantity = Signed(f)
           /\ f.side = "BUY" => Bought(p, f) \in Snapshot
           /\ f.side = "BUY" => Bought(p, f).quantity = p.quantity + Signed(f)
           /\ f.side # "BUY" => Sold(p, f) \in Snapshot
           /\ f.side # "BUY" => Sold(p, f).quantity = p.quantity + Signed(f)
<1>0. /\ p.quantity \in Int /\ p.entry_price \in Int
      /\ f.quantity \in Int /\ f.price \in Int
  BY DEF Snapshot, Fill
<1>1. Opened(f) \in Snapshot /\ Opened(f).quantity = Signed(f)
  BY <1>0 DEF Opened, Snapshot, Signed
<1>2. ASSUME f.side = "BUY"
      PROVE  Bought(p, f) \in Snapshot /\ Bought(p, f).quantity = p.quantity + Signed(f)
  <2> DEFINE q == p.quantity + f.quantity
             x == p.entry_price * Abs(p.quantity) + f.price * f.quantity
             e == IF q # 0 THEN x \div Abs(q) ELSE p.entry_price
  <2>1. x \in Int /\ q \in Int
    BY <1>0 DEF Abs
  <2>2. e \in Int
    <3> HIDE DEF x, q
    <3> QED
      BY <1>0, <2>1, QuotientType
  <2>3. Bought(p, f) = [quantity |-> q, entry_price |-> e]
    BY DEF Bought
  <2>4. q = p.quantity + Signed(f)
    BY <1>2 DEF Signed
  <2> HIDE DEF q, e
  <2> QED
    BY <2>1, <2>2, <2>3, <2>4 DEF Snapshot
<1>3. ASSUME f.side # "BUY"
      PROVE  Sold(p, f) \in Snapshot /\ Sold(p, f).quantity = p.quantity + Signed(f)
  BY <1>0, <1>3 DEF Sold, Snapshot, Signed
<1> QED
  BY <1>1, <1>2, <1>3

(* So does a fill at the broker.                                           *)
LEMMA BookedFilled ==
    ASSUME NEW p \in Snapshot, NEW d \in Int \ {0}, NEW price \in Int
    PROVE  Booked(p, d, price) \in Snapshot /\ Booked(p, d, price).quantity = p.quantity + d
<1> DEFINE q == p.quantity + d
           x == p.entry_price * Abs(p.quantity) + price * Abs(d)
<1>0. p.quantity \in Int /\ p.entry_price \in Int /\ q \in Int
  BY DEF Snapshot
<1>1. CASE q = 0
  <2>1. p.quantity = -d
    BY <1>0, <1>1
  <2>2. (-d) * d < 0
    <3>1. d > 0 \/ d < 0
      OBVIOUS
    <3>2. \A n \in Int : n > 0 => (-n) * n < 0
      OBVIOUS
    <3>3. \A n \in Int : n < 0 => (-n) * n < 0
      OBVIOUS
    <3> QED
      BY <3>1, <3>2, <3>3
  <2>3. ~(p.quantity * d >= 0) /\ ~(p.quantity * q > 0)
    BY <1>0, <1>1, <2>1, <2>2
  <2>4. Booked(p, d, price) = Flat
    BY <1>1, <2>3 DEF Booked
  <2> QED
    BY <1>0, <1>1, <2>4 DEF Flat, Snapshot
<1>2. CASE q # 0 /\ p.quantity * d >= 0
  <2>1. x \in Int
    BY <1>0 DEF Abs
  <2>2. Booked(p, d, price) = [quantity |-> q, entry_price |-> x \div Abs(q)]
    <3>1. ~(p.quantity * q > 0 /\ p.quantity * d < 0)
      BY <1>0, <1>2
    <3> QED
      BY <1>2, <3>1 DEF Booked
  <2>3. x \div Abs(q) \in Int
    <3> HIDE DEF x, q
    <3> QED
      BY <1>0, <1>2, <2>1, QuotientType
  <2> HIDE DEF x
  <2> QED
    BY <1>0, <2>2, <2>3 DEF Snapshot
<1>3. CASE q # 0 /\ p.quantity * d < 0 /\ p.quantity * q > 0
  <2>1. Booked(p, d, price) = [p EXCEPT !.quantity = q]
    BY <1>0, <1>3 DEF Booked
  <2> QED
    BY <1>0, <2>1 DEF Snapshot
<1>4. CASE q # 0 /\ p.quantity * d < 0 /\ ~(p.quantity * q > 0)
  <2>1. Booked(p, d, price) = [quantity |-> q, entry_price |-> price]
    BY <1>0, <1>4 DEF Booked
  <2> QED
    BY <1>0, <2>1 DEF Snapshot
<1>5. p.quantity * d >= 0 \/ p.quantity * d < 0
  BY <1>0
<1> QED
  BY <1>1, <1>2, <1>3, <1>4, <1>5

(* An order at the exchange changes its status.                            *)
LEMMA OrderMoves ==
    ASSUME TrackerTypeOK, NEW i \in 1..Len(orders), NEW st \in {"FILLED", "CANCELLED"},
           orders' = [orders EXCEPT ![i].status = st]
    PROVE  orders' \in Seq(Order)
<1>1. orders \in Seq(Order)
  BY DEF TrackerTypeOK
<1>2. orders[i] \in Order
  BY <1>1
<1>3. [orders[i] EXCEPT !.status = st] \in Order
  BY <1>2 DEF Order
<1>4. orders' = [orders EXCEPT ![i] = [orders[i] EXCEPT !.status = st]]
  OBVIOUS
<1> QED
  BY <1>1, <1>3, <1>4

(* The steps of the tracker and of the account keep the shape.             *)
LEMMA TrackerTypeInductive ==
    ASSUME TrackerTypeOK, [TrackerNext]_vars
    PROVE  TrackerTypeOK'
<1> USE DEF TrackerTypeOK
<1>0. notices # <<>> => Head(notices) \in Fill /\ Tail(notices) \in Seq(Fill)
  OBVIOUS
<1>1. CASE UpdateFill
  <2> DEFINE f == Head(notices)
             s == f.symbol
             p == IF s \notin DOMAIN tracked THEN Opened(f)
                  ELSE IF f.side = "BUY" THEN Bought(tracked[s], f) ELSE Sold(tracked[s], f)
  <2>1. f \in Fill /\ s \in Symbols /\ f.price \in Int /\ f.quantity \in Int
    BY <1>0, <1>1 DEF UpdateFill, Fill
  <2>2. DOMAIN tracked \subseteq Symbols /\ tracked \in [DOMAIN tracked -> Snapshot]
    BY DEF Holdings
  <2>3. p \in Snapshot
    <3>1. CASE s \notin DOMAIN tracked
      <4>1. Flat \in Snapshot
        BY DEF Flat, Snapshot
      <4> QED
        BY <2>1, <3>1, <4>1, SnapshotFilled
    <3>2. CASE s \in DOMAIN tracked
      BY <2>1, <2>2, <3>2, SnapshotFilled
    <3> QED
      BY <3>1, <3>2
  <2>4. tracked' = [x \in DOMAIN tracked \cup {s} |-> IF x = s THEN p ELSE tracked[x]]
    BY <1>1 DEF UpdateFill
  <2>5. realized' \in {realized, realized + (f.price - tracked[s].entry_price) * f.quantity}
    BY <1>1 DEF UpdateFill
  <2>6. s \in DOMAIN tracked => tracked[s].entry_price \in Int
    BY <2>2 DEF Snapshot
  <2>7. realized' \in Int
    <3>1. CASE s \in DOMAIN tracked
      <4>1. \A a, b, c, d \in Int : a + (b - c) * d \in Int
        OBVIOUS
      <4> HIDE DEF f, s
      <4> QED
        BY <2>1, <2>5, <2>6, <3>1, <4>1
    <3>2. CASE s \notin DOMAIN tracked
      BY <1>1, <3>2 DEF UpdateFill
    <3> QED
      BY <3>1, <3>2
  <2>8. Holdings(tracked')
    <3> HIDE DEF p, s
    <3>1. DOMAIN tracked' = DOMAIN tracked \cup {s}
      BY <2>4
    <3>2. tracked' \in [DOMAIN tracked' -> Snapshot]
      BY <2>2, <2>3, <2>4
    <3> QED
      BY <2>1, <2>2, <3>1, <3>2 DEF Holdings
  <2>9. /\ notices' \in Seq(Fill) /\ overtaken' \in BOOLEAN
        /\ UNCHANGED <<unrealized, cash, syncing, orders, net>>
    BY <1>0, <1>1 DEF UpdateFill
  <2> QED
    BY <2>7, <2>8, <2>9
<1>2. CASE SyncReads
  <2> DEFINE held == {s \in Symbols : net[s].quantity # 0}
             h == [s \in held |-> net[s]]
  <2>1. PICK pnl \in (IF held = {} THEN {0} ELSE Pnls) : syncing' = [held |-> h, pnl |-> pnl]
    BY <1>2 DEF SyncReads
  <2>2. Holdings(h)
    BY DEF Holdings, TrackerTypeOK
  <2>3. pnl \in Int
    BY TrackerAssumption
  <2>4. overtaken' \in BOOLEAN
    BY <1>2 DEF SyncReads
  <2>5. UNCHANGED <<tracked, realized, unrealized, cash, orders, net, notices>>
    BY <1>2 DEF SyncReads, SyncFrame
  <2> HIDE DEF h
  <2> QED
    BY <2>1, <2>2, <2>3, <2>4, <2>5
<1>3. ASSUME NEW m \in Margins, SyncApplies(m)
      PROVE  TrackerTypeOK'
  BY <1>3 DEF SyncApplies, SyncFrame
<1>4. CASE SyncRaises
  BY <1>4 DEF SyncRaises, SyncFrame
<1>5. ASSUME NEW o \in Requests, OrderPlaced(o)
      PROVE  TrackerTypeOK'
  <2> DEFINE e == [order |-> o, status |-> "OPEN"]
  <2>1. e \in Order
    BY DEF Order
  <2>2. orders' = Append(orders, e)
    BY <1>5 DEF OrderPlaced
  <2>3. orders' \in Seq(Order)
    <3> HIDE DEF e
    <3> QED
      BY <2>1, <2>2
  <2> QED
    BY <1>5, <2>3 DEF OrderPlaced
<1>6. ASSUME NEW i \in 1..Len(orders), NEW price \in FillPrices, ExchangeFills(i, price)
      PROVE  TrackerTypeOK'
  <2> DEFINE o == orders[i].order
             d == IF o.side = "BUY" THEN o.quantity ELSE -o.quantity
             f == [symbol |-> o.symbol, quantity |-> o.quantity, price |-> price, side |-> o.side]
  <2>1. /\ o \in Requests /\ o.symbol \in Symbols /\ o.quantity \in Nat \ {0} /\ d \in Int \ {0}
        /\ price \in Nat /\ o.side \in {"BUY", "SELL"}
    <3>1. orders[i] \in Order
      OBVIOUS
    <3>2. o \in Requests
      BY <3>1 DEF Order
    <3> QED
      BY <3>2, TrackerAssumption
  <2>2. orders' \in Seq(Order)
    BY <1>6, OrderMoves DEF ExchangeFills
  <2>3. net' = [net EXCEPT ![o.symbol] = Booked(net[o.symbol], d, price)]
    BY <1>6 DEF ExchangeFills
  <2>4. Booked(net[o.symbol], d, price) \in Snapshot
    <3> HIDE DEF d, o
    <3> QED
      BY <2>1, BookedFilled
  <2>5. net' \in [Symbols -> Snapshot]
    <3> HIDE DEF d, o
    <3> QED
      BY <2>3, <2>4
  <2>6. f \in Fill
    BY <2>1 DEF Fill
  <2>7. notices' = Append(notices, f)
    BY <1>6 DEF ExchangeFills
  <2>8. notices' \in Seq(Fill)
    <3> HIDE DEF f
    <3> QED
      BY <2>6, <2>7
  <2>9. cash' = cash - d * price
    BY <1>6 DEF ExchangeFills
  <2>10. cash' \in Int
    <3>1. \A a, b, c \in Int : a - b * c \in Int
      OBVIOUS
    <3> HIDE DEF d
    <3> QED
      BY <2>1, <2>9, <3>1
  <2> QED
    BY <1>6, <2>2, <2>5, <2>8, <2>10 DEF ExchangeFills
<1>7. ASSUME NEW i \in 1..Len(orders), ExchangeCancels(i)
      PROVE  TrackerTypeOK'
  <2>1. orders' \in Seq(Order)
    BY <1>7, OrderMoves DEF ExchangeCancels
  <2> QED
    BY <1>7, <2>1 DEF ExchangeCancels
<1>8. CASE Operator \/ UNCHANGED vars
  BY <1>8 DEF Operator, vars, trackerVars
<1> QED
  BY <1>1, <1>2, <1>3, <1>4, <1>5, <1>6, <1>7, <1>8 DEF TrackerNext

(* Type correctness of the tracker (PositionTracker and DailyPnL of        *)
(* src/execution/positions.py) and of the account it follows.              *)
THEOREM TrackerTypeCorrect == TrackerSpec => []TrackerTypeOK
<1>1. TrackerInit => TrackerTypeOK
  <2> SUFFICES ASSUME TrackerInit PROVE TrackerTypeOK
    OBVIOUS
  <2>1. Holdings(tracked)
    <3>1. tracked = <<>> /\ DOMAIN tracked = {}
      BY DEF TrackerInit
    <3>2. <<>> \in [{} -> Snapshot]
      OBVIOUS
    <3> QED
      BY <3>1, <3>2 DEF Holdings
  <2>2. net \in [Symbols -> Snapshot]
    BY DEF TrackerInit, Flat, Snapshot
  <2>3. orders = <<>> /\ notices = <<>> /\ syncing = None
    BY DEF TrackerInit
  <2>4. orders \in Seq(Order) /\ notices \in Seq(Fill)
    BY <2>3
  <2>5. realized = 0 /\ unrealized = 0 /\ cash = 0
    BY DEF TrackerInit
  <2>6. overtaken \in BOOLEAN
    BY Zenon DEF TrackerInit
  <2> QED
    BY <2>1, <2>2, <2>3, <2>4, <2>5, <2>6 DEF TrackerTypeOK
<1>2. TrackerTypeOK /\ [TrackerNext]_vars => TrackerTypeOK'
  BY TrackerTypeInductive
<1> QED
  BY <1>1, <1>2, PTL DEF TrackerSpec
-----------------------------------------------------------------------------
(* The tracker and the broker.  What separates them are the notices on     *)
(* their way: one after the other they lead from the quantities tracked to *)
(* the quantities at the broker.                                           *)

Ledger == [Symbols -> Int]

Quantities(h) == [s \in Symbols |-> IF s \in DOMAIN h THEN h[s].quantity ELSE 0]

After(q, f) == [q EXCEPT ![f.symbol] = @ + Signed(f)]

Leads(a, ns, b) ==
    \E w \in [0..Len(ns) -> Ledger] :
        /\ w[0] = a /\ w[Len(ns)] = b
        /\ \A i \in 1..Len(ns) : w[i] = After(w[i - 1], ns[i])

FollowInv ==
    ~overtaken =>
        /\ Leads(Quantities(tracked), notices, Quantities(net))
        /\ syncing # None => Quantities(syncing.held) = Quantities(tracked)

(* Every symbol has a quantity, zero where nothing is held.                *)
LEMMA QuantitiesType ==
    ASSUME NEW h, Holdings(h)
    PROVE  Quantities(h) \in Ledger
BY DEF Holdings, Quantities, Ledger, Snapshot

(* Quantities after a fill are quantities.                                 *)
LEMMA AfterType ==
    ASSUME NEW q \in Ledger, NEW f \in Fill
    PROVE  After(q, f) \in Ledger
BY DEF After, Ledger, Fill, Signed

(* With no notice on its way the two are the same.                         *)
LEMMA LeadsNowhere ==
    ASSUME NEW a \in Ledger, NEW b
    PROVE  Leads(a, <<>>, b) <=> a = b
<1>1. ASSUME a = b
      PROVE  Leads(a, <<>>, b)
  <2> DEFINE w == [i \in 0..0 |-> a]
  <2>1. w \in [0..0 -> Ledger] /\ w[0] = a
    OBVIOUS
  <2> HIDE DEF w
  <2> QED
    BY <1>1, <2>1 DEF Leads
<1>2. ASSUME Leads(a, <<>>, b)
      PROVE  a = b
  BY <1>2 DEF Leads
<1> QED
  BY <1>1, <1>2

(* The first notice taken.                                                 *)
LEMMA LeadsOn ==
    ASSUME NEW a \in Ledger, NEW b, NEW ns \in Seq(Fill), ns # <<>>, Leads(a, ns, b)
    PROVE  Leads(After(a, Head(ns)), Tail(ns), b)
<1>1. PICK w \in [0..Len(ns) -> Ledger] :
         /\ w[0] = a /\ w[Len(ns)] = b
         /\ \A i \in 1..Len(ns) : w[i] = After(w[i - 1], ns[i])
  BY DEF Leads
<1> DEFINE n == Len(ns) - 1
           v == [i \in 0..n |-> w[i + 1]]
<1>2. /\ Len(ns) \in Nat \ {0} /\ n \in Nat /\ Len(Tail(ns)) = n /\ Head(ns) = ns[1]
      /\ \A i \in 1..n : Tail(ns)[i] = ns[i + 1]
  OBVIOUS
<1>3. v \in [0..n -> Ledger]
  BY <1>2
<1>4. v[0] = After(a, Head(ns)) /\ v[n] = b
  BY <1>1, <1>2
<1>5. ASSUME NEW i \in 1..n
      PROVE  v[i] = After(v[i - 1], Tail(ns)[i])
  <2>1. i + 1 \in 1..Len(ns) /\ i \in 0..n /\ i - 1 \in 0..n /\ (i - 1) + 1 = i /\ (i + 1) - 1 = i
    BY <1>2
  <2>2. w[i + 1] = After(w[i], ns[i + 1])
    BY <1>1, <2>1
  <2>3. v[i] = w[i + 1] /\ v[i - 1] = w[i]
    BY <2>1
  <2> QED
    BY <1>2, <2>2, <2>3
<1> HIDE DEF v, n
<1> QED
  BY <1>2, <1>3, <1>4, <1>5 DEF Leads

(* One notice more.                                                        *)
LEMMA LeadsFurther ==
    ASSUME NEW a, NEW b \in Ledger, NEW ns \in Seq(Fill), NEW f \in Fill, Leads(a, ns, b)
    PROVE  Leads(a, Append(ns, f), After(b, f))
<1>1. PICK w \in [0..Len(ns) -> Ledger] :
         /\ w[0] = a /\ w[Len(ns)] = b
         /\ \A i \in 1..Len(ns) : w[i] = After(w[i - 1], ns[i])
  BY DEF Leads
<1> DEFINE n == Len(ns)
           m == Append(ns, f)
           v == [i \in 0..n + 1 |-> IF i = n + 1 THEN After(b, f) ELSE w[i]]
<1>2. n \in Nat /\ Len(m) = n + 1 /\ m[n + 1] = f /\ \A i \in 1..n : m[i] = ns[i]
  OBVIOUS
<1>3. v \in [0..n + 1 -> Ledger]
  BY <1>2, AfterType
<1>4. v[0] = a /\ v[n + 1] = After(b, f)
  BY <1>1, <1>2
<1>5. ASSUME NEW i \in 1..n + 1
      PROVE  v[i] = After(v[i - 1], m[i])
  <2>1. CASE i = n + 1
    <3>1. v[i - 1] = b
      BY <1>1, <1>2, <2>1
    <3> QED
      BY <1>2, <2>1, <3>1
  <2>2. CASE i # n + 1
    <3>1. i \in 1..n /\ i - 1 \in 0..n
      BY <1>2, <2>2
    <3>2. v[i] = w[i] /\ v[i - 1] = w[i - 1]
      BY <1>2, <2>2, <3>1
    <3> QED
      BY <1>1, <1>2, <3>1, <3>2
  <2> QED
    BY <2>1, <2>2
<1> HIDE DEF v, n, m
<1>6. Leads(a, m, After(b, f))
  BY <1>2, <1>3, <1>4, <1>5 DEF Leads
<1> QED
  BY <1>6 DEF m

(* update_fill takes the first notice, as the tracker's own arithmetic of  *)
(* quantities would.                                                       *)
LEMMA FillFollows ==
    ASSUME TrackerTypeOK, UpdateFill
    PROVE  Quantities(tracked') = After(Quantities(tracked), Head(notices))
<1> DEFINE f == Head(notices)
           s == f.symbol
           p == IF s \notin DOMAIN tracked THEN Opened(f)
                ELSE IF f.side = "BUY" THEN Bought(tracked[s], f) ELSE Sold(tracked[s], f)
           Q == Quantities(tracked)
<1>1. f \in Fill /\ s \in Symbols
  <2>1. f \in Fill
    BY DEF UpdateFill, TrackerTypeOK
  <2> QED
    BY <2>1 DEF Fill
<1>2. DOMAIN tracked \subseteq Symbols /\ tracked \in [DOMAIN tracked -> Snapshot]
  BY DEF TrackerTypeOK, Holdings
<1>3. Q \in Ledger
  BY QuantitiesType DEF TrackerTypeOK
<1>4. p.quantity = Q[s] + Signed(f)
  <2>1. CASE s \notin DOMAIN tracked
    <3>1. Flat \in Snapshot
      BY DEF Flat, Snapshot
    <3>2. Opened(f).quantity = Signed(f) /\ Signed(f) \in Int
      BY <1>1, <3>1, SnapshotFilled DEF Signed, Fill
    <3>3. Q[s] = 0
      BY <1>1, <2>1 DEF Quantities
    <3> QED
      BY <2>1, <3>2, <3>3
  <2>2. CASE s \in DOMAIN tracked
    <3>1. Q[s] = tracked[s].quantity
      BY <1>1, <2>2 DEF Quantities
    <3> QED
      BY <1>1, <1>2, <2>2, <3>1, SnapshotFilled
  <2> QED
    BY <2>1, <2>2
<1>5. tracked' = [x \in DOMAIN tracked \cup {s} |-> IF x = s THEN p ELSE tracked[x]]
  BY DEF UpdateFill
<1>6. Quantities(tracked') = [x \in Symbols |-> IF x = s THEN p.quantity ELSE Q[x]]
  <2> HIDE DEF p, s
  <2> QED
    BY <1>5 DEF Quantities
<1>7. After(Q, f) = [x \in Symbols |-> IF x = s THEN Q[s] + Signed(f) ELSE Q[x]]
  <2> HIDE DEF Q
  <2> QED
    BY <1>1, <1>3 DEF After, Ledger
<1> HIDE DEF p, s, f, Q
<1> QED
  BY <1>4, <1>6, <1>7 DEF f, Q

(* The broker's book moves by the fill that it sends a notice of.          *)
LEMMA ExchangeLeads ==
    ASSUME TrackerTypeOK, NEW i \in 1..Len(orders), NEW price \in FillPrices,
           ExchangeFills(i, price)
    PROVE  \E f \in Fill : /\ notices' = Append(notices, f)
                           /\ Quantities(net') = After(Quantities(net), f)
<1> DEFINE o == orders[i].order
           d == IF o.side = "BUY" THEN o.quantity ELSE -o.quantity
           f == [symbol |-> o.symbol, quantity |-> o.quantity, price |-> price, side |-> o.side]
<1>1. /\ o.symbol \in Symbols /\ o.quantity \in Nat \ {0} /\ d \in Int \ {0}
      /\ price \in Nat /\ o.side \in {"BUY", "SELL"}
  <2>1. orders[i] \in Order
    BY DEF TrackerTypeOK
  <2>2. o \in Requests
    BY <2>1 DEF Order
  <2> QED
    BY <2>2, TrackerAssumption
<1>2. f \in Fill /\ Signed(f) = d /\ f.symbol = o.symbol
  BY <1>1 DEF Fill, Signed
<1>3. /\ net' = [net EXCEPT ![o.symbol] = Booked(net[o.symbol], d, price)]
      /\ notices' = Append(notices, f)
  BY DEF ExchangeFills
<1> HIDE DEF o, d, f
<1>4. net \in [Symbols -> Snapshot] /\ net[o.symbol] \in Snapshot
  BY <1>1 DEF TrackerTypeOK
<1>5. Booked(net[o.symbol], d, price).quantity = net[o.symbol].quantity + d
  <2>1. \A p \in Snapshot, e \in Int \ {0}, x \in Int :
           Booked(p, e, x).quantity = p.quantity + e
    BY BookedFilled
  <2>2. price \in Int
    BY <1>1
  <2> QED
    BY <1>1, <1>4, <2>1, <2>2
<1>6. Quantities(net') = [x \in Symbols |-> IF x = o.symbol THEN net[x].quantity + d
                                                            ELSE net[x].quantity]
  <2>1. DOMAIN net' = Symbols
    BY <1>3, <1>4
  <2>2. \A x \in Symbols : net'[x] = IF x = o.symbol THEN Booked(net[o.symbol], d, price)
                                                     ELSE net[x]
    BY <1>3, <1>4
  <2> QED
    BY <1>5, <2>1, <2>2 DEF Quantities
<1>7. After(Quantities(net), f) = [x \in Symbols |-> IF x = o.symbol THEN net[x].quantity + d
                                                                     ELSE net[x].quantity]
  <2>1. Quantities(net) = [x \in Symbols |-> net[x].quantity]
    BY <1>4 DEF Quantities
  <2> QED
    BY <1>1, <1>2, <2>1 DEF After
<1> QED
  BY <1>2, <1>3, <1>6, <1>7

(* What a sync has read while no notice was on its way, and what no fill   *)
(* has moved since, is what the tracker already has.                       *)
LEMMA FollowInductive ==
    ASSUME TrackerTypeOK, FollowInv, [TrackerNext]_vars
    PROVE  FollowInv'
<1>0. /\ notices \in Seq(Fill) /\ Quantities(tracked) \in Ledger /\ Quantities(net) \in Ledger
      /\ net \in [Symbols -> Snapshot] /\ overtaken \in BOOLEAN
  <2>1. Holdings(tracked) /\ Holdings(net)
    BY DEF TrackerTypeOK, Holdings
  <2> QED
    BY <2>1, QuantitiesType DEF TrackerTypeOK
<1>1. CASE UpdateFill
  <2> SUFFICES ASSUME ~overtaken'
               PROVE  /\ Leads(Quantities(tracked'), notices', Quantities(net'))
                      /\ syncing' = None
    BY DEF FollowInv, Leads, Quantities
  <2>1. /\ ~overtaken /\ syncing = None /\ syncing' = None /\ net' = net
        /\ notices # <<>> /\ notices' = Tail(notices)
    BY <1>1 DEF UpdateFill
  <2>2. Leads(Quantities(tracked), notices, Quantities(net))
    BY <2>1 DEF FollowInv
  <2> QED
    BY <1>0, <1>1, <2>1, <2>2, FillFollows, LeadsOn
<1>2. CASE SyncReads
  <2> DEFINE held == {s \in Symbols : net[s].quantity # 0}
             h == [s \in held |-> net[s]]
  <2> SUFFICES ASSUME ~overtaken'
               PROVE  /\ Leads(Quantities(tracked'), notices', Quantities(net'))
                      /\ Quantities(syncing'.held) = Quantities(tracked')
    BY DEF FollowInv, Leads, Quantities
  <2>1. /\ ~overtaken /\ notices = <<>> /\ UNCHANGED <<tracked, net, notices>>
        /\ syncing'.held = h
    <3>1. PICK pnl \in (IF held = {} THEN {0} ELSE Pnls) : syncing' = [held |-> h, pnl |-> pnl]
      BY <1>2 DEF SyncReads
    <3>2. syncing'.held = h
      BY <3>1
    <3>3. ~overtaken /\ notices = <<>> /\ UNCHANGED <<tracked, net, notices>>
      BY <1>2 DEF SyncReads, SyncFrame
    <3> QED
      BY <3>2, <3>3
  <2>2. Leads(Quantities(tracked), notices, Quantities(net))
    BY <2>1 DEF FollowInv
  <2>3. Quantities(tracked) = Quantities(net)
    BY <1>0, <2>1, <2>2, LeadsNowhere
  <2>4. Quantities(h) = Quantities(net)
    BY <1>0 DEF Quantities
  <2> HIDE DEF h
  <2> QED
    BY <2>1, <2>2, <2>3, <2>4
<1>3. ASSUME NEW m \in Margins, SyncApplies(m)
      PROVE  FollowInv'
  <2>1. /\ tracked' = syncing.held /\ syncing # None /\ syncing' = None
        /\ UNCHANGED <<overtaken, net, notices>>
    BY <1>3 DEF SyncApplies, SyncFrame
  <2> QED
    BY <2>1 DEF FollowInv
<1>4. CASE SyncRaises
  BY <1>4 DEF SyncRaises, SyncFrame, FollowInv
<1>5. ASSUME NEW o \in Requests, OrderPlaced(o)
      PROVE  FollowInv'
  BY <1>5 DEF OrderPlaced, FollowInv
<1>6. ASSUME NEW i \in 1..Len(orders), NEW price \in FillPrices, ExchangeFills(i, price)
      PROVE  FollowInv'
  <2>1. PICK f \in Fill : /\ notices' = Append(notices, f)
                          /\ Quantities(net') = After(Quantities(net), f)
    BY <1>6, ExchangeLeads
  <2>2. UNCHANGED <<tracked, syncing, overtaken>>
    BY <1>6 DEF ExchangeFills
  <2>3. ASSUME ~overtaken
        PROVE  Leads(Quantities(tracked'), notices', Quantities(net'))
    <3>1. Leads(Quantities(tracked), notices, Quantities(net))
      BY <2>3 DEF FollowInv
    <3>2. Leads(Quantities(tracked), Append(notices, f), After(Quantities(net), f))
      BY <1>0, <3>1, LeadsFurther
    <3> QED
      BY <2>1, <2>2, <3>2
  <2> QED
    BY <2>2, <2>3 DEF FollowInv, Leads, Quantities
<1>7. ASSUME NEW i \in 1..Len(orders), ExchangeCancels(i)
      PROVE  FollowInv'
  BY <1>7 DEF ExchangeCancels, FollowInv
<1>8. CASE Operator \/ UNCHANGED vars
  BY <1>8 DEF Operator, vars, trackerVars, FollowInv
<1> QED
  BY <1>1, <1>2, <1>3, <1>4, <1>5, <1>6, <1>7, <1>8 DEF TrackerNext

(* Whatever was bought, sold, averaged, turned around or synchronized, and *)
(* in however many symbols: as long as no fill notice and no sync passed   *)
(* each other, a tracker that was told everything has the quantities the   *)
(* broker has (PositionTracker.update_fill and sync).                      *)
THEOREM FollowsBrokerHolds == TrackerSpec => []FollowsBroker
<1>1. TrackerInit => FollowInv
  <2> SUFFICES ASSUME TrackerInit PROVE FollowInv
    OBVIOUS
  <2>1. notices = <<>> /\ syncing = None /\ tracked = <<>> /\ net = [s \in Symbols |-> Flat]
    BY DEF TrackerInit
  <2>2. Quantities(net) = [s \in Symbols |-> 0]
    BY <2>1 DEF Quantities, Flat
  <2>3. Quantities(tracked) = [s \in Symbols |-> 0]
    <3>1. DOMAIN tracked = {}
      BY <2>1
    <3> QED
      BY <3>1 DEF Quantities
  <2>4. [s \in Symbols |-> 0] \in Ledger
    BY DEF Ledger
  <2>5. Leads(Quantities(tracked), notices, Quantities(net))
    BY <2>1, <2>2, <2>3, <2>4, LeadsNowhere
  <2> QED
    BY <2>1, <2>5 DEF FollowInv
<1>2. TrackerTypeOK /\ FollowInv /\ [TrackerNext]_vars => FollowInv'
  BY FollowInductive
<1>3. TrackerTypeOK /\ FollowInv => FollowsBroker
  <2> SUFFICES ASSUME TrackerTypeOK, FollowInv, Quiet, ~overtaken, NEW s \in Symbols
               PROVE  TrackedQuantity(s) = net[s].quantity
    BY DEF FollowsBroker
  <2>1. Holdings(tracked) /\ net \in [Symbols -> Snapshot] /\ notices = <<>>
    BY DEF TrackerTypeOK, Quiet
  <2>2. Quantities(tracked) = Quantities(net)
    BY <2>1, QuantitiesType, LeadsNowhere DEF FollowInv
  <2>3. Quantities(tracked)[s] = TrackedQuantity(s) /\ Quantities(net)[s] = net[s].quantity
    BY <2>1 DEF Quantities, TrackedQuantity
  <2> QED
    BY <2>2, <2>3
<1> QED
  BY <1>1, <1>2, <1>3, TrackerTypeCorrect, PTL DEF TrackerSpec
-----------------------------------------------------------------------------
(* What was sold was there.                                                *)

OpenIn(os, s, side) ==
    {i \in 1..Len(os) :
        os[i].status = "OPEN" /\ os[i].order.symbol = s /\ os[i].order.side = side}

QuantityIn(os, s, side) == SumFunction([i \in OpenIn(os, s, side) |-> os[i].order.quantity])

NeverShort == \A s \in Symbols : QuantityIn(orders, s, "SELL") <= net[s].quantity

(* What the guard of an order reads.                                       *)
LEMMA OpenQuantityIs == \A s, side : OpenQuantity(s, side) = QuantityIn(orders, s, side)
BY DEF OpenQuantity, QuantityIn, OpenOrders, OpenIn

(* Orders ask for whole numbers of known symbols.                          *)
LEMMA OrderType ==
    ASSUME NEW os \in Seq(Order), NEW i \in 1..Len(os)
    PROVE  /\ os[i] \in Order /\ os[i].order \in Requests
           /\ os[i].order.symbol \in Symbols /\ os[i].order.quantity \in Nat \ {0}
           /\ os[i].order.side \in {"BUY", "SELL"}
<1>1. os[i] \in Order
  OBVIOUS
<1>2. os[i].order \in Requests
  BY <1>1 DEF Order
<1> QED
  BY <1>1, <1>2, TrackerAssumption

(* The open orders of a side are finitely many, and their sum a number.    *)
LEMMA OpensType ==
    ASSUME NEW os \in Seq(Order), NEW s, NEW side
    PROVE  /\ IsFiniteSet(OpenIn(os, s, side))
           /\ \A i \in OpenIn(os, s, side) : i \in 1..Len(os) /\ os[i].order.quantity \in Nat
           /\ QuantityIn(os, s, side) \in Nat
<1> DEFINE f == [i \in OpenIn(os, s, side) |-> os[i].order.quantity]
<1>1. Len(os) \in Nat /\ IsFiniteSet(1..Len(os))
  BY FirstNumbers
<1>2. IsFiniteSet(OpenIn(os, s, side))
  BY <1>1, FS_Subset DEF OpenIn
<1>3. \A i \in OpenIn(os, s, side) : i \in 1..Len(os)
  BY DEF OpenIn
<1>4. \A i \in OpenIn(os, s, side) : os[i].order.quantity \in Nat
  BY <1>3, OrderType
<1>5. IsFiniteSet(DOMAIN f) /\ \A i \in DOMAIN f : f[i] \in Nat
  BY <1>2, <1>4
<1>6. SumFunction(f) \in Nat
  <2> HIDE DEF f
  <2> QED
    BY <1>5, SumNatural
<1> QED
  BY <1>2, <1>3, <1>4, <1>6 DEF QuantityIn

Closed(os, i, st) == [os EXCEPT ![i].status = st]

(* An order that is no longer open leaves the sum of its symbol and side   *)
(* and no other.                                                           *)
LEMMA OrderCloses ==
    ASSUME NEW os \in Seq(Order), NEW i \in 1..Len(os), os[i].status = "OPEN",
           NEW st \in {"FILLED", "CANCELLED"}, NEW s, NEW side
    PROVE  QuantityIn(os, s, side) = QuantityIn(Closed(os, i, st), s, side)
               + IF s = os[i].order.symbol /\ side = os[i].order.side
                 THEN os[i].order.quantity ELSE 0
<1> DEFINE new == Closed(os, i, st)
           f == [j \in OpenIn(os, s, side) |-> os[j].order.quantity]
           g == [j \in OpenIn(new, s, side) |-> new[j].order.quantity]
           Its == s = os[i].order.symbol /\ side = os[i].order.side
<1>0. new = [os EXCEPT ![i].status = st]
  BY DEF Closed
<1>1. /\ Len(new) = Len(os) /\ Len(os) \in Nat
      /\ \A j \in 1..Len(os) : /\ new[j].order = os[j].order
                               /\ new[j].status = IF j = i THEN st ELSE os[j].status
  <2>1. \A j \in 1..Len(os) : os[j] \in Order
    OBVIOUS
  <2> QED
    BY <1>0, <2>1 DEF Order
<1> HIDE DEF new
<1>2. /\ IsFiniteSet(DOMAIN f) /\ \A j \in DOMAIN f : j \in 1..Len(os) /\ f[j] \in Nat
      /\ QuantityIn(os, s, side) = SumFunction(f) /\ QuantityIn(os, s, side) \in Nat
  BY OpensType DEF QuantityIn
<1>3. QuantityIn(new, s, side) = SumFunction(g)
  BY DEF QuantityIn
<1>4. OpenIn(new, s, side) = OpenIn(os, s, side) \ {i}
  BY <1>1 DEF OpenIn
<1>5. i \in OpenIn(os, s, side) <=> Its
  BY DEF OpenIn
<1>6. DOMAIN g = DOMAIN f \ {i} /\ \A j \in DOMAIN g : g[j] = f[j]
  BY <1>1, <1>2, <1>4
<1>7. IsFiniteSet(DOMAIN g)
  BY <1>2, <1>6, FS_Subset
<1>8. CASE Its
  <2>1. i \in DOMAIN f /\ f[i] = os[i].order.quantity
    BY <1>5, <1>8
  <2>2. /\ i \notin DOMAIN g /\ DOMAIN f = DOMAIN g \cup {i} /\ f[i] \in Int
        /\ \A j \in DOMAIN g : g[j] \in Int /\ f[j] = g[j]
    <3>1. i \in DOMAIN f /\ f[i] \in Int /\ \A j \in DOMAIN f : f[j] \in Int
      BY <1>2, <2>1
    <3>2. DOMAIN g = DOMAIN f \ {i} /\ \A j \in DOMAIN g : g[j] = f[j]
      BY <1>6
    <3> HIDE DEF f, g
    <3> QED
      BY <3>1, <3>2
  <2>3. SumFunction(g) \in Int /\ SumFunction(f) = SumFunction(g) + f[i]
    <3> HIDE DEF f, g
    <3> QED
      BY <1>7, <2>2, SumMore
  <2>4. QuantityIn(os, s, side) = QuantityIn(new, s, side) + os[i].order.quantity
    <3> HIDE DEF f, g
    <3> QED
      BY <1>2, <1>3, <2>1, <2>3
  <2> QED
    BY <1>8, <2>4 DEF new
<1>9. CASE ~Its
  <2>1. DOMAIN g = DOMAIN f
    BY <1>5, <1>6, <1>9
  <2>2. g = f
    BY <1>6, <2>1
  <2>3. QuantityIn(os, s, side) = QuantityIn(new, s, side) + 0
    <3> HIDE DEF f, g
    <3> QED
      BY <1>2, <1>3, <2>2
  <2> QED
    BY <1>9, <2>3 DEF new
<1> QED
  BY <1>8, <1>9

(* A new order joins the sum of its symbol and side.                       *)
LEMMA OrderJoins ==
    ASSUME NEW os \in Seq(Order), NEW o \in Requests, NEW s, NEW side
    PROVE  QuantityIn(Append(os, [order |-> o, status |-> "OPEN"]), s, side)
               = QuantityIn(os, s, side)
                   + IF s = o.symbol /\ side = o.side THEN o.quantity ELSE 0
<1> DEFINE new == Append(os, [order |-> o, status |-> "OPEN"])
           f == [j \in OpenIn(os, s, side) |-> os[j].order.quantity]
           g == [j \in OpenIn(new, s, side) |-> new[j].order.quantity]
           n == Len(os) + 1
           Its == s = o.symbol /\ side = o.side
<1>1. /\ Len(os) \in Nat /\ Len(new) = n
      /\ new[n].order = o /\ new[n].status = "OPEN"
      /\ \A j \in 1..Len(os) : new[j] = os[j]
  OBVIOUS
<1>2. /\ IsFiniteSet(DOMAIN f) /\ \A j \in DOMAIN f : j \in 1..Len(os) /\ f[j] \in Nat
      /\ QuantityIn(os, s, side) = SumFunction(f) /\ QuantityIn(os, s, side) \in Nat
  BY OpensType DEF QuantityIn
<1>3. QuantityIn(new, s, side) = SumFunction(g)
  BY DEF QuantityIn
<1> HIDE DEF new
<1>4. OpenIn(new, s, side) = OpenIn(os, s, side) \cup (IF Its THEN {n} ELSE {})
  BY <1>1 DEF OpenIn
<1>5. \A j \in DOMAIN f : j \in DOMAIN g /\ g[j] = f[j]
  BY <1>1, <1>2, <1>4
<1>6. o.quantity \in Nat
  BY TrackerAssumption
<1>7. CASE Its
  <2>1. n \notin DOMAIN f /\ DOMAIN g = DOMAIN f \cup {n} /\ g[n] = o.quantity
    BY <1>1, <1>2, <1>4, <1>7
  <2>2. g[n] \in Int
    BY <1>6, <2>1
  <2>3. \A j \in DOMAIN f : f[j] \in Int /\ g[j] = f[j]
    <3> HIDE DEF f, g
    <3> QED
      BY <1>2, <1>5
  <2>4. SumFunction(g) = SumFunction(f) + g[n]
    <3> HIDE DEF f, g, n
    <3> QED
      BY <1>2, <2>1, <2>2, <2>3, SumMore
  <2>5. QuantityIn(new, s, side) = QuantityIn(os, s, side) + o.quantity
    <3> HIDE DEF f, g, n
    <3> QED
      BY <1>2, <1>3, <2>1, <2>4
  <2> QED
    BY <1>7, <2>5 DEF new
<1>8. CASE ~Its
  <2>1. DOMAIN g = DOMAIN f
    BY <1>4, <1>8
  <2>2. g = f
    BY <1>5, <2>1
  <2>3. QuantityIn(new, s, side) = QuantityIn(os, s, side) + 0
    <3> HIDE DEF f, g
    <3> QED
      BY <1>2, <1>3, <2>2
  <2> QED
    BY <1>8, <2>3 DEF new
<1> QED
  BY <1>7, <1>8

(* What a fill at the exchange does, in one place.                         *)
LEMMA ExchangeSteps ==
    ASSUME TrackerTypeOK, NEW i \in 1..Len(orders), NEW price \in FillPrices,
           ExchangeFills(i, price)
    PROVE  \E f \in Fill :
               /\ f.symbol = orders[i].order.symbol /\ f.quantity = orders[i].order.quantity
               /\ f.side = orders[i].order.side /\ f.price = price
               /\ notices' = Append(notices, f)
               /\ net' = [net EXCEPT ![f.symbol] = Booked(net[f.symbol], Signed(f), price)]
               /\ cash' = cash - Signed(f) * price
<1> DEFINE o == orders[i].order
           f == [symbol |-> o.symbol, quantity |-> o.quantity, price |-> price, side |-> o.side]
<1>1. /\ o.symbol \in Symbols /\ o.quantity \in Nat \ {0} /\ o.side \in {"BUY", "SELL"}
      /\ price \in Nat
  BY OrderType, TrackerAssumption DEF TrackerTypeOK
<1>2. f \in Fill
  BY <1>1 DEF Fill
<1>3. Signed(f) = IF o.side = "BUY" THEN o.quantity ELSE -o.quantity
  BY DEF Signed
<1> QED
  BY <1>2, <1>3 DEF ExchangeFills

(* With an account that may not sell what it has not, the open sales are   *)
(* covered by the position, from when they are placed until they fill.     *)
LEMMA NeverShortInductive ==
    ASSUME ~AllowShort, TrackerTypeOK, NeverShort, [TrackerNext]_vars
    PROVE  NeverShort'
<1> DEFINE Sales(os, s) == QuantityIn(os, s, "SELL")
<1>0. /\ net \in [Symbols -> Snapshot] /\ \A s \in Symbols : net[s].quantity \in Int
      /\ orders \in Seq(Order)
  BY DEF TrackerTypeOK, Snapshot
<1>1. ASSUME NEW o \in Requests, OrderPlaced(o)
      PROVE  NeverShort'
  <2>1. /\ orders' = Append(orders, [order |-> o, status |-> "OPEN"]) /\ net' = net
        /\ o.side = "SELL" => o.quantity + Sales(orders, o.symbol) <= net[o.symbol].quantity
    BY <1>1, OpenQuantityIs DEF OrderPlaced
  <2>2. o.quantity \in Nat /\ \A s \in Symbols : Sales(orders, s) \in Nat
    BY <1>0, OpensType, TrackerAssumption
  <2>3. \A s : Sales(orders', s) = Sales(orders, s)
                   + IF s = o.symbol /\ "SELL" = o.side THEN o.quantity ELSE 0
    BY <1>0, <2>1, OrderJoins
  <2> QED
    BY <1>0, <2>1, <2>2, <2>3 DEF NeverShort
<1>2. ASSUME NEW i \in 1..Len(orders), NEW price \in FillPrices, ExchangeFills(i, price)
      PROVE  NeverShort'
  <2>1. PICK f \in Fill :
          /\ f.symbol = orders[i].order.symbol /\ f.quantity = orders[i].order.quantity
          /\ f.side = orders[i].order.side /\ f.price = price
          /\ net' = [net EXCEPT ![f.symbol] = Booked(net[f.symbol], Signed(f), price)]
    BY <1>2, ExchangeSteps
  <2>2. /\ f.symbol \in Symbols /\ f.quantity \in Nat \ {0} /\ Signed(f) \in Int \ {0}
        /\ price \in Int /\ f.side \in {"BUY", "SELL"}
        /\ f.side = "BUY" => Signed(f) > 0
        /\ f.side = "SELL" => Signed(f) = -f.quantity
    BY TrackerAssumption DEF Fill, Signed
  <2>3. /\ orders[i].status = "OPEN" /\ orders' = [orders EXCEPT ![i].status = "FILLED"]
    BY <1>2 DEF ExchangeFills
  <2>4. orders' \in Seq(Order)
    BY <2>3, OrderMoves
  <2>5. ASSUME NEW s \in Symbols
        PROVE  Sales(orders', s) <= net'[s].quantity
    <3>0. QuantityIn(orders, s, "SELL") = QuantityIn(orders', s, "SELL")
              + IF s = orders[i].order.symbol /\ "SELL" = orders[i].order.side
                THEN orders[i].order.quantity ELSE 0
      <4>1. orders[i].status = "OPEN" /\ orders' = Closed(orders, i, "FILLED")
        BY <2>3 DEF Closed
      <4> QED
        BY <1>0, <4>1, OrderCloses
    <3>1. Sales(orders, s) = Sales(orders', s)
              + IF s = f.symbol /\ "SELL" = f.side THEN f.quantity ELSE 0
      BY <2>1, <2>3, <3>0
    <3>2. Sales(orders, s) \in Nat /\ Sales(orders', s) \in Nat
      BY <1>0, <2>4, OpensType
    <3>3. Booked(net[f.symbol], Signed(f), price).quantity = net[f.symbol].quantity + Signed(f)
      BY <1>0, <2>2, BookedFilled
    <3>4. net'[s].quantity = net[s].quantity + IF s = f.symbol THEN Signed(f) ELSE 0
      BY <1>0, <2>1, <2>2, <3>3
    <3>5. Sales(orders, s) <= net[s].quantity
      BY DEF NeverShort
    <3> HIDE DEF Sales
    <3> QED
      BY <1>0, <2>2, <3>1, <3>2, <3>4, <3>5
  <2> QED
    BY <2>5 DEF NeverShort
<1>3. ASSUME NEW i \in 1..Len(orders), ExchangeCancels(i)
      PROVE  NeverShort'
  <2>1. /\ orders[i].status = "OPEN" /\ orders' = [orders EXCEPT ![i].status = "CANCELLED"]
        /\ net' = net
    BY <1>3 DEF ExchangeCancels
  <2>2. orders' \in Seq(Order)
    BY <2>1, OrderMoves
  <2>3. ASSUME NEW s \in Symbols
        PROVE  Sales(orders', s) <= net'[s].quantity
    <3>0. QuantityIn(orders, s, "SELL") = QuantityIn(orders', s, "SELL")
              + IF s = orders[i].order.symbol /\ "SELL" = orders[i].order.side
                THEN orders[i].order.quantity ELSE 0
      <4>1. orders[i].status = "OPEN" /\ orders' = Closed(orders, i, "CANCELLED")
        BY <2>1 DEF Closed
      <4> QED
        BY <1>0, <4>1, OrderCloses
    <3>1. Sales(orders, s) = Sales(orders', s)
              + IF s = orders[i].order.symbol /\ "SELL" = orders[i].order.side
                THEN orders[i].order.quantity ELSE 0
      BY <2>1, <3>0
    <3>2. Sales(orders, s) \in Nat /\ Sales(orders', s) \in Nat
      BY <1>0, <2>2, OpensType
    <3>3. orders[i].order.quantity \in Nat
      BY <1>0, OrderType
    <3>4. Sales(orders, s) <= net[s].quantity
      BY DEF NeverShort
    <3> HIDE DEF Sales
    <3> QED
      BY <1>0, <2>1, <3>1, <3>2, <3>3, <3>4
  <2> QED
    BY <2>3 DEF NeverShort
<1>4. ASSUME UNCHANGED <<orders, net>>
      PROVE  NeverShort'
  BY <1>4 DEF NeverShort
<1>5. UpdateFill \/ SyncReads \/ (\E m \in Margins : SyncApplies(m)) \/ SyncRaises \/ Operator
          \/ UNCHANGED vars => UNCHANGED <<orders, net>>
  BY DEF UpdateFill, SyncReads, SyncApplies, SyncRaises, SyncFrame, Operator, vars, trackerVars
<1> QED
  BY <1>1, <1>2, <1>3, <1>4, <1>5 DEF TrackerNext
-----------------------------------------------------------------------------
(* Money.  An account is what is held and what was realized; a position of *)
(* nothing has no price.  The notices lead from the tracker's account to   *)
(* the one in which the cash is spent on what the broker carries, and are  *)
(* never short on the way.                                                 *)

Plain(p) == IF p.quantity = 0 THEN Flat ELSE p

Held(h) == [s \in Symbols |-> IF s \in DOMAIN h THEN Plain(h[s]) ELSE Flat]

Accounts == [held: [Symbols -> Snapshot], realized: Int]

Changed(p, f) == Plain(IF f.side = "BUY" THEN Bought(p, f) ELSE Sold(p, f))

Gain(p, f) == IF f.side = "SELL" THEN (f.price - p.entry_price) * f.quantity ELSE 0

Filled(a, f) ==
    [held |-> [a.held EXCEPT ![f.symbol] = Changed(a.held[f.symbol], f)],
     realized |-> a.realized + Gain(a.held[f.symbol], f)]

Long(a) == \A s \in Symbols : a.held[s].quantity >= 0

LeadsLong(a, ns, b) ==
    \E w \in [0..Len(ns) -> Accounts] :
        /\ w[0] = a /\ w[Len(ns)] = b
        /\ \A i \in 1..Len(ns) : w[i] = Filled(w[i - 1], ns[i]) /\ Long(w[i])

TheTracker == [held |-> Held(tracked), realized |-> realized]

TheBroker == [held |-> Held(net), realized |-> cash + Cost(Held(net))]

CashInv ==
    ~overtaken =>
        /\ LeadsLong(TheTracker, notices, TheBroker)
        /\ syncing # None => Held(syncing.held) = Held(tracked)

(* An average that loses nothing to the division.                          *)
WholeAverage(p, n, price) == (p.entry_price * p.quantity + price * n) % (p.quantity + n) = 0

Averages ==
    \A i \in 1..Len(orders), price \in FillPrices :
        ExchangeFills(i, price) /\ orders[i].order.side = "BUY" =>
            WholeAverage(net[orders[i].order.symbol], orders[i].order.quantity, price)

WholeAverages == [][Averages]_vars

(* Plain positions are snapshots, and so is what a fill makes of one.      *)
LEMMA PlainType ==
    ASSUME NEW p \in Snapshot
    PROVE  /\ Plain(p) \in Snapshot /\ Plain(p).quantity = p.quantity
           /\ p.quantity # 0 => Plain(p) = p
           /\ p.quantity = 0 => Plain(p) = Flat
           /\ Plain(p).quantity \in Int /\ Plain(p).entry_price \in Int
           /\ Flat \in Snapshot
BY DEF Plain, Flat, Snapshot

(* Every symbol has a position, flat where nothing is held.                *)
LEMMA HeldType ==
    ASSUME NEW h, Holdings(h)
    PROVE  Held(h) \in [Symbols -> Snapshot]
<1>1. \A s \in DOMAIN h : h[s] \in Snapshot
  BY DEF Holdings
<1>2. \A s \in DOMAIN h : Plain(h[s]) \in Snapshot
  BY <1>1, PlainType
<1>3. Flat \in Snapshot
  BY DEF Flat, Snapshot
<1> QED
  BY <1>2, <1>3 DEF Held

(* A changed position is a position, and a gain a number.                  *)
LEMMA ChangedType ==
    ASSUME NEW p \in Snapshot, NEW f \in Fill
    PROVE  Changed(p, f) \in Snapshot /\ Gain(p, f) \in Int
<1>1. Changed(p, f) \in Snapshot
  BY SnapshotFilled, PlainType DEF Changed
<1>2. f.price \in Int /\ f.quantity \in Int /\ p.entry_price \in Int
  BY DEF Fill, Snapshot
<1>3. \A x, y, z \in Int : (x - y) * z \in Int
  OBVIOUS
<1>4. Gain(p, f) \in Int
  BY <1>2, <1>3 DEF Gain
<1> QED
  BY <1>1, <1>4

(* An account after a fill is an account.                                  *)
LEMMA FilledType ==
    ASSUME NEW a \in Accounts, NEW f \in Fill
    PROVE  Filled(a, f) \in Accounts
<1>1. /\ f.symbol \in Symbols /\ a.held \in [Symbols -> Snapshot] /\ a.realized \in Int
      /\ a.held[f.symbol] \in Snapshot
  BY DEF Fill, Accounts
<1>2. Changed(a.held[f.symbol], f) \in Snapshot /\ Gain(a.held[f.symbol], f) \in Int
  BY <1>1, ChangedType
<1> QED
  BY <1>1, <1>2 DEF Filled, Accounts

(* With no notice on its way the two accounts are the same.                *)
LEMMA LongNowhere ==
    ASSUME NEW a \in Accounts, NEW b
    PROVE  LeadsLong(a, <<>>, b) <=> a = b
<1>1. ASSUME a = b
      PROVE  LeadsLong(a, <<>>, b)
  <2> DEFINE w == [i \in 0..0 |-> a]
  <2>1. w \in [0..0 -> Accounts] /\ w[0] = a
    OBVIOUS
  <2> HIDE DEF w
  <2> QED
    BY <1>1, <2>1 DEF LeadsLong
<1>2. ASSUME LeadsLong(a, <<>>, b)
      PROVE  a = b
  BY <1>2 DEF LeadsLong
<1> QED
  BY <1>1, <1>2

(* The first notice taken.                                                 *)
LEMMA LongOn ==
    ASSUME NEW a \in Accounts, NEW b, NEW ns \in Seq(Fill), ns # <<>>, LeadsLong(a, ns, b)
    PROVE  LeadsLong(Filled(a, Head(ns)), Tail(ns), b) /\ Long(Filled(a, Head(ns)))
<1>1. PICK w \in [0..Len(ns) -> Accounts] :
         /\ w[0] = a /\ w[Len(ns)] = b
         /\ \A i \in 1..Len(ns) : w[i] = Filled(w[i - 1], ns[i]) /\ Long(w[i])
  BY DEF LeadsLong
<1> DEFINE n == Len(ns) - 1
           v == [i \in 0..n |-> w[i + 1]]
<1>2. /\ Len(ns) \in Nat \ {0} /\ n \in Nat /\ Len(Tail(ns)) = n /\ Head(ns) = ns[1]
      /\ \A i \in 1..n : Tail(ns)[i] = ns[i + 1]
  OBVIOUS
<1>3. v \in [0..n -> Accounts]
  BY <1>2
<1>4. v[0] = Filled(a, Head(ns)) /\ v[n] = b /\ Long(Filled(a, Head(ns)))
  BY <1>1, <1>2
<1>5. ASSUME NEW i \in 1..n
      PROVE  v[i] = Filled(v[i - 1], Tail(ns)[i]) /\ Long(v[i])
  <2>1. i + 1 \in 1..Len(ns) /\ i \in 0..n /\ i - 1 \in 0..n /\ (i - 1) + 1 = i /\ (i + 1) - 1 = i
    BY <1>2
  <2>2. w[i + 1] = Filled(w[i], ns[i + 1]) /\ Long(w[i + 1])
    BY <1>1, <2>1
  <2>3. v[i] = w[i + 1] /\ v[i - 1] = w[i]
    BY <2>1
  <2> QED
    BY <1>2, <2>2, <2>3
<1> HIDE DEF v, n
<1> QED
  BY <1>2, <1>3, <1>4, <1>5 DEF LeadsLong

(* One notice more.                                                        *)
LEMMA LongFurther ==
    ASSUME NEW a, NEW b \in Accounts, NEW ns \in Seq(Fill), NEW f \in Fill,
           LeadsLong(a, ns, b), Long(Filled(b, f))
    PROVE  LeadsLong(a, Append(ns, f), Filled(b, f))
<1>1. PICK w \in [0..Len(ns) -> Accounts] :
         /\ w[0] = a /\ w[Len(ns)] = b
         /\ \A i \in 1..Len(ns) : w[i] = Filled(w[i - 1], ns[i]) /\ Long(w[i])
  BY DEF LeadsLong
<1> DEFINE n == Len(ns)
           m == Append(ns, f)
           v == [i \in 0..n + 1 |-> IF i = n + 1 THEN Filled(b, f) ELSE w[i]]
<1>2. n \in Nat /\ Len(m) = n + 1 /\ m[n + 1] = f /\ \A i \in 1..n : m[i] = ns[i]
  OBVIOUS
<1>3. v \in [0..n + 1 -> Accounts]
  BY <1>2, FilledType
<1>4. v[0] = a /\ v[n + 1] = Filled(b, f)
  BY <1>1, <1>2
<1>5. ASSUME NEW i \in 1..n + 1
      PROVE  v[i] = Filled(v[i - 1], m[i]) /\ Long(v[i])
  <2>1. CASE i = n + 1
    <3>1. v[i - 1] = b
      BY <1>1, <1>2, <2>1
    <3> QED
      BY <1>2, <2>1, <3>1
  <2>2. CASE i # n + 1
    <3>1. i \in 1..n /\ i - 1 \in 0..n
      BY <1>2, <2>2
    <3>2. v[i] = w[i] /\ v[i - 1] = w[i - 1]
      BY <1>2, <2>2, <3>1
    <3> QED
      BY <1>1, <1>2, <3>1, <3>2
  <2> QED
    BY <2>1, <2>2
<1> HIDE DEF v, n, m
<1>6. LeadsLong(a, m, Filled(b, f))
  BY <1>2, <1>3, <1>4, <1>5 DEF LeadsLong
<1> QED
  BY <1>6 DEF m

(* A purchase by an account that is not short: the broker's book and the   *)
(* tracker agree, whether the tracker knows the symbol or not.             *)
LEMMA Buys ==
    ASSUME NEW p \in Snapshot, p.quantity >= 0, NEW f \in Fill, f.side = "BUY"
    PROVE  /\ Changed(p, f) = [quantity |-> p.quantity + f.quantity,
                               entry_price |-> (p.entry_price * p.quantity
                                                  + f.price * f.quantity)
                                                   \div (p.quantity + f.quantity)]
           /\ Plain(Booked(p, Signed(f), f.price)) = Changed(p, f)
           /\ Changed(Plain(p), f) = Changed(p, f)
           /\ Plain(Opened(f)) = Changed(Flat, f)
<1> DEFINE n == f.quantity
           Avg(e, k) == (e * k + f.price * n) \div (k + n)
           Mean(x) == [quantity |-> x.quantity + n, entry_price |-> Avg(x.entry_price, x.quantity)]
<1>0. /\ p.quantity \in Nat /\ p.entry_price \in Int /\ n \in Nat \ {0} /\ f.price \in Nat
      /\ Signed(f) = n /\ f.side # "SELL"
  BY DEF Snapshot, Fill, Signed
<1>1. \A k \in Nat : k + n > 0 /\ k + n # 0 /\ Abs(k + n) = k + n /\ Abs(k) = k /\ Abs(n) = n
  BY <1>0 DEF Abs
<1>2. ASSUME NEW x \in Snapshot, x.quantity \in Nat
      PROVE  Bought(x, f) = Mean(x) /\ Changed(x, f) = Mean(x)
  <2>1. /\ x.quantity + n # 0 /\ Abs(x.quantity + n) = x.quantity + n
        /\ Abs(x.quantity) = x.quantity
    BY <1>1, <1>2
  <2>2. Bought(x, f) = Mean(x)
    BY <2>1 DEF Bought
  <2>3. Changed(x, f) = Plain(Bought(x, f))
    BY DEF Changed
  <2>4. Plain(Mean(x)) = Mean(x)
    BY <2>1 DEF Plain
  <2> QED
    BY <2>2, <2>3, <2>4
<1>3. Changed(p, f) = Mean(p)
  BY <1>0, <1>2
<1>4. Booked(p, n, f.price) = Mean(p)
  <2>1. \A j, k \in Nat : j * k >= 0
    OBVIOUS
  <2>2. p.quantity * n >= 0 /\ ~(p.quantity * n < 0)
    <3> HIDE DEF n
    <3>1. p.quantity * n \in Int
      BY <1>0
    <3> QED
      BY <1>0, <2>1, <3>1
  <2>3. /\ p.quantity + n # 0 /\ Abs(p.quantity + n) = p.quantity + n
        /\ Abs(p.quantity) = p.quantity /\ Abs(n) = n
    BY <1>0, <1>1
  <2> QED
    BY <2>2, <2>3 DEF Booked
<1>5. Plain(Mean(p)) = Mean(p)
  BY <1>0, <1>1 DEF Plain
<1>6. Flat \in Snapshot /\ Flat.quantity = 0 /\ Flat.entry_price = 0
  BY DEF Flat, Snapshot
<1>7. \A e \in Int : Avg(e, 0) = f.price
  <2>1. \A a \in Nat, b \in Nat \ {0} : (a * b) \div b = a
    OBVIOUS
  <2>2. \A e, a, b \in Int : e * 0 + a * b = a * b /\ 0 + b = b
    OBVIOUS
  <2>3. f.price \in Int /\ n \in Int
    BY <1>0
  <2> HIDE DEF n
  <2> QED
    BY <1>0, <2>1, <2>2, <2>3
<1>8. Changed(Flat, f) = [quantity |-> n, entry_price |-> f.price]
  <2>1. Changed(Flat, f) = Mean(Flat)
    BY <1>2, <1>6
  <2> HIDE DEF Avg, n
  <2> QED
    BY <1>0, <1>6, <1>7, <2>1
<1>9. Plain(Opened(f)) = [quantity |-> n, entry_price |-> f.price]
  BY <1>0 DEF Plain, Opened
<1>10. Changed(Plain(p), f) = Changed(p, f)
  <2>1. CASE p.quantity # 0
    BY <2>1 DEF Plain
  <2>2. CASE p.quantity = 0
    <3>1. Plain(p) = Flat
      BY <2>2 DEF Plain
    <3>2. Mean(p) = [quantity |-> n, entry_price |-> f.price]
      <4> HIDE DEF Avg, n
      <4> QED
        BY <1>0, <1>7, <2>2
    <3> QED
      BY <1>3, <1>8, <3>1, <3>2
  <2> QED
    BY <2>1, <2>2
<1> QED
  BY <1>0, <1>3, <1>4, <1>5, <1>8, <1>9, <1>10

(* So do they on a sale of what is there.                                  *)
LEMMA Sells ==
    ASSUME NEW p \in Snapshot, NEW f \in Fill, f.side = "SELL", p.quantity >= f.quantity
    PROVE  /\ Changed(p, f) = IF p.quantity = f.quantity THEN Flat
                              ELSE [p EXCEPT !.quantity = p.quantity - f.quantity]
           /\ Plain(Booked(p, Signed(f), f.price)) = Changed(p, f)
           /\ Plain(p) = p
<1> DEFINE n == f.quantity
<1>0. /\ p.quantity \in Nat \ {0} /\ p.entry_price \in Int /\ n \in Nat \ {0}
      /\ Signed(f) = -n /\ f.side # "BUY" /\ p = [p EXCEPT !.quantity = p.quantity]
  BY DEF Snapshot, Fill, Signed
<1>1. Plain(p) = p
  BY <1>0 DEF Plain
<1>2. Sold(p, f) = [p EXCEPT !.quantity = p.quantity - n]
  BY DEF Sold
<1>3. Sold(p, f).quantity = p.quantity - n
  BY <1>2 DEF Snapshot
<1>4. Changed(p, f) = Plain(Sold(p, f))
  BY <1>0 DEF Changed
<1>5. CASE p.quantity = n
  <2>1. Sold(p, f).quantity = 0
    BY <1>0, <1>3, <1>5
  <2>2. Changed(p, f) = Flat
    BY <1>4, <2>1 DEF Plain
  <2>3. Booked(p, -n, f.price) = Flat
    <3>1. p.quantity + (-n) = 0
      BY <1>0, <1>5
    <3>2. \A k \in Nat \ {0} : ~(k * (-k) >= 0)
      OBVIOUS
    <3>3. ~(p.quantity * (-n) >= 0) /\ ~(p.quantity * (p.quantity + (-n)) > 0)
      BY <1>0, <1>5, <3>1, <3>2
    <3> QED
      BY <3>1, <3>3 DEF Booked
  <2>4. Plain(Flat) = Flat
    BY DEF Plain, Flat
  <2> QED
    BY <1>0, <1>1, <1>5, <2>2, <2>3, <2>4
<1>6. CASE p.quantity # n
  <2>1. Sold(p, f).quantity # 0
    BY <1>0, <1>3, <1>6
  <2>2. Changed(p, f) = Sold(p, f)
    BY <1>4, <2>1 DEF Plain
  <2>3. Booked(p, -n, f.price) = [p EXCEPT !.quantity = p.quantity + (-n)]
    <3>1. p.quantity + (-n) \in Nat \ {0}
      BY <1>0, <1>6
    <3>2. \A j, k \in Nat \ {0} : j * (-k) < 0 /\ j * k > 0 /\ ~(j * (-k) >= 0)
      <4>1. \A j, k \in Nat \ {0} : j * k > 0
        OBVIOUS
      <4>2. \A j, k \in Int : j * (-k) = -(j * k)
        OBVIOUS
      <4> QED
        BY <4>1, <4>2
    <3>3. /\ p.quantity * (-n) < 0 /\ ~(p.quantity * (-n) >= 0)
          /\ p.quantity * (p.quantity + (-n)) > 0 /\ p.quantity + (-n) # 0
      <4> HIDE DEF n
      <4> QED
        BY <1>0, <3>1, <3>2
    <3> QED
      BY <3>3 DEF Booked
  <2>4. p.quantity + (-n) = p.quantity - n
    BY <1>0
  <2>5. Plain(Sold(p, f)) = Sold(p, f)
    BY <2>1 DEF Plain
  <2> QED
    BY <1>0, <1>1, <1>2, <1>6, <2>2, <2>3, <2>4, <2>5
<1> QED
  BY <1>5, <1>6

Value(p) == p.entry_price * p.quantity

(* What a position is carried at moves by the cash spent and the gain.     *)
LEMMA ValueMoves ==
    ASSUME NEW p \in Snapshot, NEW f \in Fill, p.quantity >= 0,
           f.side = "SELL" => p.quantity >= f.quantity,
           f.side = "BUY" => WholeAverage(p, f.quantity, f.price)
    PROVE  /\ Value(p) \in Int /\ Value(Changed(p, f)) \in Int
           /\ Value(Changed(p, f)) = Value(p) + Signed(f) * f.price + Gain(p, f)
           /\ Changed(p, f).quantity >= 0
<1> DEFINE n == f.quantity
           e == p.entry_price
           k == p.quantity
           c == f.price
<1>0. /\ k \in Nat /\ e \in Int /\ n \in Nat \ {0} /\ c \in Nat /\ f.side \in {"BUY", "SELL"}
      /\ k \in Int /\ n \in Int /\ c \in Int
  BY DEF Snapshot, Fill
<1>1. CASE f.side = "BUY"
  <2> DEFINE q == k + n
             x == e * k + c * n
  <2>1. Changed(p, f) = [quantity |-> q, entry_price |-> x \div q]
    BY <1>1, Buys
  <2>2. x % q = 0
    BY <1>1 DEF WholeAverage
  <2>3. x \in Int /\ q \in Nat \ {0}
    BY <1>0
  <2>4. (x \div q) * q = x
    <3>1. \A i \in Int, j \in Nat \ {0} : i % j = 0 => (i \div j) * j = i
      OBVIOUS
    <3> HIDE DEF x, q
    <3> QED
      BY <2>2, <2>3, <3>1
  <2>5. Value(Changed(p, f)) = x /\ Changed(p, f).quantity >= 0
    <3> HIDE DEF x, q
    <3> QED
      BY <2>1, <2>3, <2>4 DEF Value
  <2>6. Gain(p, f) = 0 /\ Signed(f) = n
    BY <1>1 DEF Gain, Signed
  <2>7. e * k \in Int /\ c * n = n * c /\ n * c \in Int
    BY <1>0
  <2> HIDE DEF n, e, k, c
  <2> QED
    BY <2>5, <2>6, <2>7 DEF Value, e, k, c
<1>2. CASE f.side = "SELL"
  <2>1. Changed(p, f) = IF k = n THEN Flat ELSE [p EXCEPT !.quantity = k - n]
    BY <1>2, Sells
  <2>2. k >= n
    BY <1>2
  <2>3. Value(Changed(p, f)) = e * (k - n) /\ Changed(p, f).quantity >= 0
    <3>1. CASE k = n
      <4>1. Value(Changed(p, f)) = 0 /\ Changed(p, f).quantity = 0
        BY <2>1, <3>1 DEF Value, Flat
      <4>2. e * (k - n) = 0
        BY <1>0, <3>1
      <4> QED
        BY <4>1, <4>2
    <3>2. CASE k # n
      <4>1. Changed(p, f).quantity = k - n /\ Changed(p, f).entry_price = e
        BY <2>1, <3>2 DEF Snapshot
      <4> QED
        BY <1>0, <2>2, <4>1 DEF Value
    <3> QED
      BY <3>1, <3>2
  <2>4. Gain(p, f) = (c - e) * n /\ Signed(f) = -n
    BY <1>2 DEF Gain, Signed
  <2>5. Value(p) = e * k
    BY DEF Value
  <2>6. e * (k - n) = e * k + (-n) * c + (c - e) * n
    <3>1. \A w, x, y, z \in Int : w * (x - y) = w * x + (-y) * z + (z - w) * y
      OBVIOUS
    <3> HIDE DEF n, e, k, c
    <3> QED
      BY <1>0, <3>1
  <2>7. e * k \in Int /\ e * (k - n) \in Int
    BY <1>0
  <2> HIDE DEF n, e, k
  <2> QED
    BY <2>3, <2>4, <2>5, <2>6, <2>7
<1> QED
  BY <1>0, <1>1, <1>2

(* One position is replaced.                                               *)
LEMMA CostMoves ==
    ASSUME NEW h \in [Symbols -> Snapshot], NEW s \in Symbols, NEW p \in Snapshot
    PROVE  /\ Cost(h) \in Int
           /\ Cost([h EXCEPT ![s] = p]) = Cost(h) + Value(p) - Value(h[s])
<1> DEFINE new == [h EXCEPT ![s] = p]
           f == [x \in DOMAIN h |-> h[x].entry_price * h[x].quantity]
           g == [x \in DOMAIN new |-> new[x].entry_price * new[x].quantity]
<1>1. \A x \in Snapshot : Value(x) \in Int
  BY DEF Value, Snapshot
<1>2. /\ DOMAIN f = Symbols /\ \A x \in Symbols : f[x] = Value(h[x]) /\ f[x] \in Int
      /\ DOMAIN g = Symbols /\ \A x \in Symbols : g[x] = Value(new[x])
  BY <1>1 DEF Value
<1>3. g[s] = Value(p) /\ g[s] \in Int /\ \A x \in Symbols \ {s} : g[x] = f[x]
  <2>1. new[s] = p /\ \A x \in Symbols \ {s} : new[x] = h[x]
    OBVIOUS
  <2> HIDE DEF f, g, new
  <2> QED
    BY <1>1, <1>2, <2>1
<1>4. Cost(h) = SumFunction(f) /\ Cost(new) = SumFunction(g)
  BY DEF Cost
<1>5. f[s] = Value(h[s])
  BY <1>2
<1>6. IsFiniteSet(Symbols)
  BY TrackerAssumption
<1> HIDE DEF f, g
<1>7. SumFunction(f) \in Int /\ SumFunction(g) = SumFunction(f) + g[s] - f[s]
  BY <1>2, <1>3, <1>6, SumOther
<1>8. Cost(h) \in Int /\ Cost(new) = Cost(h) + Value(p) - Value(h[s])
  <2> HIDE DEF new
  <2> QED
    BY <1>3, <1>4, <1>5, <1>7
<1> QED
  BY <1>8

(* Symbols that are not held cost nothing.                                 *)
LEMMA CostOfHeld ==
    ASSUME NEW h, Holdings(h)
    PROVE  Cost(Held(h)) = Cost(h)
<1> DEFINE f == [x \in DOMAIN h |-> h[x].entry_price * h[x].quantity]
           g == [x \in DOMAIN Held(h) |-> Held(h)[x].entry_price * Held(h)[x].quantity]
<1>1. DOMAIN Held(h) = Symbols /\ DOMAIN h \subseteq Symbols /\ IsFiniteSet(Symbols)
  BY TrackerAssumption DEF Held, Holdings
<1>2. \A x \in Symbols : Held(h)[x] = IF x \in DOMAIN h THEN Plain(h[x]) ELSE Flat
  BY DEF Held
<1>3. ASSUME NEW x \in Snapshot
      PROVE  /\ Plain(x).entry_price * Plain(x).quantity = x.entry_price * x.quantity
             /\ x.entry_price * x.quantity \in Int
  <2>1. x.entry_price \in Int /\ x.quantity \in Int
    BY DEF Snapshot
  <2>2. CASE x.quantity = 0
    <3>1. x.entry_price * x.quantity = 0
      BY <2>1, <2>2
    <3>2. Plain(x).entry_price = 0 /\ Plain(x).quantity = 0
      BY <2>2 DEF Plain, Flat
    <3> QED
      BY <3>1, <3>2
  <2>3. CASE x.quantity # 0
    BY <2>1, <2>3 DEF Plain
  <2> QED
    BY <2>2, <2>3
<1>4. \A x \in DOMAIN h : h[x] \in Snapshot
  BY DEF Holdings
<1>5. Flat.entry_price * Flat.quantity = 0
  BY DEF Flat
<1>6. ASSUME NEW x \in Symbols
      PROVE  g[x] \in Int /\ g[x] = IF x \in DOMAIN h THEN f[x] ELSE 0
  BY <1>1, <1>2, <1>3, <1>4, <1>5
<1>7. DOMAIN f = DOMAIN h /\ DOMAIN g = Symbols
  BY <1>1
<1>8. Cost(h) = SumFunction(f) /\ Cost(Held(h)) = SumFunction(g)
  BY DEF Cost
<1> HIDE DEF f, g
<1>9. SumFunction(g) = SumFunction(f)
  BY <1>1, <1>6, <1>7, SumPadded
<1> QED
  BY <1>8, <1>9

(* update_fill changes the tracker's account as the notice it takes.  A    *)
(* sale of a symbol it does not know or has nothing of would leave it      *)
(* short.                                                                  *)
LEMMA TrackerMoves ==
    ASSUME TrackerTypeOK, UpdateFill, Long(Filled(TheTracker, Head(notices)))
    PROVE  TheTracker' = Filled(TheTracker, Head(notices))
<1> DEFINE f == Head(notices)
           s == f.symbol
           p == IF s \notin DOMAIN tracked THEN Opened(f)
                ELSE IF f.side = "BUY" THEN Bought(tracked[s], f) ELSE Sold(tracked[s], f)
           H == Held(tracked)
<1>1. f \in Fill /\ s \in Symbols /\ f.side \in {"BUY", "SELL"} /\ f.quantity \in Nat \ {0}
  <2>1. f \in Fill
    BY DEF UpdateFill, TrackerTypeOK
  <2> QED
    BY <2>1 DEF Fill
<1>2. DOMAIN tracked \subseteq Symbols /\ tracked \in [DOMAIN tracked -> Snapshot]
  BY DEF TrackerTypeOK, Holdings
<1>3. H \in [Symbols -> Snapshot] /\ realized \in Int
  BY HeldType DEF TrackerTypeOK
<1>4. Changed(H[s], f).quantity >= 0
  <2>1. Filled(TheTracker, f).held[s] = Changed(H[s], f)
    BY <1>1, <1>3 DEF Filled, TheTracker
  <2> QED
    BY <1>1, <2>1 DEF Long
<1>5. ASSUME H[s] = Flat
      PROVE  f.side = "BUY"
  <2> SUFFICES ASSUME f.side # "BUY" PROVE FALSE
    OBVIOUS
  <2>1. Sold(Flat, f).quantity = -f.quantity
    BY <1>1 DEF Sold, Flat
  <2>2. Changed(Flat, f) = Sold(Flat, f)
    BY <1>1, <2>1 DEF Changed, Plain
  <2> QED
    BY <1>1, <1>4, <1>5, <2>1, <2>2
<1>6. Flat \in Snapshot /\ Flat.quantity = 0
  BY DEF Flat, Snapshot
<1>7. realized' = IF s \in DOMAIN tracked /\ f.side = "SELL"
                  THEN realized + (f.price - tracked[s].entry_price) * f.quantity
                  ELSE realized
  BY DEF UpdateFill
<1>8. Plain(p) = Changed(H[s], f) /\ realized' = realized + Gain(H[s], f)
  <2>1. CASE s \notin DOMAIN tracked
    <3>1. H[s] = Flat
      BY <1>1, <2>1 DEF Held
    <3>2. f.side = "BUY"
      BY <1>5, <3>1
    <3>3. Plain(Opened(f)) = Changed(Flat, f)
      BY <1>1, <1>6, <3>2, Buys
    <3>4. Gain(Flat, f) = 0
      BY <3>2 DEF Gain
    <3> QED
      BY <1>3, <1>7, <2>1, <3>1, <3>3, <3>4
  <2>2. CASE s \in DOMAIN tracked
    <3> DEFINE t == tracked[s]
    <3>1. t \in Snapshot /\ H[s] = Plain(t)
      BY <1>1, <1>2, <2>2 DEF Held
    <3>2. Plain(p) = Changed(t, f)
      BY <2>2 DEF Changed
    <3>3. CASE t.quantity = 0
      <4>1. H[s] = Flat
        BY <3>1, <3>3 DEF Plain
      <4>2. f.side = "BUY"
        BY <1>5, <4>1
      <4>3. Changed(Plain(t), f) = Changed(t, f)
        BY <1>1, <3>1, <3>3, <4>2, Buys
      <4>4. Gain(H[s], f) = 0 /\ realized' = realized
        BY <1>7, <4>2 DEF Gain
      <4> QED
        BY <1>3, <3>1, <3>2, <4>3, <4>4
    <3>4. CASE t.quantity # 0
      <4>1. H[s] = t
        BY <3>1, <3>4 DEF Plain
      <4>2. realized' = realized + Gain(t, f)
        BY <1>3, <1>7, <2>2 DEF Gain
      <4> QED
        BY <3>2, <4>1, <4>2
    <3> QED
      BY <3>3, <3>4
  <2> QED
    BY <2>1, <2>2
<1>9. tracked' = [x \in DOMAIN tracked \cup {s} |-> IF x = s THEN p ELSE tracked[x]]
  BY DEF UpdateFill
<1>10. Held(tracked') = [H EXCEPT ![s] = Plain(p)]
  <2> HIDE DEF p, s
  <2>1. Held(tracked') = [x \in Symbols |-> IF x = s THEN Plain(p) ELSE H[x]]
    BY <1>9 DEF Held
  <2> HIDE DEF H
  <2> QED
    BY <1>3, <2>1
<1>11. Filled(TheTracker, f) = [held |-> [H EXCEPT ![s] = Changed(H[s], f)],
                                realized |-> realized + Gain(H[s], f)]
  BY DEF Filled, TheTracker
<1>12. TheTracker' = [held |-> Held(tracked'), realized |-> realized']
  BY DEF TheTracker
<1> HIDE DEF p, s, f, H
<1> QED
  BY <1>8, <1>10, <1>11, <1>12 DEF f

(* A fill changes the broker's account as the notice says that is sent,    *)
(* and leaves nothing short: an open sale is covered.                      *)
LEMMA BrokerMoves ==
    ASSUME ~AllowShort, TrackerTypeOK, NeverShort, Averages,
           NEW i \in 1..Len(orders), NEW price \in FillPrices, ExchangeFills(i, price)
    PROVE  \E f \in Fill : /\ notices' = Append(notices, f)
                           /\ TheBroker' = Filled(TheBroker, f)
                           /\ Long(Filled(TheBroker, f))
<1>1. PICK f \in Fill :
        /\ f.symbol = orders[i].order.symbol /\ f.quantity = orders[i].order.quantity
        /\ f.side = orders[i].order.side /\ f.price = price
        /\ notices' = Append(notices, f)
        /\ net' = [net EXCEPT ![f.symbol] = Booked(net[f.symbol], Signed(f), price)]
        /\ cash' = cash - Signed(f) * price
  BY ExchangeSteps
<1> DEFINE s == f.symbol
           p == net[s]
           c == Changed(p, f)
           b == Booked(p, Signed(f), f.price)
           H == Held(net)
<1>2. /\ s \in Symbols /\ f.quantity \in Nat \ {0} /\ f.side \in {"BUY", "SELL"}
      /\ f.price \in Int /\ Signed(f) \in Int /\ cash \in Int /\ orders \in Seq(Order)
      /\ net \in [Symbols -> Snapshot] /\ p \in Snapshot
  BY DEF Fill, Signed, TrackerTypeOK
<1>3. \A x \in Symbols : net[x].quantity \in Int /\ net[x].quantity >= 0
  <2> TAKE x \in Symbols
  <2>1. QuantityIn(orders, x, "SELL") \in Nat
    BY <1>2, OpensType
  <2>2. QuantityIn(orders, x, "SELL") <= net[x].quantity
    BY DEF NeverShort
  <2>3. net[x].quantity \in Int
    BY <1>2 DEF Snapshot
  <2> QED
    BY <2>1, <2>2, <2>3
<1>4. ASSUME f.side = "SELL"
      PROVE  p.quantity >= f.quantity
  <2>1. orders[i].status = "OPEN"
    BY DEF ExchangeFills
  <2>2. QuantityIn(orders, s, "SELL") =
            QuantityIn(Closed(orders, i, "FILLED"), s, "SELL") + f.quantity
    <3>1. QuantityIn(orders, s, "SELL") = QuantityIn(Closed(orders, i, "FILLED"), s, "SELL")
              + IF s = orders[i].order.symbol /\ "SELL" = orders[i].order.side
                THEN orders[i].order.quantity ELSE 0
      BY <1>2, <2>1, OrderCloses
    <3> QED
      BY <1>1, <1>4, <3>1
  <2>3. Closed(orders, i, "FILLED") \in Seq(Order)
    <3>1. orders' = Closed(orders, i, "FILLED")
      BY DEF ExchangeFills, Closed
    <3>2. orders' \in Seq(Order)
      BY OrderMoves DEF ExchangeFills
    <3> QED
      BY <3>1, <3>2
  <2>4. QuantityIn(Closed(orders, i, "FILLED"), s, "SELL") \in Nat
    BY <2>3, OpensType
  <2>5. QuantityIn(orders, s, "SELL") <= p.quantity
    BY <1>2 DEF NeverShort
  <2>6. p.quantity \in Int
    BY <1>2, <1>3
  <2> HIDE DEF s, p
  <2> QED
    BY <1>2, <2>2, <2>4, <2>5, <2>6
<1>5. f.side = "BUY" => WholeAverage(p, f.quantity, f.price)
  BY <1>1 DEF Averages
<1>6. p.quantity >= 0
  BY <1>2, <1>3
<1>7. /\ Value(p) \in Int /\ Value(c) \in Int /\ c.quantity >= 0
      /\ Value(c) = Value(p) + Signed(f) * f.price + Gain(p, f)
  <2> HIDE DEF p
  <2> QED
    BY <1>2, <1>4, <1>5, <1>6, ValueMoves
<1>8. Plain(b) = c /\ Changed(Plain(p), f) = c /\ Gain(Plain(p), f) = Gain(p, f)
  <2>1. CASE f.side = "BUY"
    <3>1. Gain(Plain(p), f) = 0 /\ Gain(p, f) = 0
      BY <2>1 DEF Gain
    <3> HIDE DEF p
    <3> QED
      BY <1>2, <1>6, <2>1, <3>1, Buys
  <2>2. CASE f.side = "SELL"
    <3> HIDE DEF p
    <3> QED
      BY <1>2, <1>4, <2>2, Sells
  <2> QED
    BY <1>2, <2>1, <2>2
<1>9. c \in Snapshot /\ Gain(p, f) \in Int
  <2> HIDE DEF p
  <2> QED
    BY <1>2, ChangedType
<1>10. H \in [Symbols -> Snapshot] /\ \A x \in Symbols : H[x] = Plain(net[x])
  <2>1. Holdings(net)
    BY <1>2 DEF Holdings
  <2>2. DOMAIN net = Symbols
    BY <1>2
  <2> QED
    BY <2>1, <2>2, HeldType DEF Held
<1>11. Held(net') = [H EXCEPT ![s] = c]
  <2>1. DOMAIN net' = Symbols
    BY <1>1, <1>2
  <2>2. \A x \in Symbols : net'[x] = IF x = s THEN b ELSE net[x]
    BY <1>1, <1>2
  <2>3. Held(net') = [x \in Symbols |-> IF x = s THEN Plain(b) ELSE H[x]]
    <3> HIDE DEF b, H, s
    <3> QED
      BY <1>10, <2>1, <2>2 DEF Held
  <2> HIDE DEF b, H, s, c
  <2> QED
    BY <1>2, <1>8, <1>10, <2>3
<1>12. Cost(H) \in Int /\ Cost([H EXCEPT ![s] = c]) = Cost(H) + Value(c) - Value(H[s])
  <2> HIDE DEF H, c, s
  <2> QED
    BY <1>2, <1>9, <1>10, CostMoves
<1>13. H[s] = Plain(p) /\ Value(H[s]) = Value(p)
  <2>1. H[s] = Plain(p)
    BY <1>2, <1>10
  <2>2. Value(Plain(p)) = Value(p)
    <3>1. p.quantity \in Int /\ p.entry_price \in Int
      BY <1>2 DEF Snapshot
    <3>2. CASE p.quantity = 0
      <4>1. Value(Plain(p)) = 0
        BY <3>2 DEF Plain, Flat, Value
      <4>2. Value(p) = 0
        BY <3>1, <3>2 DEF Value
      <4> QED
        BY <4>1, <4>2
    <3>3. CASE p.quantity # 0
      BY <3>3 DEF Plain
    <3> QED
      BY <3>2, <3>3
  <2> QED
    BY <2>1, <2>2
<1>14. Filled(TheBroker, f) = [held |-> [H EXCEPT ![s] = c],
                               realized |-> cash + Cost(H) + Gain(p, f)]
  <2>1. Filled(TheBroker, f) = [held |-> [H EXCEPT ![s] = Changed(H[s], f)],
                                realized |-> (cash + Cost(H)) + Gain(H[s], f)]
    BY DEF Filled, TheBroker
  <2>2. Changed(H[s], f) = c /\ Gain(H[s], f) = Gain(p, f)
    BY <1>8, <1>13
  <2> HIDE DEF H, s, p, c
  <2> QED
    BY <2>1, <2>2
<1>15. cash' + Cost(Held(net')) = cash + Cost(H) + Gain(p, f)
  <2>1. Signed(f) * f.price \in Int
    BY <1>2
  <2>2. cash' = cash - Signed(f) * f.price
    BY <1>1
  <2> DEFINE m == Signed(f) * f.price
  <2> HIDE DEF H, s, p, c, m
  <2>3. m \in Int /\ cash' = cash - m /\ Value(c) = Value(p) + m + Gain(p, f)
    BY <1>7, <2>1, <2>2 DEF m
  <2> QED
    BY SMTT(20), <1>2, <1>7, <1>9, <1>11, <1>12, <1>13, <2>3
<1>16. TheBroker' = [held |-> Held(net'), realized |-> cash' + Cost(Held(net'))]
  BY DEF TheBroker
<1>17. TheBroker' = Filled(TheBroker, f)
  <2> HIDE DEF H, s, p, c
  <2> QED
    BY <1>11, <1>14, <1>15, <1>16
<1>18. Long(Filled(TheBroker, f))
  <2>1. \A x \in Symbols : H[x].quantity >= 0
    <3>1. \A x \in Symbols : net[x] \in Snapshot
      BY <1>2
    <3>2. \A x \in Symbols : Plain(net[x]).quantity = net[x].quantity
      BY <3>1, PlainType
    <3> QED
      BY <1>3, <1>10, <3>2
  <2>2. \A x \in Symbols : [H EXCEPT ![s] = c][x].quantity >= 0
    <3> HIDE DEF H, s, c
    <3> QED
      BY <1>2, <1>7, <1>10, <2>1
  <2> HIDE DEF H, s, c, p
  <2> QED
    BY <1>14, <2>2 DEF Long
<1> QED
  BY <1>1, <1>17, <1>18

(* Both accounts are accounts.                                             *)
LEMMA AccountsType ==
    ASSUME TrackerTypeOK
    PROVE  TheTracker \in Accounts /\ TheBroker \in Accounts
<1>1. Holdings(tracked) /\ Holdings(net) /\ realized \in Int /\ cash \in Int
  BY DEF TrackerTypeOK, Holdings
<1>2. Held(tracked) \in [Symbols -> Snapshot] /\ Held(net) \in [Symbols -> Snapshot]
  BY <1>1, HeldType
<1>3. Cost(Held(net)) \in Int
  <2>1. \A s \in Symbols : Cost(Held(net)) \in Int
    BY <1>2, CostMoves, PlainType
  <2>2. CASE Symbols = {}
    <3> DEFINE f == [x \in DOMAIN Held(net) |-> Held(net)[x].entry_price * Held(net)[x].quantity]
    <3>1. DOMAIN f = {}
      BY <1>2, <2>2
    <3>2. Cost(Held(net)) = SumFunction(f)
      BY DEF Cost
    <3> HIDE DEF f
    <3> QED
      BY <3>1, <3>2, SumEmpty DEF SumFunction
  <2> QED
    BY <2>1, <2>2
<1> QED
  BY <1>1, <1>2, <1>3 DEF Accounts, TheTracker, TheBroker

(* The accounts stay joined by the notices, whatever is placed, filled,    *)
(* told, cancelled and synchronized.                                       *)
LEMMA CashInductive ==
    ASSUME ~AllowShort, TrackerTypeOK, NeverShort, CashInv, [TrackerNext]_vars, [Averages]_vars
    PROVE  CashInv'
<1>0. /\ notices \in Seq(Fill) /\ TheTracker \in Accounts /\ TheBroker \in Accounts
      /\ net \in [Symbols -> Snapshot] /\ overtaken \in BOOLEAN
  BY AccountsType DEF TrackerTypeOK
<1>1. CASE UpdateFill
  <2> SUFFICES ASSUME ~overtaken'
               PROVE  LeadsLong(TheTracker', notices', TheBroker') /\ syncing' = None
    BY DEF CashInv
  <2>1. /\ ~overtaken /\ syncing = None /\ syncing' = None /\ net' = net /\ cash' = cash
        /\ notices # <<>> /\ notices' = Tail(notices)
    BY <1>1 DEF UpdateFill
  <2>2. LeadsLong(TheTracker, notices, TheBroker)
    BY <2>1 DEF CashInv
  <2>3. TheBroker' = TheBroker
    BY <2>1 DEF TheBroker
  <2>4. /\ LeadsLong(Filled(TheTracker, Head(notices)), Tail(notices), TheBroker)
        /\ Long(Filled(TheTracker, Head(notices)))
    BY <1>0, <2>1, <2>2, LongOn
  <2> QED
    BY <1>1, <2>1, <2>3, <2>4, TrackerMoves
<1>2. CASE SyncReads
  <2> DEFINE held == {s \in Symbols : net[s].quantity # 0}
             h == [s \in held |-> net[s]]
  <2> SUFFICES ASSUME ~overtaken'
               PROVE  /\ LeadsLong(TheTracker', notices', TheBroker')
                      /\ Held(syncing'.held) = Held(tracked')
    BY DEF CashInv
  <2>1. /\ ~overtaken /\ notices = <<>> /\ syncing'.held = h
        /\ UNCHANGED <<tracked, realized, net, cash, notices>>
    <3>1. PICK pnl \in (IF held = {} THEN {0} ELSE Pnls) : syncing' = [held |-> h, pnl |-> pnl]
      BY <1>2 DEF SyncReads
    <3>2. syncing'.held = h
      BY <3>1
    <3>3. ~overtaken /\ notices = <<>> /\ UNCHANGED <<tracked, realized, net, cash, notices>>
      BY <1>2 DEF SyncReads, SyncFrame
    <3> QED
      BY <3>2, <3>3
  <2>2. LeadsLong(TheTracker, notices, TheBroker)
    BY <2>1 DEF CashInv
  <2>3. TheTracker = TheBroker
    BY <1>0, <2>1, <2>2, LongNowhere
  <2>4. Held(tracked) = Held(net)
    BY <2>3 DEF TheTracker, TheBroker
  <2>5. Held(h) = Held(net)
    <3>1. DOMAIN h = held /\ DOMAIN net = Symbols
      BY <1>0
    <3>2. \A s \in Symbols : s \notin held => Plain(net[s]) = Flat
      BY DEF Plain
    <3> QED
      BY <3>1, <3>2 DEF Held
  <2>6. TheTracker' = TheTracker /\ TheBroker' = TheBroker
    BY <2>1 DEF TheTracker, TheBroker
  <2> HIDE DEF h
  <2> QED
    BY <2>1, <2>2, <2>4, <2>5, <2>6
<1>3. ASSUME NEW m \in Margins, SyncApplies(m)
      PROVE  CashInv'
  <2>1. /\ tracked' = syncing.held /\ syncing # None /\ syncing' = None
        /\ UNCHANGED <<overtaken, net, notices, cash, realized>>
    BY <1>3 DEF SyncApplies, SyncFrame
  <2>2. ~overtaken => TheTracker' = TheTracker
    BY <2>1 DEF CashInv, TheTracker
  <2>3. TheBroker' = TheBroker
    BY <2>1 DEF TheBroker
  <2> QED
    BY <2>1, <2>2, <2>3 DEF CashInv
<1>4. ASSUME UNCHANGED <<tracked, realized, net, cash, notices, overtaken>>,
             syncing' \in {None, syncing}
      PROVE  CashInv'
  <2>1. TheTracker' = TheTracker /\ TheBroker' = TheBroker
    BY <1>4 DEF TheTracker, TheBroker
  <2> QED
    BY <1>4, <2>1 DEF CashInv
<1>5. SyncRaises \/ (\E o \in Requests : OrderPlaced(o)) \/ Operator \/ UNCHANGED vars
          \/ (\E i \in 1..Len(orders) : ExchangeCancels(i)) =>
        /\ UNCHANGED <<tracked, realized, net, cash, notices, overtaken>>
        /\ syncing' \in {None, syncing}
  BY DEF SyncRaises, SyncFrame, OrderPlaced, Operator, ExchangeCancels, vars, trackerVars
<1>6. ASSUME NEW i \in 1..Len(orders), NEW price \in FillPrices, ExchangeFills(i, price)
      PROVE  CashInv'
  <2>1. UNCHANGED <<tracked, realized, syncing, overtaken>>
    BY <1>6 DEF ExchangeFills
  <2>2. Averages
    <3>1. orders' # orders
      <4>1. orders[i] \in Order /\ orders[i].status = "OPEN"
            /\ orders' = [orders EXCEPT ![i].status = "FILLED"] /\ orders \in Seq(Order)
        BY <1>6 DEF ExchangeFills, TrackerTypeOK
      <4>2. orders'[i].status = "FILLED"
        BY <4>1 DEF Order
      <4> QED
        BY <4>1, <4>2
    <3> QED
      BY <3>1 DEF vars, trackerVars
  <2>3. PICK f \in Fill : /\ notices' = Append(notices, f)
                          /\ TheBroker' = Filled(TheBroker, f)
                          /\ Long(Filled(TheBroker, f))
    BY <1>6, <2>2, BrokerMoves
  <2>4. TheTracker' = TheTracker
    BY <2>1 DEF TheTracker
  <2>5. ASSUME ~overtaken
        PROVE  LeadsLong(TheTracker', notices', TheBroker')
    <3>1. LeadsLong(TheTracker, notices, TheBroker)
      BY <2>5 DEF CashInv
    <3>2. LeadsLong(TheTracker, Append(notices, f), Filled(TheBroker, f))
      BY <1>0, <2>3, <3>1, LongFurther
    <3> QED
      BY <2>3, <2>4, <3>2
  <2> QED
    BY <2>1, <2>5 DEF CashInv
<1> QED
  BY <1>1, <1>2, <1>3, <1>4, <1>5, <1>6 DEF TrackerNext

(* What the tracker calls realized is real: with an account that sells     *)
(* only what it has, and with purchases whose average is a whole number    *)
(* (the code's is a Decimal, the model's an integer), a tracker that was   *)
(* told all fills, none of which passed a sync, has realized the cash that *)
(* came in less the cost of what is still open, in any number of symbols,  *)
(* however positions were built, reduced, closed and opened again, and     *)
(* however often a sync replaced them (PositionTracker.update_fill, sync). *)
THEOREM RealizedIsCashHolds ==
    ASSUME ~AllowShort
    PROVE  TrackerSpec /\ WholeAverages => []RealizedIsCash
<1>1. TrackerInit => NeverShort /\ CashInv
  <2> SUFFICES ASSUME TrackerInit PROVE NeverShort /\ CashInv
    OBVIOUS
  <2>1. /\ notices = <<>> /\ syncing = None /\ tracked = <<>> /\ orders = <<>>
        /\ net = [s \in Symbols |-> Flat] /\ realized = 0 /\ cash = 0
    BY DEF TrackerInit
  <2>2. NeverShort
    <3>1. \A s : OpenIn(orders, s, "SELL") = {}
      BY <2>1 DEF OpenIn
    <3>2. \A s : QuantityIn(orders, s, "SELL") = 0
      <4> TAKE s
      <4> DEFINE f == [i \in OpenIn(orders, s, "SELL") |-> orders[i].order.quantity]
      <4>1. DOMAIN f = {}
        BY <3>1
      <4>2. QuantityIn(orders, s, "SELL") = SumFunction(f)
        BY DEF QuantityIn
      <4> HIDE DEF f
      <4> QED
        BY <4>1, <4>2, SumEmpty DEF SumFunction
    <3> QED
      BY <2>1, <3>2 DEF NeverShort, Flat
  <2>3. DOMAIN tracked = {} /\ Holdings(tracked)
    <3>1. DOMAIN tracked = {}
      BY <2>1
    <3>2. <<>> \in [{} -> Snapshot]
      OBVIOUS
    <3> QED
      BY <2>1, <3>1, <3>2 DEF Holdings
  <2>4. Held(tracked) = Held(net)
    <3>1. Plain(Flat) = Flat
      BY DEF Plain, Flat
    <3> QED
      BY <2>1, <2>3, <3>1 DEF Held
  <2>5. Cost(tracked) = 0
    <3> DEFINE f == [s \in DOMAIN tracked |-> tracked[s].entry_price * tracked[s].quantity]
    <3>1. DOMAIN f = {} /\ Cost(tracked) = SumFunction(f)
      BY <2>3 DEF Cost
    <3> HIDE DEF f
    <3> QED
      BY <3>1, SumEmpty DEF SumFunction
  <2>6. TheTracker = TheBroker
    BY <2>1, <2>3, <2>4, <2>5, CostOfHeld DEF TheTracker, TheBroker
  <2>7. TheTracker \in Accounts
    BY <2>1, <2>3, HeldType DEF TheTracker, Accounts
  <2>8. LeadsLong(TheTracker, notices, TheBroker)
    BY <2>1, <2>6, <2>7, LongNowhere
  <2> QED
    BY <2>1, <2>2, <2>8 DEF CashInv
<1>2. TrackerTypeOK /\ NeverShort /\ CashInv /\ [TrackerNext]_vars /\ [Averages]_vars
          => (NeverShort /\ CashInv)'
  BY NeverShortInductive, CashInductive
<1>3. TrackerTypeOK /\ CashInv => RealizedIsCash
  <2> SUFFICES ASSUME TrackerTypeOK, CashInv, Quiet, ~overtaken
               PROVE  realized = cash + Cost(tracked)
    BY DEF RealizedIsCash
  <2>1. notices = <<>> /\ Holdings(tracked)
    BY DEF TrackerTypeOK, Quiet
  <2>2. TheTracker = TheBroker
    BY <2>1, AccountsType, LongNowhere DEF CashInv
  <2>3. Held(tracked) = Held(net) /\ realized = cash + Cost(Held(net))
    BY <2>2 DEF TheTracker, TheBroker
  <2> QED
    BY <2>1, <2>3, CostOfHeld
<1> QED
  BY <1>1, <1>2, <1>3, TrackerTypeCorrect, PTL DEF TrackerSpec, WholeAverages
=============================================================================
