------------------------- MODULE TransactionsProofs -------------------------
(***************************************************************************)
(* Theorems about Transactions: no row has two holders, every circle of    *)
(* waiting requests passes through an acceptance or a close, and no        *)
(* request writes over what another one has committed meanwhile.           *)
(***************************************************************************)
EXTENDS AtomicTransactions, FiniteSetTheorems, SequenceTheorems, TLAPS

\* The operations that lock a campaign before an assignment.
CampaignFirst == {"accept", "close"}

\* What the selects of a request lock, one kind of row each; "none" where a select only reads.
Order(r) ==
    CASE r.op = "launch"           -> <<"campaign", "account">>
      [] r.op \in CampaignFirst    -> <<"campaign", "assignment", "none">>
      [] r.op = "decline"          -> <<"assignment">>
      [] r.op = "apply"            -> <<"campaign", "none">>
      [] r.op = "withdraw"         -> <<"assignment", "campaign", "none">>
      [] r.op \in {"session", "submit", "escalate"} -> <<"assignment", "none">>
      [] r.op = "review"           ->
           IF r.decision = "approved"
           THEN <<"assignment", "submission", "campaign", "account", "none">>
           ELSE <<"assignment", "submission", "campaign">>
      [] r.op = "claim"            -> <<"dispute">>
      [] r.op \in {"reject", "dismiss"} -> <<"dispute", "assignment">>
      [] r.op = "award"            ->
           <<"dispute", "assignment", "submission", "campaign", "account", "none">>

\* The order in which all but CampaignFirst lock.
Rank == [dispute |-> 1, assignment |-> 2, submission |-> 3, campaign |-> 4, account |-> 5]

Operations == {"launch", "close", "accept", "decline", "apply", "withdraw", "session", "submit",
               "escalate", "review", "claim", "reject", "dismiss", "award"}

\* A select that locks rows of one kind.
LocksOnly(select, kind) ==
    IF kind = "none" THEN select.locks = {} ELSE \A row \in select.locks : row[1] = kind

-----------------------------------------------------------------------------
(* The selects of a request *)

\* Every request is of one of the operations.
LEMMA OperationOf == \A r \in Requests : r.op \in Operations
  BY RequestAssumption DEF Operations, OwnerOps, TesterOps, ModeratorOps

\* What the rows are called.
LEMMA RowKinds ==
    /\ \A c : \A row \in CampaignRow(c) : row[1] = "campaign"
    /\ \A c, t : \A row \in AssignmentRow(c, t) : row[1] = "assignment"
    /\ \A c, t : \A row \in SubmissionRow(c, t) : row[1] = "submission"
    /\ \A c, t : \A row \in DisputeRow(c, t) : row[1] = "dispute"
    /\ \A u : \A row \in AccountRow(u) : row[1] = "account"
  BY DEF CampaignRow, AssignmentRow, SubmissionRow, DisputeRow, AccountRow

\* The selects of an owner's request.
LEMMA OwnerOrder ==
    ASSUME NEW r \in Requests, r.op \in OwnerOps
    PROVE  /\ Len(OwnerPlan(r)) = Len(Order(r))
           /\ Len(Order(r)) \in Nat \ {0}
           /\ \A i \in 1..Len(Order(r)) : LocksOnly(OwnerPlan(r)[i], Order(r)[i])
           /\ r.op \in CampaignFirst => OwnerPlan(r)[1].locks = CampaignRow(r.c)
  <1> USE RowKinds DEF CampaignFirst, Lock, Read, LocksOnly
  <1>1. CASE r.op = "launch"
    BY <1>1 DEF Order, OwnerPlan, LaunchPlan
  <1>2. CASE r.op = "close"
    BY <1>2 DEF Order, OwnerPlan
  <1>3. CASE r.op = "accept"
    BY <1>3 DEF Order, OwnerPlan
  <1>4. CASE r.op = "decline"
    BY <1>4 DEF Order, OwnerPlan
  <1> QED
    BY <1>1, <1>2, <1>3, <1>4 DEF OwnerOps

\* The selects of a tester's request.
LEMMA TesterOrder ==
    ASSUME NEW r \in Requests, r.op \in TesterOps
    PROVE  /\ Len(TesterPlan(r)) = Len(Order(r))
           /\ Len(Order(r)) \in Nat \ {0}
           /\ \A i \in 1..Len(Order(r)) : LocksOnly(TesterPlan(r)[i], Order(r)[i])
  <1> USE RowKinds DEF CampaignFirst, Lock, Read, LocksOnly
  <1>1. CASE r.op = "apply"
    BY <1>1 DEF Order, TesterPlan
  <1>2. CASE r.op = "withdraw"
    BY <1>2 DEF Order, TesterPlan
  <1>3. CASE r.op = "session"
    BY <1>3 DEF Order, TesterPlan
  <1>4. CASE r.op = "submit"
    BY <1>4 DEF Order, TesterPlan
  <1>5. CASE r.op = "escalate"
    BY <1>5 DEF Order, TesterPlan
  <1> QED
    BY <1>1, <1>2, <1>3, <1>4, <1>5 DEF TesterOps

\* The selects of a review.
LEMMA ReviewSelects ==
    ASSUME NEW r
    PROVE  ReviewPlan(r) =
             IF r.decision = "approved"
             THEN <<Lock(AssignmentRow(r.c, r.t), TRUE), Lock(SubmissionRow(r.c, r.t), TRUE),
                    DecisionLock(r), Lock(AccountRow(r.t), TRUE), Read(TRUE)>>
             ELSE <<Lock(AssignmentRow(r.c, r.t), TRUE), Lock(SubmissionRow(r.c, r.t), TRUE),
                    DecisionLock(r)>>
  <1>1. ASSUME NEW a, NEW b, NEW d
        PROVE  Append(<<a, b>>, d) = <<a, b, d>>
    <2> DEFINE S == {a, b, d}
               appended == Append(<<a, b>>, d)
    <2>1. <<a, b>> \in Seq(S) /\ d \in S /\ <<a, b, d>> \in Seq(S)
      OBVIOUS
    <2> HIDE DEF S
    <2>2. /\ appended \in Seq(S)
          /\ Len(appended) = 3
          /\ appended[1] = a
          /\ appended[2] = b
          /\ appended[3] = d
      BY <2>1, AppendProperties
    <2> HIDE DEF appended
    <2>3. appended = <<a, b, d>>
      BY <2>1, <2>2, SeqEqual
    <2> QED
      BY <2>3 DEF appended
  <1>2. ASSUME NEW a, NEW b, NEW d, NEW e, NEW f
        PROVE  /\ <<a, b, d>> \o <<e, f>> = <<a, b, d, e, f>>
               /\ <<a, b, d>> \o <<>> = <<a, b, d>>
    <2> DEFINE S == {a, b, d, e, f}
    <2>1. /\ <<a, b, d>> \in Seq(S)
          /\ <<e, f>> \in Seq(S)
          /\ <<>> \in Seq(S)
          /\ <<a, b, d, e, f>> \in Seq(S)
      OBVIOUS
    <2> HIDE DEF S
    <2>2. <<a, b, d>> \o <<>> = <<a, b, d>>
      BY <2>1, ConcatEmptySeq
    <2> DEFINE joined == <<a, b, d>> \o <<e, f>>
    <2>3. /\ joined \in Seq(S)
          /\ Len(joined) = 5
          /\ joined[1] = a
          /\ joined[2] = b
          /\ joined[3] = d
          /\ joined[4] = e
          /\ joined[5] = f
      BY <2>1, ConcatProperties
    <2> HIDE DEF joined
    <2>4. joined = <<a, b, d, e, f>>
      BY <2>1, <2>3, SeqEqual
    <2> QED
      BY <2>2, <2>4 DEF joined
  <1> HIDE DEF Lock, Read, DecisionLock, AssignmentRow, SubmissionRow, AccountRow
  <1>3. Append(WorkLocks(r.c, r.t), DecisionLock(r)) =
          <<Lock(AssignmentRow(r.c, r.t), TRUE), Lock(SubmissionRow(r.c, r.t), TRUE), DecisionLock(r)>>
    BY <1>1 DEF WorkLocks
  <1> QED
    BY <1>2, <1>3 DEF ReviewPlan

\* The kinds of row that a review locks.
LEMMA ReviewOrder ==
    ASSUME NEW r \in Requests, r.op = "review"
    PROVE  /\ Len(ReviewPlan(r)) = Len(Order(r))
           /\ Len(Order(r)) \in Nat \ {0}
           /\ \A i \in 1..Len(Order(r)) : LocksOnly(ReviewPlan(r)[i], Order(r)[i])
  <1> USE RowKinds DEF CampaignFirst, Lock, Read, LocksOnly
  <1>1. CASE r.decision = "approved"
    BY <1>1, ReviewSelects DEF Order, DecisionLock
  <1>2. CASE r.decision # "approved"
    BY <1>2, ReviewSelects DEF Order, DecisionLock
  <1> QED
    BY <1>1, <1>2

\* The selects of a moderator's request.
LEMMA ModeratorOrder ==
    ASSUME NEW r \in Requests, r.op \in ModeratorOps
    PROVE  /\ Len(ModeratorPlan(r)) = Len(Order(r))
           /\ Len(Order(r)) \in Nat \ {0}
           /\ \A i \in 1..Len(Order(r)) : LocksOnly(ModeratorPlan(r)[i], Order(r)[i])
  <1> USE RowKinds DEF CampaignFirst, Lock, Read, LocksOnly
  <1>1. CASE r.op = "claim"
    BY <1>1 DEF Order, ModeratorPlan
  <1>2. CASE r.op = "reject"
    BY <1>2 DEF Order, ModeratorPlan
  <1>3. CASE r.op = "dismiss"
    BY <1>3 DEF Order, ModeratorPlan
  <1>4. CASE r.op = "award"
    BY <1>4 DEF Order, ModeratorPlan
  <1> QED
    BY <1>1, <1>2, <1>3, <1>4 DEF ModeratorOps

\* The selects of a request, as many in every state and of the same kinds.
LEMMA PlanOrder ==
    ASSUME NEW r \in Requests
    PROVE  /\ Len(Plan(r)) = Len(Order(r))
           /\ Len(Order(r)) \in Nat \ {0}
           /\ \A i \in 1..Len(Order(r)) : LocksOnly(Plan(r)[i], Order(r)[i])
           /\ r.op \in CampaignFirst => Plan(r)[1].locks = CampaignRow(r.c)
  <1>1. CASE r.op \in OwnerOps
    <2>1. Plan(r) = OwnerPlan(r)
      BY <1>1 DEF Plan, OwnerOps, TesterOps, ModeratorOps
    <2> QED
      BY <1>1, <2>1, OwnerOrder
  <1>2. CASE r.op \in TesterOps
    <2>1. Plan(r) = TesterPlan(r) /\ r.op \notin CampaignFirst
      BY <1>2 DEF Plan, OwnerOps, TesterOps, ModeratorOps, CampaignFirst
    <2> QED
      BY <1>2, <2>1, TesterOrder
  <1>3. CASE r.op = "review"
    <2>1. Plan(r) = ReviewPlan(r) /\ r.op \notin CampaignFirst
      BY <1>3 DEF Plan, OwnerOps, TesterOps, ModeratorOps, CampaignFirst
    <2> QED
      BY <1>3, <2>1, ReviewOrder
  <1>4. CASE r.op \in ModeratorOps
    <2>1. Plan(r) = ModeratorPlan(r) /\ r.op \notin CampaignFirst
      BY <1>4 DEF Plan, OwnerOps, TesterOps, ModeratorOps, CampaignFirst
    <2> QED
      BY <1>4, <2>1, ModeratorOrder
  <1> QED
    BY <1>1, <1>2, <1>3, <1>4, RequestAssumption

\* A request locks by rank, but for the assignments after the campaign of CampaignFirst.
LEMMA OrderByRank ==
    ASSUME NEW r \in Requests,
           NEW d \in 1..Len(Order(r)), d < Len(Order(r)),
           NEW i \in 1..d,
           Order(r)[i] # "none", Order(r)[d + 1] # "none"
    PROVE  \/ /\ r.op \in CampaignFirst
              /\ d = 1
              /\ Order(r)[2] = "assignment"
           \/ Rank[Order(r)[i]] < Rank[Order(r)[d + 1]]
  <1> USE DEF Rank
  <1>1. CASE r.op \in {"decline", "claim"}
    <2>1. Len(Order(r)) = 1
      BY <1>1 DEF Order, CampaignFirst
    <2> QED
      BY <2>1
  <1>2. CASE r.op \in {"launch", "apply", "session", "submit", "escalate", "reject", "dismiss"}
    <2>1. Order(r) \in {<<"campaign", "account">>, <<"campaign", "none">>,
                        <<"assignment", "none">>, <<"dispute", "assignment">>}
      BY <1>2 DEF Order, CampaignFirst
    <2>2. d = 1 /\ i = 1
      BY <2>1
    <2> QED
      BY <2>1, <2>2
  <1>3. CASE r.op \in CampaignFirst
    <2>1. Order(r) = <<"campaign", "assignment", "none">>
      BY <1>3 DEF Order, CampaignFirst
    <2>2. d = 1
      BY <2>1
    <2> QED
      BY <1>3, <2>1, <2>2
  <1>4. CASE r.op = "withdraw"
    <2>1. Order(r) = <<"assignment", "campaign", "none">>
      BY <1>4 DEF Order, CampaignFirst
    <2>2. d = 1 /\ i = 1
      BY <2>1
    <2> QED
      BY <2>1, <2>2
  <1>5. CASE r.op = "review"
    <2>1. CASE r.decision = "approved"
      <3>1. Order(r) = <<"assignment", "submission", "campaign", "account", "none">>
        BY <1>5, <2>1 DEF Order, CampaignFirst
      <3>2. d \in {1, 2, 3} /\ i \in {1, 2, 3}
        BY <3>1
      <3> QED
        BY <3>1, <3>2
    <2>2. CASE r.decision # "approved"
      <3>1. Order(r) = <<"assignment", "submission", "campaign">>
        BY <1>5, <2>2 DEF Order, CampaignFirst
      <3>2. d \in {1, 2} /\ i \in {1, 2}
        BY <3>1
      <3> QED
        BY <3>1, <3>2
    <2> QED
      BY <2>1, <2>2
  <1>6. CASE r.op = "award"
    <2>1. Order(r) = <<"dispute", "assignment", "submission", "campaign", "account", "none">>
      BY <1>6 DEF Order, CampaignFirst
    <2>2. d \in {1, 2, 3, 4} /\ i \in {1, 2, 3, 4}
      BY <2>1
    <2> QED
      BY <2>1, <2>2
  <1> QED
    BY <1>1, <1>2, <1>3, <1>4, <1>5, <1>6, OperationOf DEF Operations, CampaignFirst

\* What a request locks has a rank.
LEMMA OrderRanked ==
    ASSUME NEW r \in Requests, NEW i \in 1..Len(Order(r))
    PROVE  Order(r)[i] \in DOMAIN Rank \cup {"none"}
  <1> USE DEF CampaignFirst, Order, Rank
  <1>1. CASE r.op = "review"
    BY <1>1
  <1>2. CASE r.op # "review"
    BY <1>2, OperationOf DEF Operations
  <1> QED
    BY <1>1, <1>2
-----------------------------------------------------------------------------
(* What is true of the threads at work *)

\* A thread at work has done some of the selects of its request, and holds rows of their kinds;
\* after the first select of CampaignFirst, it holds its campaign's row and nothing else.
Serving(t) ==
    /\ t.request \in Requests
    /\ t = [request |-> t.request, done |-> t.done, held |-> t.held, read |-> t.read]
    /\ t.done \in 1..Len(Order(t.request))
    /\ \A row \in t.held : \E i \in 1..t.done :
          Order(t.request)[i] # "none" /\ row[1] = Order(t.request)[i]
    /\ t.request.op \in CampaignFirst /\ t.done = 1 => t.held = CampaignRow(t.request.c)

\* No row is held by two threads: a select waits until nobody else holds what it locks.
OneHolder == \A a, b \in Threads : a # b => Held(a) \cap Held(b) = {}

\* The inductive invariant.
LockInv ==
    /\ tx = [th \in Threads |-> tx[th]]
    /\ \A th \in Busy : Serving(tx[th])
    /\ OneHolder

\* One more select leaves a request as Serving describes it.
LEMMA SelectServes ==
    ASSUME NEW r \in Requests, NEW d \in 0..(Len(Order(r)) - 1), NEW h, NEW x,
           \A row \in h : \E i \in 1..d : Order(r)[i] # "none" /\ row[1] = Order(r)[i],
           d = 0 => h = {}
    PROVE  LET t == [request |-> r, done |-> d, held |-> h, read |-> x]
           IN  /\ Serving(Selected(r, t, Plan(r)[d + 1]))
               /\ Selected(r, t, Plan(r)[d + 1]).held = h \cup Plan(r)[d + 1].locks
  <1> DEFINE t == [request |-> r, done |-> d, held |-> h, read |-> x]
             select == Plan(r)[d + 1]
             more == Selected(r, t, select)
  <1>1. /\ more.request = r
        /\ more.done = d + 1
        /\ more.held = h \cup select.locks
        /\ more = [request |-> more.request, done |-> more.done,
                   held |-> more.held, read |-> more.read]
    <2> DEFINE y == IF d + 1 = Len(Plan(r)) THEN Snapshot(r.c) ELSE x
    <2>1. more = [request |-> r, done |-> d + 1, held |-> h \cup select.locks, read |-> y]
      <3>1. t.done = d /\ t.read = x
        OBVIOUS
      <3>2. more = [t EXCEPT !.done = @ + 1, !.held = @ \cup select.locks, !.read = y]
        <4> HIDE DEF t, select
        <4> QED
          BY <3>1 DEF Selected
      <3> HIDE DEF more, select, y
      <3> QED
        BY <3>2
    <2> HIDE DEF y, select, more
    <2> QED
      BY <2>1
  <1>2. /\ Len(Order(r)) \in Nat \ {0}
        /\ LocksOnly(select, Order(r)[d + 1])
        /\ r.op \in CampaignFirst => Plan(r)[1].locks = CampaignRow(r.c)
    BY PlanOrder
  <1> HIDE DEF select
  <1>3. \A row \in select.locks : Order(r)[d + 1] # "none" /\ row[1] = Order(r)[d + 1]
    BY <1>2 DEF LocksOnly
  <1>4. d + 1 \in 1..Len(Order(r))
    BY <1>2
  <1>5. ASSUME NEW row \in h \cup select.locks
        PROVE  \E i \in 1..(d + 1) : Order(r)[i] # "none" /\ row[1] = Order(r)[i]
    <2>1. CASE row \in h
      BY <2>1
    <2>2. CASE row \in select.locks
      BY <2>2, <1>3, <1>4
    <2> QED
      BY <2>1, <2>2
  <1>6. ASSUME r.op \in CampaignFirst, d + 1 = 1
        PROVE  h \cup select.locks = CampaignRow(r.c)
    <2>1. d = 0 /\ h = {}
      BY <1>6
    <2>2. select.locks = CampaignRow(r.c)
      BY <1>2, <1>6, <2>1 DEF select
    <2> QED
      BY <2>1, <2>2
  <1> HIDE DEF more
  <1>7. Serving(more)
    BY <1>1, <1>4, <1>5, <1>6 DEF Serving
  <1> QED
    BY <1>1, <1>7 DEF more, select

\* Nobody serves a request at the start.
LEMMA LockInit == TxInit => LockInv
  BY DEF TxInit, LockInv, Busy, OneHolder, Held

\* A thread that serves what it should, and holds rows that nobody else holds.
LEMMA LockTaken ==
    ASSUME LockInv, NEW th \in Threads, NEW t,
           tx' = [tx EXCEPT ![th] = t],
           t # Idle => Serving(t) /\ \A other \in Threads \ {th} : t.held \cap Held(other) = {}
    PROVE  LockInv'
  <1>1. tx' = [other \in Threads |-> tx'[other]]
    BY DEF LockInv
  <1>2. tx'[th] = t /\ \A other \in Threads \ {th} : tx'[other] = tx[other]
    BY DEF LockInv
  <1>3. /\ \A other \in Threads \ {th} : other \in Busy' <=> other \in Busy
        /\ th \in Busy' <=> t # Idle
    BY <1>2 DEF Busy
  <1>4. \A other \in Busy' : Serving(tx'[other])
    BY <1>2, <1>3 DEF Busy, LockInv
  <1>5. /\ \A other \in Threads \ {th} : Held(other)' = Held(other)
        /\ Held(th)' = IF t # Idle THEN t.held ELSE {}
    BY <1>2, <1>3 DEF Held
  <1>6. OneHolder'
    <2> SUFFICES ASSUME NEW a \in Threads, NEW b \in Threads, a # b
                 PROVE  Held(a)' \cap Held(b)' = {}
      BY DEF OneHolder
    <2>1. CASE a = th
      BY <2>1, <1>5
    <2>2. CASE b = th
      BY <2>2, <1>5
    <2>3. CASE a # th /\ b # th
      BY <2>3, <1>5 DEF LockInv, OneHolder
    <2> QED
      BY <2>1, <2>2, <2>3
  <1> QED
    BY <1>1, <1>4, <1>6 DEF LockInv

\* A request that begins.
LEMMA LockBegin ==
    ASSUME LockInv, NEW th \in Threads, NEW r \in Requests, Begin(th, r)
    PROVE  LockInv'
  <1> DEFINE none == [request |-> r, done |-> 0, held |-> {}, read |-> Idle]
             t == Selected(r, none, Plan(r)[1])
  <1>1. tx' = [tx EXCEPT ![th] = t]
    BY DEF Begin
  <1>2. Serving(t) /\ t.held = Plan(r)[1].locks
    <2> DEFINE d == 0
               h == {}
               x == Idle
               u == [request |-> r, done |-> d, held |-> h, read |-> x]
    <2>1. d \in 0..(Len(Order(r)) - 1)
      BY PlanOrder
    <2>2. \A row \in h : \E i \in 1..d : Order(r)[i] # "none" /\ row[1] = Order(r)[i]
      OBVIOUS
    <2>3. d = 0 => h = {}
      OBVIOUS
    <2>4. /\ Serving(Selected(r, u, Plan(r)[d + 1]))
          /\ Selected(r, u, Plan(r)[d + 1]).held = h \cup Plan(r)[d + 1].locks
      <3> HIDE DEF d, h, x
      <3> QED
        BY <2>1, <2>2, <2>3, SelectServes
    <2>5. d + 1 = 1
      OBVIOUS
    <2> QED
      BY <2>4, <2>5
  <1>3. \A other \in Threads : Plan(r)[1].locks \cap Held(other) = {}
    BY DEF Begin, Held
  <1> HIDE DEF t
  <1> QED
    BY <1>1, <1>2, <1>3, LockTaken

\* A request that goes on, or is refused.
LEMMA LockSelect ==
    ASSUME LockInv, NEW th \in Threads, Select(th)
    PROVE  LockInv'
  <1> DEFINE r == tx[th].request
             d == tx[th].done
             t == Selected(r, tx[th], NextSelect(th))
  <1>1. CASE ~NextSelect(th).ok
    BY <1>1, LockTaken DEF Select, Release
  <1>2. CASE NextSelect(th).ok
    <2>1. th \in Busy /\ Serving(tx[th]) /\ d < Len(Plan(r))
      BY DEF Select, Selecting, LockInv
    <2>2. tx' = [tx EXCEPT ![th] = t]
      BY <1>2 DEF Select, LockInv
    <2>3. r \in Requests /\ d \in 0..(Len(Order(r)) - 1) /\ d # 0
      BY <2>1, PlanOrder DEF Serving
    <2>4. tx[th] = [request |-> r, done |-> d, held |-> tx[th].held, read |-> tx[th].read]
      BY <2>1 DEF Serving
    <2>5. \A row \in tx[th].held : \E i \in 1..d : Order(r)[i] # "none" /\ row[1] = Order(r)[i]
      BY <2>1 DEF Serving
    <2>6. Serving(t) /\ t.held = tx[th].held \cup NextSelect(th).locks
      <3> DEFINE h == tx[th].held
                 x == tx[th].read
                 u == [request |-> r, done |-> d, held |-> h, read |-> x]
      <3>1. /\ Serving(Selected(r, u, Plan(r)[d + 1]))
            /\ Selected(r, u, Plan(r)[d + 1]).held = h \cup Plan(r)[d + 1].locks
        <4> HIDE DEF r, d, h, x
        <4> QED
          BY <2>3, <2>5, SelectServes DEF h
      <3> QED
        BY <2>4, <3>1 DEF NextSelect
    <2>7. \A other \in Threads \ {th} : t.held \cap Held(other) = {}
      <3> SUFFICES ASSUME NEW other \in Threads \ {th}
                   PROVE  t.held \cap Held(other) = {}
        OBVIOUS
      <3>1. tx[th].held \cap Held(other) = {}
        BY <2>1 DEF LockInv, OneHolder, Held
      <3>2. NextSelect(th).locks \cap Held(other) = {}
        BY DEF Select, Waits
      <3> QED
        BY <2>6, <3>1, <3>2
    <2> HIDE DEF t
    <2> QED
      BY <2>2, <2>6, <2>7, LockTaken
  <1> QED
    BY <1>1, <1>2

\* Every step keeps LockInv.
LEMMA LockStep == LockInv /\ [TxNext]_txVars => LockInv'
  <1> SUFFICES ASSUME LockInv, [TxNext]_txVars
               PROVE  LockInv'
    OBVIOUS
  <1>1. ASSUME NEW th \in Threads, NEW r \in Requests, Begin(th, r)
        PROVE  LockInv'
    BY <1>1, LockBegin
  <1>2. ASSUME NEW th \in Threads, Select(th)
        PROVE  LockInv'
    BY <1>2, LockSelect
  <1>3. ASSUME NEW th \in Threads, Release(th)
        PROVE  LockInv'
    BY <1>3, LockTaken DEF Release
  <1>4. CASE UNCHANGED tx
    BY <1>4 DEF LockInv, Busy, OneHolder, Held
  <1> QED
    BY <1>1, <1>2, <1>3, <1>4 DEF TxNext, Commit, RollBack, txVars

\* LockInv always holds.
LEMMA LockAlways == TxSpec => []LockInv
  BY LockInit, LockStep, PTL DEF TxSpec

\* No row is ever held by two requests (SELECT ... FOR UPDATE, lock_campaign and the others of
\* app/services/workflow.py).
THEOREM OneHolderTheorem == TxSpec => []OneHolder
  <1>1. LockInv => OneHolder
    BY DEF LockInv
  <1> QED
    BY <1>1, LockAlways, PTL

-----------------------------------------------------------------------------
(* Requests that wait for each other *)

\* The kind of row that a request waits for.
Awaited(th) == Order(tx[th].request)[tx[th].done + 1]

\* A thread that waits is not done, and waits for a row of a kind that has a rank.
LEMMA WaitsForKind ==
    ASSUME LockInv, NEW a, NEW b, Waits(a, b)
    PROVE  /\ a \in Busy
           /\ tx[a].done \in 1..(Len(Order(tx[a].request)) - 1)
           /\ Awaited(a) \in DOMAIN Rank
           /\ \A row \in NextSelect(a).locks : row[1] = Awaited(a)
  <1> DEFINE r == tx[a].request
             d == tx[a].done
  <1>1. /\ a \in Busy /\ r \in Requests
        /\ d \in 1..Len(Order(r))
        /\ d < Len(Plan(r))
        /\ NextSelect(a).locks # {}
    BY DEF Waits, Selecting, LockInv, Serving
  <1>2. d + 1 \in 1..Len(Order(r)) /\ d \in 1..(Len(Order(r)) - 1)
    BY <1>1, PlanOrder
  <1>3. LocksOnly(NextSelect(a), Awaited(a))
    BY <1>1, <1>2, PlanOrder DEF NextSelect, Awaited
  <1>4. Awaited(a) # "none"
    BY <1>1, <1>3 DEF LocksOnly
  <1>5. Awaited(a) \in DOMAIN Rank
    BY <1>1, <1>2, <1>4, OrderRanked DEF Awaited
  <1> QED
    BY <1>1, <1>2, <1>3, <1>4, <1>5 DEF LocksOnly

\* A request waits for one that waits itself: either the latter waits for a row of a higher rank, or
\* it accepts or closes, and waits for an assignment with its campaign's row in its hands.
LEMMA HolderWaits ==
    ASSUME LockInv, NEW a, NEW b, NEW c, Waits(a, b), Waits(b, c)
    PROVE  \/ Rank[Awaited(a)] < Rank[Awaited(b)]
           \/ /\ tx[b].request.op \in CampaignFirst
              /\ tx[b].held = CampaignRow(tx[b].request.c)
              /\ \A row \in NextSelect(b).locks : row[1] = "assignment"
  <1> DEFINE r == tx[b].request
             d == tx[b].done
  <1>1. PICK row \in NextSelect(a).locks : row \in Held(b)
    BY DEF Waits
  <1>2. /\ b \in Busy /\ Serving(tx[b]) /\ row \in tx[b].held
        /\ d \in 1..(Len(Order(r)) - 1)
        /\ Awaited(b) \in DOMAIN Rank
        /\ \A x \in NextSelect(b).locks : x[1] = Awaited(b)
    BY <1>1, WaitsForKind DEF Held, LockInv
  <1>3. PICK i \in 1..d : Order(r)[i] # "none" /\ row[1] = Order(r)[i]
    BY <1>2 DEF Serving
  <1>4. Awaited(a) = Order(r)[i]
    BY <1>1, <1>3, WaitsForKind
  <1>5. Awaited(b) # "none"
    BY <1>2 DEF Rank
  <1>6. r \in Requests /\ d \in 1..Len(Order(r)) /\ d < Len(Order(r))
    BY <1>2, PlanOrder DEF Serving
  <1>7. \/ r.op \in CampaignFirst /\ d = 1 /\ Order(r)[2] = "assignment"
        \/ Rank[Order(r)[i]] < Rank[Order(r)[d + 1]]
    BY <1>3, <1>5, <1>6, OrderByRank DEF Awaited
  <1>8. CASE Rank[Order(r)[i]] < Rank[Order(r)[d + 1]]
    BY <1>4, <1>8 DEF Awaited
  <1>9. CASE r.op \in CampaignFirst /\ d = 1 /\ Order(r)[2] = "assignment"
    BY <1>2, <1>9 DEF Awaited, Serving
  <1> QED
    BY <1>7, <1>8, <1>9

\* A nonempty set of ranks has a greatest one.
LEMMA GreatestRank ==
    ASSUME NEW ranks \in SUBSET (1..5), ranks # {}
    PROVE  \E m \in ranks : \A n \in ranks : n <= m
  <1>1. PICK k \in ranks : TRUE
    OBVIOUS
  <1>2. CASE 5 \in ranks
    BY <1>2
  <1>3. CASE 5 \notin ranks /\ 4 \in ranks
    BY <1>3
  <1>4. CASE 5 \notin ranks /\ 4 \notin ranks /\ 3 \in ranks
    BY <1>4
  <1>5. CASE 5 \notin ranks /\ 4 \notin ranks /\ 3 \notin ranks /\ 2 \in ranks
    BY <1>5
  <1>6. CASE 5 \notin ranks /\ 4 \notin ranks /\ 3 \notin ranks /\ 2 \notin ranks
    BY <1>6, <1>1
  <1> QED
    BY <1>2, <1>3, <1>4, <1>5, <1>6

\* Where requests wait for each other, OppositeOrders.
LEMMA CirclesPassCampaignFirst == LockInv => OppositeOrders
  <1> SUFFICES ASSUME LockInv, NEW th \in Busy, Deadlocked(th)
               PROVE  \E a \in Busy :
                         /\ Deadlocked(a)
                         /\ tx[a].request.op \in CampaignFirst
                         /\ tx[a].held = CampaignRow(tx[a].request.c)
                         /\ \A row \in NextSelect(a).locks : row[1] = "assignment"
    BY DEF OppositeOrders, CampaignFirst
  <1>1. PICK S \in SUBSET Busy :
           /\ th \in S
           /\ \A a \in S : \E b \in S : Waits(a, b)
           /\ \A b \in S : \E a \in S : Waits(a, b)
    BY DEF Deadlocked
  <1>2. \A a \in S : Deadlocked(a)
    BY <1>1 DEF Deadlocked
  <1> DEFINE ranks == {Rank[Awaited(a)] : a \in S}
  <1>3. \A a \in S : Awaited(a) \in DOMAIN Rank
    BY <1>1, WaitsForKind
  <1>4. ranks \in SUBSET (1..5) /\ ranks # {}
    BY <1>1, <1>3 DEF Rank
  <1>5. PICK m \in ranks : \A n \in ranks : n <= m
    <2> HIDE DEF ranks
    <2> QED
      BY <1>4, GreatestRank
  <1>6. PICK a \in S : m = Rank[Awaited(a)]
    OBVIOUS
  <1>7. PICK b \in S : Waits(a, b)
    BY <1>1
  <1>8. PICK c \in S : Waits(b, c)
    BY <1>1
  <1>9. ~(Rank[Awaited(a)] < Rank[Awaited(b)])
    <2>1. Rank[Awaited(b)] \in ranks /\ Rank[Awaited(a)] \in ranks
      OBVIOUS
    <2>2. Rank[Awaited(b)] <= Rank[Awaited(a)]
      BY <1>5, <1>6, <2>1
    <2> QED
      BY <1>4, <2>1, <2>2
  <1> QED
    BY <1>1, <1>2, <1>7, <1>8, <1>9, HolderWaits

\* However many requests wait for each other in a circle, one of them is an accept_assignment or a
\* close_campaign that holds no more than its campaign's row and waits for an assignment.
THEOREM OppositeOrdersTheorem == TxSpec => []OppositeOrders
  BY CirclesPassCampaignFirst, LockAlways, PTL

-----------------------------------------------------------------------------
(* What a request has locked and tested *)

\* The tester whose work a request is about.
Worker(r) == IF r.op \in TesterOps THEN r.by ELSE r.t

\* What the selects of a request lock whatever the state: all but submissions, whose lock guards
\* nothing that their assignment's does not, and the applications that a close finds.
Locks(r) ==
    LET camp == CampaignRow(r.c)
        work == AssignmentRow(r.c, Worker(r))
        case == DisputeRow(r.c, Worker(r))
    IN  CASE r.op = "launch"   -> <<camp, AccountRow(r.by)>>
          [] r.op = "close"    -> <<camp, {}, {}>>
          [] r.op = "accept"   -> <<camp, work, {}>>
          [] r.op = "decline"  -> <<work>>
          [] r.op = "apply"    -> <<camp, {}>>
          [] r.op = "withdraw" -> <<work, camp, {}>>
          [] r.op \in {"session", "submit", "escalate"} -> <<work, {}>>
          [] r.op = "review"   -> IF r.decision = "approved"
                                  THEN <<work, {}, camp, AccountRow(r.t), {}>>
                                  ELSE <<work, {}, camp>>
          [] r.op = "claim"    -> <<case>>
          [] r.op \in {"reject", "dismiss"} -> <<case, work>>
          [] r.op = "award"    -> <<case, work, {}, camp, AccountRow(r.t), {}>>

\* The operations that write an assignment that is there already, its submissions or its sessions,
\* and the select at which they have found it.
WorkOps == {"accept", "decline", "withdraw", "session", "submit", "escalate", "review", "reject",
            "award"}
FoundAt(r) ==
    CASE r.op \in {"decline", "withdraw", "session", "submit", "escalate"} -> 1
      [] r.op \in {"accept", "reject", "award"} -> 2
      [] r.op = "review" -> 3

\* What a request that holds the rows of h has found out by its i-th select about the assignments
\* and disputes of its campaign: which rows are there, and for a close that it holds the
\* applications.
Tested(r, i, h, rows, disputes) ==
    /\ r.op \in WorkOps /\ i = FoundAt(r) => rows[Worker(r)].status # "none"
    /\ r.op \in ModeratorOps /\ i = 1 => disputes[Worker(r)].status # "none"
    /\ r.op = "apply" /\ i = 2 => rows[r.by].status = "none"
    /\ r.op = "escalate" /\ i = 2 => disputes[r.by].status = "none"
    /\ r.op = "close" /\ i = 2 => \A t \in Pending(rows) : AssignmentRow(r.c, t) \subseteq h

\* The fields of a request.
LEMMA RequestFields ==
    ASSUME NEW r \in Requests
    PROVE  /\ r.c \in Campaigns /\ r.by \in Users
           /\ r.op \in WorkOps \cup ModeratorOps \cup TesterOps => Worker(r) \in Users
           /\ r.op \in {"review", "escalate"} => r.v \in Nat
           /\ r.op = "review" => r.decision \in Decision
           /\ r.op = "dismiss" => r.outcome \in {"resolved", "rejected"}
  BY RequestAssumption DEF Worker, WorkOps, ModeratorOps, TesterOps

\* A select locks what Locks says, and goes on only if what it tests is true.
LEMMA SelectTests ==
    ASSUME NEW r \in Requests, NEW i \in 1..Len(Order(r))
    PROVE  /\ Locks(r)[i] \subseteq Plan(r)[i].locks
           /\ Plan(r)[i].ok => Tested(r, i, Plan(r)[i].locks, assignment[r.c], dispute[r.c])
           /\ Len(Locks(r)) = Len(Order(r))
  <1> DEFINE camp == CampaignRow(r.c)
             work == AssignmentRow(r.c, Worker(r))
             case == DisputeRow(r.c, Worker(r))
             row  == assignment[r.c][Worker(r)]
             found == row.status # "none"
             disputed == dispute[r.c][Worker(r)].status # "none"
  <1> USE DEF CampaignFirst, OwnerOps, TesterOps, ModeratorOps
  <1>1. CASE r.op = "launch"
    <2>1. Order(r) = <<"campaign", "account">> /\ Locks(r) = <<camp, AccountRow(r.by)>>
      BY <1>1 DEF Order, Locks
    <2>2. /\ Len(Plan(r)) = 2
          /\ Plan(r)[1].locks = camp
          /\ Plan(r)[2].locks = AccountRow(r.by)
      BY <1>1 DEF Lock, Read, found, disputed, row, Row, Worker, Plan, OwnerPlan, LaunchPlan
    <2>3. i \in {1, 2}
      BY <2>1
    <2> QED
      BY <1>1, <2>1, <2>2, <2>3 DEF Tested, WorkOps, FoundAt, Worker
  <1>2. CASE r.op = "close"
    <2>1. Order(r) = <<"campaign", "assignment", "none">> /\ Locks(r) = <<camp, {}, {}>>
      BY <1>2 DEF Order, Locks
    <2>2. /\ Len(Plan(r)) = 3
          /\ Plan(r)[1].locks = camp
          /\ Plan(r)[2].locks = UNION {AssignmentRow(r.c, t) : t \in Pending(assignment[r.c])}
          /\ Plan(r)[3].locks = {}
      BY <1>2 DEF Lock, Read, found, disputed, row, Row, Worker, Plan, OwnerPlan
    <2>3. i \in {1, 2, 3}
      BY <2>1
    <2> QED
      BY <1>2, <2>1, <2>2, <2>3 DEF Tested, WorkOps, FoundAt, Worker
  <1>3. CASE r.op = "accept"
    <2>1. Order(r) = <<"campaign", "assignment", "none">> /\ Locks(r) = <<camp, work, {}>>
      BY <1>3 DEF Order, Locks
    <2>2. /\ Len(Plan(r)) = 3
          /\ Plan(r)[1].locks = camp
          /\ Plan(r)[2].locks = work /\ (Plan(r)[2].ok => found)
          /\ Plan(r)[3].locks = {}
      BY <1>3 DEF Lock, Read, found, disputed, row, Row, Worker, Plan, OwnerPlan
    <2>3. i \in {1, 2, 3}
      BY <2>1
    <2> QED
      BY <1>3, <2>1, <2>2, <2>3 DEF Tested, WorkOps, FoundAt, Worker
  <1>4. CASE r.op = "decline"
    <2>1. Order(r) = <<"assignment">> /\ Locks(r) = <<work>>
      BY <1>4 DEF Order, Locks
    <2>2. /\ Len(Plan(r)) = 1
          /\ Plan(r)[1].locks = work /\ (Plan(r)[1].ok => found)
      BY <1>4 DEF Lock, Read, found, disputed, row, Row, Worker, Plan, OwnerPlan
    <2>3. i \in {1}
      BY <2>1
    <2> QED
      BY <1>4, <2>1, <2>2, <2>3 DEF Tested, WorkOps, FoundAt, Worker
  <1>5. CASE r.op = "apply"
    <2>1. Order(r) = <<"campaign", "none">> /\ Locks(r) = <<camp, {}>>
      BY <1>5 DEF Order, Locks
    <2>2. /\ Len(Plan(r)) = 2
          /\ Plan(r)[1].locks = camp
          /\ Plan(r)[2].locks = {} /\ (Plan(r)[2].ok => ~found)
      BY <1>5 DEF Lock, Read, found, disputed, row, Row, Worker, Plan, TesterPlan
    <2>3. i \in {1, 2}
      BY <2>1
    <2> QED
      BY <1>5, <2>1, <2>2, <2>3 DEF Tested, WorkOps, FoundAt, Worker
  <1>6. CASE r.op = "withdraw"
    <2>1. Order(r) = <<"assignment", "campaign", "none">> /\ Locks(r) = <<work, camp, {}>>
      BY <1>6 DEF Order, Locks
    <2>2. /\ Len(Plan(r)) = 3
          /\ Plan(r)[1].locks = work /\ (Plan(r)[1].ok => found)
          /\ Plan(r)[2].locks = camp
          /\ Plan(r)[3].locks = {}
      BY <1>6 DEF Lock, Read, found, disputed, row, Row, Worker, Plan, TesterPlan, Withdrawable
    <2>3. i \in {1, 2, 3}
      BY <2>1
    <2> QED
      BY <1>6, <2>1, <2>2, <2>3 DEF Tested, WorkOps, FoundAt, Worker
  <1>7. CASE r.op \in {"session", "submit"}
    <2>1. Order(r) = <<"assignment", "none">> /\ Locks(r) = <<work, {}>>
      BY <1>7 DEF Order, Locks
    <2>2. /\ Len(Plan(r)) = 2
          /\ Plan(r)[1].locks = work /\ (Plan(r)[1].ok => found)
          /\ Plan(r)[2].locks = {}
      BY <1>7 DEF Lock, Read, found, disputed, row, Row, Worker, Plan, TesterPlan, Testing
    <2>3. i \in {1, 2}
      BY <2>1
    <2> QED
      BY <1>7, <2>1, <2>2, <2>3 DEF Tested, WorkOps, FoundAt, Worker
  <1>8. CASE r.op = "escalate"
    <2>1. Order(r) = <<"assignment", "none">> /\ Locks(r) = <<work, {}>>
      BY <1>8 DEF Order, Locks
    <2>2. /\ Len(Plan(r)) = 2
          /\ Plan(r)[1].locks = work /\ (Plan(r)[1].ok => found)
          /\ Plan(r)[2].locks = {} /\ (Plan(r)[2].ok => ~disputed)
      BY <1>8 DEF Lock, Read, found, disputed, row, Row, Worker, Plan, TesterPlan
    <2>3. i \in {1, 2}
      BY <2>1
    <2> QED
      BY <1>8, <2>1, <2>2, <2>3 DEF Tested, WorkOps, FoundAt, Worker
  <1>9. CASE r.op = "review" /\ r.decision = "approved"
    <2>1. /\ Order(r) = <<"assignment", "submission", "campaign", "account", "none">>
          /\ Locks(r) = <<work, {}, camp, AccountRow(r.t), {}>>
      BY <1>9 DEF Order, Locks
    <2>2. /\ Len(Plan(r)) = 5
          /\ Plan(r)[1].locks = work
          /\ Plan(r)[2].locks = SubmissionRow(r.c, r.t)
          /\ Plan(r)[3].locks = camp /\ (Plan(r)[3].ok => found)
          /\ Plan(r)[4].locks = AccountRow(r.t)
          /\ Plan(r)[5].locks = {}
      BY <1>9, ReviewSelects DEF Lock, Read, found, disputed, row, Row, Worker, Plan,
         DecisionLock, Reviewable
    <2>3. i \in {1, 2, 3, 4, 5}
      BY <2>1
    <2> QED
      BY <1>9, <2>1, <2>2, <2>3 DEF Tested, WorkOps, FoundAt, Worker
  <1>10. CASE r.op = "review" /\ r.decision # "approved"
    <2>1. Order(r) = <<"assignment", "submission", "campaign">> /\ Locks(r) = <<work, {}, camp>>
      BY <1>10 DEF Order, Locks
    <2>2. /\ Len(Plan(r)) = 3
          /\ Plan(r)[1].locks = work
          /\ Plan(r)[2].locks = SubmissionRow(r.c, r.t)
          /\ Plan(r)[3].locks = camp /\ (Plan(r)[3].ok => found)
      BY <1>10, ReviewSelects DEF Lock, Read, found, disputed, row, Row, Worker, Plan,
         DecisionLock, Reviewable
    <2>3. i \in {1, 2, 3}
      BY <2>1
    <2> QED
      BY <1>10, <2>1, <2>2, <2>3 DEF Tested, WorkOps, FoundAt, Worker
  <1>11. CASE r.op = "claim"
    <2>1. Order(r) = <<"dispute">> /\ Locks(r) = <<case>>
      BY <1>11 DEF Order, Locks
    <2>2. /\ Len(Plan(r)) = 1
          /\ Plan(r)[1].locks = case /\ (Plan(r)[1].ok => disputed)
      BY <1>11 DEF Lock, Read, found, disputed, row, Row, Worker, Plan, ModeratorPlan
    <2>3. i \in {1}
      BY <2>1
    <2> QED
      BY <1>11, <2>1, <2>2, <2>3 DEF Tested, WorkOps, FoundAt, Worker
  <1>12. CASE r.op = "reject"
    <2>1. Order(r) = <<"dispute", "assignment">> /\ Locks(r) = <<case, work>>
      BY <1>12 DEF Order, Locks
    <2>2. /\ Len(Plan(r)) = 2
          /\ Plan(r)[1].locks = case /\ (Plan(r)[1].ok => disputed)
          /\ Plan(r)[2].locks = work /\ (Plan(r)[2].ok => found)
      BY <1>12 DEF Lock, Read, found, disputed, row, Row, Worker, Plan, ModeratorPlan
    <2>3. i \in {1, 2}
      BY <2>1
    <2> QED
      BY <1>12, <2>1, <2>2, <2>3 DEF Tested, WorkOps, FoundAt, Worker
  <1>13. CASE r.op = "dismiss"
    <2>1. Order(r) = <<"dispute", "assignment">> /\ Locks(r) = <<case, work>>
      BY <1>13 DEF Order, Locks
    <2>2. /\ Len(Plan(r)) = 2
          /\ Plan(r)[1].locks = case /\ (Plan(r)[1].ok => disputed)
          /\ Plan(r)[2].locks = work
      BY <1>13 DEF Lock, Read, found, disputed, row, Row, Worker, Plan, ModeratorPlan
    <2>3. i \in {1, 2}
      BY <2>1
    <2> QED
      BY <1>13, <2>1, <2>2, <2>3 DEF Tested, WorkOps, FoundAt, Worker
  <1>14. CASE r.op = "award"
    <2>1. /\ Order(r) = <<"dispute", "assignment", "submission", "campaign", "account", "none">>
          /\ Locks(r) = <<case, work, {}, camp, AccountRow(r.t), {}>>
      BY <1>14 DEF Order, Locks
    <2>2. /\ Len(Plan(r)) = 6
          /\ Plan(r)[1].locks = case /\ (Plan(r)[1].ok => disputed)
          /\ Plan(r)[2].locks = work /\ (Plan(r)[2].ok => found)
          /\ Plan(r)[3].locks = SubmissionRow(r.c, r.t)
          /\ Plan(r)[4].locks = camp
          /\ Plan(r)[5].locks = AccountRow(r.t)
          /\ Plan(r)[6].locks = {}
      BY <1>14 DEF Lock, Read, found, disputed, row, Row, Worker, Plan, ModeratorPlan, WorkLocks
    <2>3. i \in {1, 2, 3, 4, 5, 6}
      BY <2>1
    <2> QED
      BY <1>14, <2>1, <2>2, <2>3 DEF Tested, WorkOps, FoundAt, Worker
  <1> QED
    BY <1>1, <1>2, <1>3, <1>4, <1>5, <1>6, <1>7, <1>8, <1>9, <1>10, <1>11, <1>12, <1>13, <1>14,
       OperationOf DEF Operations

-----------------------------------------------------------------------------
(* What a request has read *)

\* An entry of a ledger has this key.
PostedIn(entries, key) == \E e \in entries : e.key = key

\* What a request has read of campaign c as s is so still in the tables db, as far as the rows of
\* h, which it holds, guard it: an assignment guards the dispute on it until there is one, and a
\* campaign the assignments that are not there yet.
Fresh(c, h, s, db) ==
    /\ CampaignRow(c) \subseteq h =>
         /\ db.campaign[c] = s.campaign
         /\ PostedIn(db.ledger, PostingKey(c)) => PostedIn(s.ledger, PostingKey(c))
         /\ \A t \in Users : s.rows[t].status = "none" => db.assignment[c][t] = s.rows[t]
    /\ \A t \in Users : AssignmentRow(c, t) \subseteq h =>
         /\ db.submissions[c][t] = s.subs[t] /\ db.sessions[c][t] = s.days[t]
         /\ s.rows[t].status # "none" => db.assignment[c][t] = s.rows[t]
         /\ s.dispute[t].status = "none" => db.dispute[c][t] = s.dispute[t]
         /\ PostedIn(db.ledger, RewardKey(c, t)) => PostedIn(s.ledger, RewardKey(c, t))
    /\ \A t \in Users : DisputeRow(c, t) \subseteq h =>
         (s.dispute[t].status # "none" => db.dispute[c][t] = s.dispute[t])
    /\ \A u \in Users : AccountRow(u) \subseteq h => db.balance[u] = s.balance[u]

\* A thread at work holds what its selects lock and has found out what they test; after the last
\* one, what it has read is fresh.
Informed(t, db) ==
    LET r == t.request
        c == r.c
        s == t.read
        found(rows, disputes) == \A i \in 1..t.done : Tested(r, i, t.held, rows, disputes)
    IN  /\ \A i \in 1..t.done : Locks(r)[i] \subseteq t.held
        /\ t.done < Len(Order(r)) => found(db.assignment[c], db.dispute[c])
        /\ t.done = Len(Order(r)) =>
             /\ found(s.rows, s.dispute)
             /\ s.rows \in [Users -> Assignment] /\ s.dispute \in [Users -> Dispute]
             /\ Fresh(c, t.held, s, db)

\* From db to later, nobody has written what the rows of h guard, and no row is gone.
Untouched(h, db, later) ==
    /\ \A c \in Campaigns : CampaignRow(c) \subseteq h =>
         /\ later.campaign[c] = db.campaign[c]
         /\ PostedIn(later.ledger, PostingKey(c)) => PostedIn(db.ledger, PostingKey(c))
         /\ \A t \in Users :
              /\ db.assignment[c][t].status = "none" => later.assignment[c][t] = db.assignment[c][t]
              /\ later.assignment[c][t].status = "applied" => db.assignment[c][t].status = "applied"
    /\ \A c \in Campaigns, t \in Users : AssignmentRow(c, t) \subseteq h =>
         /\ later.submissions[c][t] = db.submissions[c][t]
         /\ later.sessions[c][t] = db.sessions[c][t]
         /\ db.assignment[c][t].status # "none" => later.assignment[c][t] = db.assignment[c][t]
         /\ db.dispute[c][t].status = "none" => later.dispute[c][t] = db.dispute[c][t]
         /\ PostedIn(later.ledger, RewardKey(c, t)) => PostedIn(db.ledger, RewardKey(c, t))
    /\ \A c \in Campaigns, t \in Users : DisputeRow(c, t) \subseteq h =>
         (db.dispute[c][t].status # "none" => later.dispute[c][t] = db.dispute[c][t])
    /\ \A u \in Users : AccountRow(u) \subseteq h => later.balance[u] = db.balance[u]
    /\ \A c \in Campaigns, t \in Users :
         /\ db.assignment[c][t].status # "none" => later.assignment[c][t].status # "none"
         /\ db.dispute[c][t].status # "none" => later.dispute[c][t].status # "none"

\* A table has a row for each tester of each campaign.
ByWorker(table) == table = [c \in Campaigns |-> [t \in Users |-> table[c][t]]]

\* The tables have their columns and keys.
Shaped(db) ==
    /\ db.campaign = [c \in Campaigns |-> db.campaign[c]]
    /\ db.assignment \in [Campaigns -> [Users -> Assignment]]
    /\ ByWorker(db.submissions) /\ ByWorker(db.sessions)
    /\ db.dispute \in [Campaigns -> [Users -> Dispute]]

\* What others leave untouched stays fresh.
LEMMA FreshStays ==
    ASSUME NEW c \in Campaigns, NEW h, NEW s, NEW db, NEW later,
           Fresh(c, h, s, db), Untouched(h, db, later)
    PROVE  Fresh(c, h, s, later)
  <1>1. ASSUME CampaignRow(c) \subseteq h
        PROVE  /\ later.campaign[c] = s.campaign
               /\ PostedIn(later.ledger, PostingKey(c)) => PostedIn(s.ledger, PostingKey(c))
               /\ \A t \in Users : s.rows[t].status = "none" => later.assignment[c][t] = s.rows[t]
    BY <1>1 DEF Fresh, Untouched
  <1>2. ASSUME NEW t \in Users, AssignmentRow(c, t) \subseteq h
        PROVE  /\ later.submissions[c][t] = s.subs[t] /\ later.sessions[c][t] = s.days[t]
               /\ s.rows[t].status # "none" => later.assignment[c][t] = s.rows[t]
               /\ s.dispute[t].status = "none" => later.dispute[c][t] = s.dispute[t]
               /\ PostedIn(later.ledger, RewardKey(c, t)) => PostedIn(s.ledger, RewardKey(c, t))
    BY <1>2 DEF Fresh, Untouched
  <1>3. ASSUME NEW t \in Users, DisputeRow(c, t) \subseteq h, s.dispute[t].status # "none"
        PROVE  later.dispute[c][t] = s.dispute[t]
    BY <1>3 DEF Fresh, Untouched
  <1>4. ASSUME NEW u \in Users, AccountRow(u) \subseteq h
        PROVE  later.balance[u] = s.balance[u]
    BY <1>4 DEF Fresh, Untouched
  <1> QED
    BY <1>1, <1>2, <1>3, <1>4 DEF Fresh

\* A request stays informed while others leave untouched what it holds.
LEMMA InformedStays ==
    ASSUME NEW t, NEW db, NEW later, Serving(t), Informed(t, db), Untouched(t.held, db, later)
    PROVE  Informed(t, later)
  <1> DEFINE r == t.request
             c == r.c
             h == t.held
  <1>1. r \in Requests /\ c \in Campaigns /\ t.done \in 1..Len(Order(r))
    BY RequestFields DEF Serving
  <1>2. ASSUME t.done < Len(Order(r)), NEW i \in 1..t.done
        PROVE  Tested(r, i, h, later.assignment[c], later.dispute[c])
    <2>1. Tested(r, i, h, db.assignment[c], db.dispute[c])
      BY <1>2 DEF Informed
    <2>2. ASSUME r.op \in WorkOps, i = FoundAt(r)
          PROVE  later.assignment[c][Worker(r)].status # "none"
      BY <1>1, <2>1, <2>2, RequestFields DEF Tested, Untouched
    <2>3. ASSUME r.op \in ModeratorOps, i = 1
          PROVE  later.dispute[c][Worker(r)].status # "none"
      BY <1>1, <2>1, <2>3, RequestFields DEF Tested, Untouched
    <2>4. ASSUME r.op \in {"apply", "escalate"}
          PROVE  i # 2
      <3>1. Len(Order(r)) = 2
        BY <2>4 DEF Order, CampaignFirst
      <3> QED
        BY <1>2, <1>1, <3>1
    <2>5. ASSUME r.op = "close", i = 2, NEW w \in Pending(later.assignment[c])
          PROVE  AssignmentRow(c, w) \subseteq h
      <3>1. CampaignRow(c) \subseteq h
        <4>1. Locks(r)[1] = CampaignRow(c)
          BY <2>5 DEF Locks
        <4>2. 1 \in 1..t.done
          BY <1>1
        <4> QED
          BY <4>1, <4>2 DEF Informed
      <3>2. w \in Pending(db.assignment[c])
        BY <1>1, <2>5, <3>1 DEF Untouched, Pending
      <3> QED
        BY <2>1, <2>5, <3>2 DEF Tested
    <2> QED
      BY <2>2, <2>3, <2>4, <2>5 DEF Tested
  <1>3. ASSUME t.done = Len(Order(r))
        PROVE  Fresh(c, h, t.read, later)
    BY <1>1, <1>3, FreshStays DEF Informed
  <1> QED
    BY <1>2, <1>3 DEF Informed

\* What has just been read is fresh.
LEMMA ReadFresh ==
    ASSUME NEW c \in Campaigns, NEW h
    PROVE  Fresh(c, h, Snapshot(c), Tables)
  BY DEF Fresh, Snapshot, Tables

\* One more select leaves a request informed.
LEMMA SelectInforms ==
    ASSUME NEW r \in Requests, NEW d \in 0..(Len(Order(r)) - 1), NEW h, NEW x,
           Shaped(Tables),
           d # 0 => Informed([request |-> r, done |-> d, held |-> h, read |-> x], Tables),
           Plan(r)[d + 1].ok
    PROVE  LET t == [request |-> r, done |-> d, held |-> h, read |-> x]
           IN  Informed(Selected(r, t, Plan(r)[d + 1]), Tables)
  <1> DEFINE t == [request |-> r, done |-> d, held |-> h, read |-> x]
             select == Plan(r)[d + 1]
             more == Selected(r, t, select)
             y == IF d + 1 = Len(Plan(r)) THEN Snapshot(r.c) ELSE x
             g == h \cup select.locks
             c == r.c
  <1>1. more = [request |-> r, done |-> d + 1, held |-> g, read |-> y]
    <2>1. t.done = d /\ t.read = x
      OBVIOUS
    <2>2. more = [t EXCEPT !.done = @ + 1, !.held = @ \cup select.locks, !.read = y]
      <3> HIDE DEF t, select
      <3> QED
        BY <2>1 DEF Selected
    <2> HIDE DEF more, select, y
    <2> QED
      BY <2>2
  <1>2. /\ Len(Order(r)) \in Nat \ {0} /\ Len(Plan(r)) = Len(Order(r))
        /\ d \in Nat /\ d + 1 \in 1..Len(Order(r)) /\ c \in Campaigns
    BY PlanOrder, RequestFields
  <1>3. /\ Locks(r)[d + 1] \subseteq select.locks
        /\ Tested(r, d + 1, select.locks, assignment[c], dispute[c])
    BY <1>2, SelectTests
  <1>4. /\ Tables.assignment = assignment /\ Tables.dispute = dispute
        /\ Snapshot(c).rows = assignment[c] /\ Snapshot(c).dispute = dispute[c]
    BY DEF Tables, Snapshot
  <1> HIDE DEF select
  <1>5. ASSUME NEW i \in 1..d
        PROVE  /\ Locks(r)[i] \subseteq h
               /\ Tested(r, i, h, assignment[c], dispute[c])
    <2>1. d # 0 /\ d < Len(Order(r))
      BY <1>2
    <2>2. Informed(t, Tables) /\ t.request = r /\ t.done = d /\ t.held = h
      BY <2>1
    <2> HIDE DEF t
    <2> QED
      BY <1>4, <1>5, <2>1, <2>2 DEF Informed
  <1>6. ASSUME NEW i \in 1..(d + 1)
        PROVE  /\ Locks(r)[i] \subseteq g
               /\ Tested(r, i, g, assignment[c], dispute[c])
    <2>1. CASE i = d + 1
      BY <1>3, <2>1 DEF Tested
    <2>2. CASE i # d + 1
      <3>1. i \in 1..d
        BY <1>2, <2>2
      <3>2. /\ Locks(r)[i] \subseteq h
            /\ Tested(r, i, h, assignment[c], dispute[c])
        BY <1>5, <3>1
      <3> QED
        BY <3>2 DEF Tested
    <2> QED
      BY <2>1, <2>2
  <1>7. ASSUME d + 1 = Len(Order(r))
        PROVE  /\ y = Snapshot(c)
               /\ y.rows \in [Users -> Assignment] /\ y.dispute \in [Users -> Dispute]
               /\ Fresh(c, g, y, Tables)
    <2>1. y = Snapshot(c)
      BY <1>2, <1>7
    <2>2. assignment[c] \in [Users -> Assignment] /\ dispute[c] \in [Users -> Dispute]
      BY <1>2, <1>4 DEF Shaped
    <2>3. Fresh(c, g, Snapshot(c), Tables)
      BY <1>2, ReadFresh
    <2> HIDE DEF y, g
    <2> QED
      BY <1>4, <2>1, <2>2, <2>3
  <1>8. /\ more.request = r /\ more.done = d + 1 /\ more.held = g /\ more.read = y
    BY <1>1
  <1> HIDE DEF more, g, y
  <1>9. Informed(more, Tables)
    BY <1>4, <1>6, <1>7, <1>8 DEF Informed
  <1> QED
    BY <1>9 DEF more, select

-----------------------------------------------------------------------------
(* What a request writes *)

\* The rows of h, which a request holds, guard what it writes, and it writes over rows that it has
\* read: those of an assignment or dispute that is there, or of a new one under the row that
\* guards it.
Guarded(c, h, s, w) ==
    /\ \A d \in DOMAIN w.campaign : d = c /\ CampaignRow(c) \subseteq h
    /\ \A t \in DOMAIN w.rows :
         /\ t \in Users
         /\ w.rows[t] \in Assignment /\ w.rows[t].status # "none"
         /\ w.rows[t].status = "applied" => CampaignRow(c) \subseteq h
         /\ \/ AssignmentRow(c, t) \subseteq h /\ s.rows[t].status # "none"
            \/ CampaignRow(c) \subseteq h /\ s.rows[t].status = "none"
    /\ \A t \in DOMAIN w.subs \cup DOMAIN w.days : t \in Users /\ AssignmentRow(c, t) \subseteq h
    /\ \A t \in DOMAIN w.dispute :
         /\ t \in Users
         /\ w.dispute[t] \in Dispute /\ w.dispute[t].status # "none"
         /\ \/ DisputeRow(c, t) \subseteq h /\ s.dispute[t].status # "none"
            \/ AssignmentRow(c, t) \subseteq h /\ s.dispute[t].status = "none"
    /\ \A e \in w.entries :
         /\ e.user \in Users /\ AccountRow(e.user) \subseteq h /\ ~PostedIn(s.ledger, e.key)
         /\ \/ CampaignRow(c) \subseteq h /\ e.key = PostingKey(c)
            \/ \E t \in Users : AssignmentRow(c, t) \subseteq h /\ e.key = RewardKey(c, t)

\* A request that has done its selects.
Done(r, h, s) ==
    /\ \A i \in 1..Len(Order(r)) : Locks(r)[i] \subseteq h /\ Tested(r, i, h, s.rows, s.dispute)
    /\ s.rows \in [Users -> Assignment] /\ s.dispute \in [Users -> Dispute]

\* What a request holds and knows when it has done its selects.
LEMMA DoneHolds ==
    ASSUME NEW r \in Requests, NEW h, NEW s, Done(r, h, s)
    PROVE  /\ r.op \in {"launch", "close", "accept", "apply", "withdraw", "review", "award"} =>
                CampaignRow(r.c) \subseteq h
           /\ r.op \in WorkOps =>
                AssignmentRow(r.c, Worker(r)) \subseteq h /\ s.rows[Worker(r)].status # "none"
           /\ r.op \in ModeratorOps =>
                DisputeRow(r.c, Worker(r)) \subseteq h /\ s.dispute[Worker(r)].status # "none"
           /\ r.op = "launch" => AccountRow(r.by) \subseteq h
           /\ r.op = "award" \/ (r.op = "review" /\ r.decision = "approved") => AccountRow(r.t) \subseteq h
           /\ r.op = "apply" => s.rows[r.by].status = "none"
           /\ r.op = "escalate" => s.dispute[r.by].status = "none"
           /\ r.op = "close" => \A t \in Pending(s.rows) : AssignmentRow(r.c, t) \subseteq h
  <1> DEFINE n == Len(Order(r))
  <1>1. \A i \in 1..n : Locks(r)[i] \subseteq h /\ Tested(r, i, h, s.rows, s.dispute)
    BY DEF Done
  <1>2. CASE r.op = "launch"
    <2>1. n = 2
      BY <1>2 DEF Order, CampaignFirst
    <2>2. 1 \in 1..n /\ 2 \in 1..n
      BY <2>1
    <2> HIDE DEF n
    <2> QED
      BY <1>2, <1>1, <2>2 DEF Locks, Tested, WorkOps, FoundAt, ModeratorOps
  <1>3. CASE r.op = "close"
    <2>1. n = 3
      BY <1>3 DEF Order, CampaignFirst
    <2>2. 1 \in 1..n /\ 2 \in 1..n
      BY <2>1
    <2> HIDE DEF n
    <2> QED
      BY <1>3, <1>1, <2>2 DEF Locks, Tested, WorkOps, FoundAt, ModeratorOps
  <1>4. CASE r.op = "accept"
    <2>1. n = 3
      BY <1>4 DEF Order, CampaignFirst
    <2>2. 1 \in 1..n /\ 2 \in 1..n
      BY <2>1
    <2> HIDE DEF n
    <2> QED
      BY <1>4, <1>1, <2>2 DEF Locks, Tested, WorkOps, FoundAt, ModeratorOps
  <1>5. CASE r.op = "decline"
    <2>1. n = 1
      BY <1>5 DEF Order, CampaignFirst
    <2>2. 1 \in 1..n
      BY <2>1
    <2> HIDE DEF n
    <2> QED
      BY <1>5, <1>1, <2>2 DEF Locks, Tested, WorkOps, FoundAt, ModeratorOps
  <1>6. CASE r.op = "apply"
    <2>1. n = 2
      BY <1>6 DEF Order, CampaignFirst
    <2>2. 1 \in 1..n /\ 2 \in 1..n
      BY <2>1
    <2> HIDE DEF n
    <2> QED
      BY <1>6, <1>1, <2>2 DEF Locks, Tested, WorkOps, FoundAt, ModeratorOps
  <1>7. CASE r.op = "withdraw"
    <2>1. n = 3
      BY <1>7 DEF Order, CampaignFirst
    <2>2. 1 \in 1..n /\ 2 \in 1..n
      BY <2>1
    <2> HIDE DEF n
    <2> QED
      BY <1>7, <1>1, <2>2 DEF Locks, Tested, WorkOps, FoundAt, ModeratorOps
  <1>8. CASE r.op \in {"session", "submit", "escalate"}
    <2>1. n = 2
      BY <1>8 DEF Order, CampaignFirst
    <2>2. 1 \in 1..n /\ 2 \in 1..n
      BY <2>1
    <2> HIDE DEF n
    <2> QED
      BY <1>8, <1>1, <2>2 DEF Locks, Tested, WorkOps, FoundAt, ModeratorOps
  <1>9. CASE r.op = "review" /\ r.decision = "approved"
    <2>1. n = 5
      BY <1>9 DEF Order, CampaignFirst
    <2>2. 1 \in 1..n /\ 3 \in 1..n /\ 4 \in 1..n
      BY <2>1
    <2> HIDE DEF n
    <2> QED
      BY <1>9, <1>1, <2>2 DEF Locks, Tested, WorkOps, FoundAt, ModeratorOps
  <1>10. CASE r.op = "review" /\ r.decision # "approved"
    <2>1. n = 3
      BY <1>10 DEF Order, CampaignFirst
    <2>2. 1 \in 1..n /\ 3 \in 1..n
      BY <2>1
    <2> HIDE DEF n
    <2> QED
      BY <1>10, <1>1, <2>2 DEF Locks, Tested, WorkOps, FoundAt, ModeratorOps
  <1>11. CASE r.op = "claim"
    <2>1. n = 1
      BY <1>11 DEF Order, CampaignFirst
    <2>2. 1 \in 1..n
      BY <2>1
    <2> HIDE DEF n
    <2> QED
      BY <1>11, <1>1, <2>2 DEF Locks, Tested, WorkOps, FoundAt, ModeratorOps
  <1>12. CASE r.op \in {"reject", "dismiss"}
    <2>1. n = 2
      BY <1>12 DEF Order, CampaignFirst
    <2>2. 1 \in 1..n /\ 2 \in 1..n
      BY <2>1
    <2> HIDE DEF n
    <2> QED
      BY <1>12, <1>1, <2>2 DEF Locks, Tested, WorkOps, FoundAt, ModeratorOps
  <1>13. CASE r.op = "award"
    <2>1. n = 6
      BY <1>13 DEF Order, CampaignFirst
    <2>2. 1 \in 1..n /\ 2 \in 1..n /\ 4 \in 1..n /\ 5 \in 1..n
      BY <2>1
    <2> HIDE DEF n
    <2> QED
      BY <1>13, <1>1, <2>2 DEF Locks, Tested, WorkOps, FoundAt, ModeratorOps
  <1> QED
    BY <1>2, <1>3, <1>4, <1>5, <1>6, <1>7, <1>8, <1>9, <1>10, <1>11, <1>12, <1>13, OperationOf DEF
       Operations

\* Functions with one key or none.
LEMMA OneKey ==
    /\ DOMAIN <<>> = {}
    /\ \A x, y : DOMAIN At(x, y) = {x} /\ At(x, y)[x] = y
  BY DEF At

\* A record of writes has nine fields.
IsWrites(w) ==
    w = [campaign |-> w.campaign, contract |-> w.contract, rows |-> w.rows, subs |-> w.subs,
         days |-> w.days, dispute |-> w.dispute, entries |-> w.entries, audit |-> w.audit,
         notes |-> w.notes]

\* maybe_complete_campaign writes nothing but the campaign and the audit log.
LEMMA CompletingWrites ==
    ASSUME NEW w, IsWrites(w), NEW r, NEW camp, NEW rows
    PROVE  LET v == Completing(w, r, camp, rows)
           IN  /\ v.rows = w.rows /\ v.subs = w.subs /\ v.days = w.days
               /\ v.dispute = w.dispute /\ v.entries = w.entries
               /\ v.campaign = w.campaign \/ DOMAIN v.campaign = {r.c}
  <1> DEFINE v == Completing(w, r, camp, rows)
             x == At(r.c, MaybeCompleted(camp, rows))
             y == w.audit \cup CompletionAudit(r.by, r.c, camp, rows)
  <1>1. CASE CompletionDue(camp, rows)
    <2>1. v = [w EXCEPT !.campaign = x, !.audit = y]
      BY <1>1 DEF Completing, IsWrites
    <2>2. DOMAIN x = {r.c}
      BY OneKey
    <2> HIDE DEF v, x, y
    <2>3. v = [campaign |-> x, contract |-> w.contract, rows |-> w.rows, subs |-> w.subs,
               days |-> w.days, dispute |-> w.dispute, entries |-> w.entries, audit |-> y,
               notes |-> w.notes]
      BY <2>1 DEF IsWrites
    <2>4. v.campaign = x /\ v.rows = w.rows /\ v.subs = w.subs /\ v.days = w.days
          /\ v.dispute = w.dispute /\ v.entries = w.entries
      BY <2>3
    <2> QED
      BY <2>2, <2>4 DEF v
  <1>2. CASE ~CompletionDue(camp, rows)
    BY <1>2 DEF Completing
  <1> QED
    BY <1>1, <1>2

\* An entry of the ledger is new, or there is none.
LEMMA EntryNew ==
    ASSUME NEW s, NEW u, NEW delta, NEW key, NEW e \in Entry(s, u, delta, key)
    PROVE  e.user = u /\ e.key = key /\ ~PostedIn(s.ledger, e.key)
  BY DEF Entry, PostedIn

\* What an owner writes is guarded.
LEMMA OwnerGuarded ==
    ASSUME NEW r \in Requests, r.op \in OwnerOps, NEW h, NEW s, Done(r, h, s)
    PROVE  Guarded(r.c, h, s, OwnerWrites(r, s))
  <1> DEFINE c == r.c
             w == OwnerWrites(r, s)
  <1>1. CASE r.op = "launch"
    <2> DEFINE x == At(c, [DraftRow(r.by, r.target, r.reward) EXCEPT !.status = "published"])
               e == Entry(s, r.by, -PostingCost(r.target, r.reward), PostingKey(c))
    <2>1. w.campaign = x /\ w.rows = <<>> /\ w.subs = <<>> /\ w.days = <<>> /\ w.dispute = <<>>
          /\ w.entries = e
      BY <1>1 DEF OwnerWrites, Launching, NoWrites
    <2>2. DOMAIN x = {c}
      BY OneKey
    <2>3. \A f \in e : f.user = r.by /\ f.key = PostingKey(c) /\ ~PostedIn(s.ledger, f.key)
      BY EntryNew
    <2>4. CampaignRow(c) \subseteq h /\ AccountRow(r.by) \subseteq h /\ r.by \in Users
      BY <1>1, DoneHolds, RequestFields
    <2> HIDE DEF x, e, w
    <2> QED
      BY <2>1, <2>2, <2>3, <2>4, OneKey DEF Guarded, w
  <1>2. CASE r.op = "close"
    <2> DEFINE pending == Pending(s.rows)
               rows == [t \in pending |-> Cancelled(s.rows[t])]
    <2>1. /\ w.campaign = <<>> \/ DOMAIN w.campaign = {c}
          /\ w.rows = rows /\ w.subs = <<>> /\ w.days = <<>> /\ w.dispute = <<>> /\ w.entries = {}
      <3> DEFINE closed == [s.campaign EXCEPT !.status = "cancelled"]
                 x == At(c, closed)
                 y == {Audited(r.by, "assignment.declined", <<c, t>>) : t \in pending}
                        \cup {Audited(r.by, "campaign.closed", c)}
                 z == {Notified(t, "application_closed", c, t, 0) : t \in pending}
                 v == [NoWrites EXCEPT !.campaign = x, !.rows = rows, !.audit = y, !.notes = z]
      <3>1. w = Completing(v, r, closed, Closing(s.rows))
        BY <1>2 DEF OwnerWrites
      <3>2. DOMAIN x = {c}
        BY OneKey
      <3> HIDE DEF x, y, z, rows
      <3>3. v = [NoWrites EXCEPT !.campaign = x, !.rows = rows, !.audit = y, !.notes = z]
        OBVIOUS
      <3> HIDE DEF v
      <3>4. v = [campaign |-> x, contract |-> <<>>, rows |-> rows, subs |-> <<>>, days |-> <<>>,
                 dispute |-> <<>>, entries |-> {}, audit |-> y, notes |-> z]
        BY <3>3 DEF NoWrites
      <3>5. /\ IsWrites(v) /\ v.campaign = x /\ v.rows = rows /\ v.subs = <<>> /\ v.days = <<>>
            /\ v.dispute = <<>> /\ v.entries = {}
        BY <3>4 DEF IsWrites
      <3> HIDE DEF w, closed
      <3> QED
        BY <3>1, <3>2, <3>5, CompletingWrites
    <2>2. ASSUME NEW t \in pending
          PROVE  /\ t \in Users /\ s.rows[t].status = "applied"
                 /\ AssignmentRow(c, t) \subseteq h
                 /\ rows[t] \in Assignment /\ rows[t].status = "cancelled"
      <3>1. t \in Users /\ s.rows[t].status = "applied" /\ s.rows[t] \in Assignment
        BY DEF Pending, Done
      <3>2. AssignmentRow(c, t) \subseteq h
        BY <1>2, DoneHolds
      <3> QED
        BY <3>1, <3>2 DEF Cancelled, Assignment, AssignmentStatus
    <2>3. CampaignRow(c) \subseteq h
      BY <1>2, DoneHolds
    <2>4. DOMAIN rows = pending
      OBVIOUS
    <2> HIDE DEF pending, rows, w
    <2> QED
      BY <2>1, <2>2, <2>3, <2>4, OneKey DEF Guarded, w
  <1>3. CASE r.op \in {"accept", "decline"}
    <2> DEFINE row == IF r.op = "accept"
                      THEN [s.rows[r.t] EXCEPT !.status = "accepted", !.accepted_at = TRUE]
                      ELSE Cancelled(s.rows[r.t])
               x == At(r.t, row)
    <2>1. w.campaign = <<>> /\ w.rows = x /\ w.subs = <<>> /\ w.days = <<>> /\ w.dispute = <<>>
          /\ w.entries = {}
      BY <1>3 DEF OwnerWrites, NoWrites
    <2>2. /\ r.t \in Users /\ Worker(r) = r.t
          /\ AssignmentRow(c, r.t) \subseteq h /\ s.rows[r.t].status # "none"
      BY <1>3, DoneHolds, RequestFields DEF Worker, WorkOps, TesterOps
    <2>3. row \in Assignment /\ row.status \in {"accepted", "cancelled"}
      <3>1. s.rows[r.t] \in Assignment
        BY <2>2 DEF Done
      <3> QED
        BY <3>1 DEF Cancelled, Assignment, AssignmentStatus
    <2>4. DOMAIN x = {r.t} /\ x[r.t] = row
      <3> HIDE DEF row
      <3> QED
        BY OneKey
    <2> HIDE DEF row, x, w
    <2> QED
      BY <2>1, <2>2, <2>3, <2>4, OneKey DEF Guarded, w
  <1> QED
    BY <1>1, <1>2, <1>3 DEF OwnerOps

\* What a tester writes is guarded.
LEMMA TesterGuarded ==
    ASSUME NEW r \in Requests, r.op \in TesterOps, NEW h, NEW s, Done(r, h, s)
    PROVE  Guarded(r.c, h, s, TesterWrites(r, s))
  <1> DEFINE c == r.c
             t == r.by
             w == TesterWrites(r, s)
  <1>0. t \in Users /\ Worker(r) = t /\ s.rows[t] \in Assignment
    BY RequestFields DEF Worker, Done
  <1>1. CASE r.op = "apply"
    <2> DEFINE row == [s.rows[t] EXCEPT !.status = "applied"]
               x == At(t, row)
    <2>1. w.campaign = <<>> /\ w.rows = x /\ w.subs = <<>> /\ w.days = <<>> /\ w.dispute = <<>>
          /\ w.entries = {}
      BY <1>1 DEF TesterWrites, NoWrites
    <2>2. CampaignRow(c) \subseteq h /\ s.rows[t].status = "none"
      BY <1>1, DoneHolds
    <2>3. row \in Assignment /\ row.status = "applied"
      BY <1>0 DEF Assignment, AssignmentStatus
    <2>4. DOMAIN x = {t} /\ x[t] = row
      BY OneKey
    <2> HIDE DEF row, x, w
    <2> QED
      BY <1>0, <2>1, <2>2, <2>3, <2>4, OneKey DEF Guarded, w
  <1>2. CASE r.op = "withdraw"
    <2> DEFINE row == Cancelled(s.rows[t])
               x == At(t, row)
               owner == s.campaign.owner
               message == Notified(owner, "tester_withdrew", c, t, 0)
               seen == IF message \in s.withdrawals THEN s.rows ELSE Over(x, s.rows)
               events == {Audited(t, "assignment.withdrawn", <<c, t>>)}
               v == [NoWrites EXCEPT !.audit = events, !.notes = {message}, !.rows = x]
    <2>1. w = Completing(v, r, s.campaign, seen)
      <3>1. w = Completing([[NoWrites EXCEPT !.audit = events, !.notes = {message}] EXCEPT !.rows = x],
                           r, s.campaign, seen)
        BY <1>2 DEF TesterWrites
      <3> QED
        BY <3>1
    <2>2. /\ w.campaign = <<>> \/ DOMAIN w.campaign = {c}
          /\ w.rows = x /\ w.subs = <<>> /\ w.days = <<>> /\ w.dispute = <<>> /\ w.entries = {}
      <3> HIDE DEF x, message, events, seen
      <3> DEFINE notes == {message}
      <3> HIDE DEF notes
      <3>1. v = [NoWrites EXCEPT !.audit = events, !.notes = notes, !.rows = x]
        BY DEF notes
      <3> HIDE DEF v
      <3>2. v = [campaign |-> <<>>, contract |-> <<>>, rows |-> x, subs |-> <<>>, days |-> <<>>,
                 dispute |-> <<>>, entries |-> {}, audit |-> events, notes |-> notes]
        BY <3>1 DEF NoWrites
      <3>3. /\ IsWrites(v) /\ v.campaign = <<>> /\ v.rows = x /\ v.subs = <<>> /\ v.days = <<>>
            /\ v.dispute = <<>> /\ v.entries = {}
        BY <3>2 DEF IsWrites
      <3> HIDE DEF w
      <3> QED
        BY <2>1, <3>3, CompletingWrites
    <2>3. CampaignRow(c) \subseteq h /\ AssignmentRow(c, t) \subseteq h /\ s.rows[t].status # "none"
      BY <1>0, <1>2, DoneHolds DEF WorkOps
    <2>4. row \in Assignment /\ row.status = "cancelled"
      BY <1>0 DEF Cancelled, Assignment, AssignmentStatus
    <2>5. DOMAIN x = {t} /\ x[t] = row
      BY OneKey
    <2> HIDE DEF row, x, w
    <2> QED
      BY <1>0, <2>2, <2>3, <2>4, <2>5, OneKey DEF Guarded, w
  <1>3. CASE r.op = "session"
    <2> DEFINE x == At(t, s.days[t] \cup {s.now \div TicksPerDay})
    <2>1. w.campaign = <<>> /\ w.rows = <<>> /\ w.subs = <<>> /\ w.days = x /\ w.dispute = <<>>
          /\ w.entries = {}
      BY <1>3 DEF TesterWrites, NoWrites
    <2>2. AssignmentRow(c, t) \subseteq h
      BY <1>0, <1>3, DoneHolds DEF WorkOps
    <2>3. DOMAIN x = {t}
      BY OneKey
    <2> HIDE DEF x, w
    <2> QED
      BY <1>0, <2>1, <2>2, <2>3, OneKey DEF Guarded, w
  <1>4. CASE r.op = "submit"
    <2> DEFINE row == [s.rows[t] EXCEPT !.status = "submitted"]
               x == At(t, row)
               y == At(t, Append(s.subs[t], [status |-> "submitted", submitted_at |-> s.now,
                                             review |-> "none"]))
    <2>1. w.campaign = <<>> /\ w.rows = x /\ w.subs = y /\ w.days = <<>> /\ w.dispute = <<>>
          /\ w.entries = {}
      BY <1>4 DEF TesterWrites, NoWrites
    <2>2. AssignmentRow(c, t) \subseteq h /\ s.rows[t].status # "none"
      BY <1>0, <1>4, DoneHolds DEF WorkOps
    <2>3. row \in Assignment /\ row.status = "submitted"
      BY <1>0 DEF Assignment, AssignmentStatus
    <2>4. DOMAIN x = {t} /\ x[t] = row /\ DOMAIN y = {t}
      BY OneKey
    <2> HIDE DEF row, x, y, w
    <2> QED
      BY <1>0, <2>1, <2>2, <2>3, <2>4, OneKey DEF Guarded, w
  <1>5. CASE r.op = "escalate"
    <2> DEFINE row == [s.dispute[t] EXCEPT !.status = "open", !.version = r.v]
               x == At(t, row)
    <2>1. w.campaign = <<>> /\ w.rows = <<>> /\ w.subs = <<>> /\ w.days = <<>> /\ w.dispute = x
          /\ w.entries = {}
      BY <1>5 DEF TesterWrites, NoWrites
    <2>2. AssignmentRow(c, t) \subseteq h /\ s.dispute[t].status = "none" /\ r.v \in Nat
      BY <1>0, <1>5, DoneHolds, RequestFields DEF WorkOps
    <2>3. row \in Dispute /\ row.status = "open"
      BY <2>2, <1>0 DEF Done, Dispute, DisputeStatus
    <2>4. DOMAIN x = {t} /\ x[t] = row
      BY OneKey
    <2> HIDE DEF row, x, w
    <2> QED
      BY <1>0, <2>1, <2>2, <2>3, <2>4, OneKey DEF Guarded, w
  <1> QED
    BY <1>1, <1>2, <1>3, <1>4, <1>5 DEF TesterOps

\* What an approval writes besides w: the row, the reward, and the campaign when it is done.
LEMMA ApprovingWrites ==
    ASSUME NEW w, IsWrites(w), w.campaign = <<>>, NEW r, NEW s
    PROVE  LET v == Approving(w, r, s)
           IN  /\ v.campaign = <<>> \/ DOMAIN v.campaign = {r.c}
               /\ v.rows = At(r.t, ApprovedRow(s.rows[r.t]))
               /\ v.subs = w.subs /\ v.days = w.days /\ v.dispute = w.dispute
               /\ v.entries = Entry(s, r.t, s.campaign.reward, RewardKey(r.c, r.t))
  <1> DEFINE x == At(r.t, ApprovedRow(s.rows[r.t]))
             e == Entry(s, r.t, s.campaign.reward, RewardKey(r.c, r.t))
             u == [w EXCEPT !.rows = x, !.entries = e]
             v == Approving(w, r, s)
  <1>1. v = Completing(u, r, s.campaign, Over(x, s.rows))
    BY DEF Approving
  <1> HIDE DEF x, e
  <1>2. u = [w EXCEPT !.rows = x, !.entries = e]
    OBVIOUS
  <1> HIDE DEF u
  <1>3. u = [campaign |-> w.campaign, contract |-> w.contract, rows |-> x, subs |-> w.subs,
             days |-> w.days, dispute |-> w.dispute, entries |-> e, audit |-> w.audit,
             notes |-> w.notes]
    BY <1>2 DEF IsWrites
  <1>4. /\ IsWrites(u) /\ u.campaign = <<>> /\ u.rows = x /\ u.subs = w.subs /\ u.days = w.days
        /\ u.dispute = w.dispute /\ u.entries = e
    BY <1>3 DEF IsWrites
  <1> HIDE DEF v
  <1>5. /\ v.campaign = <<>> \/ DOMAIN v.campaign = {r.c}
        /\ v.rows = x /\ v.subs = w.subs /\ v.days = w.days /\ v.dispute = w.dispute
        /\ v.entries = e
    BY <1>1, <1>4, CompletingWrites
  <1> QED
    BY <1>5 DEF x, e, v

\* What a review writes is guarded.
LEMMA ReviewGuarded ==
    ASSUME NEW r \in Requests, r.op = "review", NEW h, NEW s, Done(r, h, s)
    PROVE  Guarded(r.c, h, s, ReviewWrites(r, s))
  <1> DEFINE c == r.c
             t == r.t
             w == ReviewWrites(r, s)
             subs == [s.subs[t] EXCEPT ![r.v].status = r.decision, ![r.v].review = r.decision]
             y == At(t, subs)
             row == [s.rows[t] EXCEPT !.status = r.decision]
             x == At(t, row)
             events == {Audited(r.by, ReviewAction[r.decision], <<r.c, t>>)}
             notes == {Notified(t, "submission_reviewed", r.c, t, r.v)}
             v == [NoWrites EXCEPT !.subs = y, !.rows = x, !.audit = events, !.notes = notes]
  <1>1. /\ t \in Users /\ Worker(r) = t /\ s.rows[t] \in Assignment /\ r.decision \in Decision
        /\ CampaignRow(c) \subseteq h /\ AssignmentRow(c, t) \subseteq h /\ s.rows[t].status # "none"
        /\ r.decision = "approved" => AccountRow(t) \subseteq h
    BY DoneHolds, RequestFields DEF Worker, WorkOps, TesterOps, Done
  <1>2. w = IF r.decision = "approved" THEN Approving(v, r, s) ELSE v
    BY DEF ReviewWrites
  <1>3. DOMAIN y = {t} /\ DOMAIN x = {t} /\ x[t] = row
    <2> HIDE DEF subs, row
    <2> QED
      BY OneKey
  <1>4. row \in Assignment /\ row.status = r.decision
    BY <1>1 DEF Assignment, AssignmentStatus, Decision
  <1> HIDE DEF x, y, events, notes
  <1>5. /\ IsWrites(v) /\ v.campaign = <<>> /\ v.rows = x /\ v.subs = y /\ v.days = <<>>
        /\ v.dispute = <<>> /\ v.entries = {}
    <2>1. v = [NoWrites EXCEPT !.subs = y, !.rows = x, !.audit = events, !.notes = notes]
      OBVIOUS
    <2> HIDE DEF v
    <2>2. v = [campaign |-> <<>>, contract |-> <<>>, rows |-> x, subs |-> y, days |-> <<>>,
               dispute |-> <<>>, entries |-> {}, audit |-> events, notes |-> notes]
      BY <2>1 DEF NoWrites
    <2> QED
      BY <2>2 DEF IsWrites
  <1> HIDE DEF v
  <1>6. CASE r.decision = "approved"
    <2> DEFINE paid == ApprovedRow(s.rows[t])
               z == At(t, paid)
               e == Entry(s, t, s.campaign.reward, RewardKey(c, t))
    <2>1. /\ w.campaign = <<>> \/ DOMAIN w.campaign = {c}
          /\ w.rows = z /\ w.subs = y /\ w.days = <<>> /\ w.dispute = <<>> /\ w.entries = e
      <3> HIDE DEF w
      <3> QED
        BY <1>2, <1>5, <1>6, ApprovingWrites
    <2>2. paid \in Assignment /\ paid.status = "approved"
      BY <1>1 DEF ApprovedRow, Assignment, AssignmentStatus
    <2>3. DOMAIN z = {t} /\ z[t] = paid
      BY OneKey
    <2>4. \A f \in e : f.user = t /\ f.key = RewardKey(c, t) /\ ~PostedIn(s.ledger, f.key)
      BY EntryNew
    <2> HIDE DEF w, paid, z, e
    <2> QED
      BY <1>1, <1>3, <1>6, <2>1, <2>2, <2>3, <2>4, OneKey DEF Guarded, w
  <1>7. CASE r.decision # "approved"
    <2>1. w = v
      BY <1>2, <1>7
    <2>2. r.decision # "none" /\ r.decision # "applied"
      BY <1>1 DEF Decision
    <2> HIDE DEF w, row
    <2> QED
      BY <1>1, <1>3, <1>4, <1>5, <2>1, <2>2, OneKey DEF Guarded, w
  <1> QED
    BY <1>6, <1>7

\* What a moderator writes is guarded.
LEMMA ModeratorGuarded ==
    ASSUME NEW r \in Requests, r.op \in ModeratorOps, NEW h, NEW s, Done(r, h, s)
    PROVE  Guarded(r.c, h, s, ModeratorWrites(r, s))
  <1> DEFINE c == r.c
             t == r.t
             d == s.dispute[t]
             w == ModeratorWrites(r, s)
  <1>0. /\ t \in Users /\ r.by \in Users /\ Worker(r) = t /\ s.rows[t] \in Assignment
        /\ DisputeRow(c, t) \subseteq h /\ d \in Dispute /\ d.status # "none"
    BY DoneHolds, RequestFields DEF Worker, ModeratorOps, TesterOps, Done
  <1>1. CASE r.op = "claim"
    <2> DEFINE row == [d EXCEPT !.status = "under_review", !.assigned_to = r.by]
               x == At(t, row)
    <2>1. w.campaign = <<>> /\ w.rows = <<>> /\ w.subs = <<>> /\ w.days = <<>> /\ w.dispute = x
          /\ w.entries = {}
      BY <1>1 DEF ModeratorWrites, NoWrites
    <2>2. row \in Dispute /\ row.status = "under_review"
      BY <1>0 DEF Dispute, DisputeStatus
    <2>3. DOMAIN x = {t} /\ x[t] = row
      <3> HIDE DEF row
      <3> QED
        BY OneKey
    <2> HIDE DEF row, x, w
    <2> QED
      BY <1>0, <2>1, <2>2, <2>3, OneKey DEF Guarded, w
  <1>2. ASSUME NEW outcome \in {"resolved", "rejected"}, NEW remedy \in Remedy
        PROVE  LET row == [d EXCEPT !.status = outcome, !.remedy = remedy]
               IN  /\ row \in Dispute /\ row.status = outcome
                   /\ DOMAIN At(t, row) = {t} /\ At(t, row)[t] = row
    <2> DEFINE row == [d EXCEPT !.status = outcome, !.remedy = remedy]
    <2>1. row \in Dispute /\ row.status = outcome
      BY <1>0 DEF Dispute, DisputeStatus
    <2> HIDE DEF row
    <2>2. DOMAIN At(t, row) = {t} /\ At(t, row)[t] = row
      BY OneKey
    <2> QED
      BY <2>1, <2>2 DEF row
  <1>3. CASE r.op = "dismiss"
    <2> DEFINE row == [d EXCEPT !.status = r.outcome, !.remedy = "none"]
               x == At(t, row)
    <2>1. w.campaign = <<>> /\ w.rows = <<>> /\ w.subs = <<>> /\ w.days = <<>> /\ w.dispute = x
          /\ w.entries = {}
      BY <1>3 DEF ModeratorWrites, NoWrites
    <2>2. row \in Dispute /\ row.status \in {"resolved", "rejected"} /\ DOMAIN x = {t} /\ x[t] = row
      BY <1>2, <1>3, RequestFields DEF Remedy
    <2> HIDE DEF row, x, w
    <2> QED
      BY <1>0, <2>1, <2>2, OneKey DEF Guarded, w
  <1>4. CASE r.op = "reject"
    <2> DEFINE row == [d EXCEPT !.status = "rejected", !.remedy = "none"]
               x == At(t, row)
               work == [s.rows[t] EXCEPT !.status = "rejected", !.completed_at = TRUE]
               y == At(t, work)
               z == At(t, [s.subs[t] EXCEPT ![d.version].status = "rejected"])
    <2>1. w.campaign = <<>> /\ w.rows = y /\ w.subs = z /\ w.days = <<>> /\ w.dispute = x
          /\ w.entries = {}
      BY <1>4 DEF ModeratorWrites, NoWrites
    <2>2. row \in Dispute /\ row.status = "rejected" /\ DOMAIN x = {t} /\ x[t] = row
      BY <1>2 DEF Remedy
    <2>3. work \in Assignment /\ work.status = "rejected"
      BY <1>0 DEF Assignment, AssignmentStatus
    <2>4. DOMAIN y = {t} /\ y[t] = work /\ DOMAIN z = {t}
      <3> HIDE DEF work
      <3> QED
        BY OneKey
    <2>5. AssignmentRow(c, t) \subseteq h /\ s.rows[t].status # "none"
      BY <1>0, <1>4, DoneHolds DEF WorkOps
    <2> HIDE DEF row, x, y, z, work, w
    <2> QED
      BY <1>0, <2>1, <2>2, <2>3, <2>4, <2>5, OneKey DEF Guarded, w
  <1>5. CASE r.op = "award"
    <2> DEFINE row == [d EXCEPT !.status = "resolved", !.remedy = "award_tester"]
               x == At(t, row)
               paid == ApprovedRow(s.rows[t])
               y == At(t, paid)
               z == At(t, [s.subs[t] EXCEPT ![d.version].status = "approved"])
               e == Entry(s, t, s.campaign.reward, RewardKey(c, t))
               events == {Audited(r.by, Verdict["resolved"], <<r.c, t>>)}
               notes == {Notified(u, "dispute_resolved", r.c, t, 0) : u \in {t, s.campaign.owner}}
               v == [NoWrites EXCEPT !.dispute = x, !.audit = events, !.notes = notes, !.subs = z]
    <2>1. w = Approving(v, r, s)
      <3>1. w = Approving([[NoWrites EXCEPT !.dispute = x, !.audit = events, !.notes = notes]
                             EXCEPT !.subs = z], r, s)
        BY <1>5 DEF ModeratorWrites
      <3> QED
        BY <3>1
    <2>2. row \in Dispute /\ row.status = "resolved" /\ DOMAIN x = {t} /\ x[t] = row
      BY <1>2 DEF Remedy
    <2>3. paid \in Assignment /\ paid.status = "approved"
      BY <1>0 DEF ApprovedRow, Assignment, AssignmentStatus
    <2>4. DOMAIN y = {t} /\ y[t] = paid /\ DOMAIN z = {t}
      <3> HIDE DEF paid
      <3> QED
        BY OneKey
    <2>5. /\ AssignmentRow(c, t) \subseteq h /\ s.rows[t].status # "none"
          /\ CampaignRow(c) \subseteq h /\ AccountRow(t) \subseteq h
      BY <1>0, <1>5, DoneHolds DEF WorkOps
    <2>6. \A f \in e : f.user = t /\ f.key = RewardKey(c, t) /\ ~PostedIn(s.ledger, f.key)
      BY EntryNew
    <2> HIDE DEF x, z, events, notes
    <2>7. /\ IsWrites(v) /\ v.campaign = <<>> /\ v.subs = z /\ v.days = <<>> /\ v.dispute = x
      <3>1. v = [NoWrites EXCEPT !.dispute = x, !.audit = events, !.notes = notes, !.subs = z]
        OBVIOUS
      <3> HIDE DEF v
      <3>2. v = [campaign |-> <<>>, contract |-> <<>>, rows |-> <<>>, subs |-> z, days |-> <<>>,
                 dispute |-> x, entries |-> {}, audit |-> events, notes |-> notes]
        BY <3>1 DEF NoWrites
      <3> QED
        BY <3>2 DEF IsWrites
    <2> HIDE DEF v
    <2>8. /\ w.campaign = <<>> \/ DOMAIN w.campaign = {c}
          /\ w.rows = y /\ w.subs = z /\ w.days = <<>> /\ w.dispute = x /\ w.entries = e
      <3> HIDE DEF w
      <3> QED
        BY <2>1, <2>7, ApprovingWrites
    <2> HIDE DEF row, paid, y, e, w
    <2> QED
      BY <1>0, <2>2, <2>3, <2>4, <2>5, <2>6, <2>8, OneKey DEF Guarded, w
  <1> QED
    BY <1>1, <1>3, <1>4, <1>5 DEF ModeratorOps

\* Whatever a request writes is guarded.
LEMMA WritesGuarded ==
    ASSUME NEW r \in Requests, NEW h, NEW s, Done(r, h, s)
    PROVE  Guarded(r.c, h, s, Writes(r, s))
  <1>1. CASE r.op \in OwnerOps
    <2>1. Writes(r, s) = OwnerWrites(r, s)
      BY <1>1 DEF Writes, OwnerOps, TesterOps, ModeratorOps
    <2> QED
      BY <1>1, <2>1, OwnerGuarded
  <1>2. CASE r.op \in TesterOps
    <2>1. Writes(r, s) = TesterWrites(r, s)
      BY <1>2 DEF Writes, OwnerOps, TesterOps, ModeratorOps
    <2> QED
      BY <1>2, <2>1, TesterGuarded
  <1>3. CASE r.op = "review"
    <2>1. Writes(r, s) = ReviewWrites(r, s)
      BY <1>3 DEF Writes, OwnerOps, TesterOps, ModeratorOps
    <2> QED
      BY <1>3, <2>1, ReviewGuarded
  <1>4. CASE r.op \in ModeratorOps
    <2>1. Writes(r, s) = ModeratorWrites(r, s)
      BY <1>4 DEF Writes, OwnerOps, TesterOps, ModeratorOps
    <2> QED
      BY <1>4, <2>1, ModeratorGuarded
  <1> QED
    BY <1>1, <1>2, <1>3, <1>4, RequestAssumption

-----------------------------------------------------------------------------
(* What a commit does to the others *)

\* The tables after the commit of w, computed from what was read as s.
Applied(c, s, w, db, later) ==
    /\ later.campaign = Over(w.campaign, db.campaign)
    /\ later.assignment = [db.assignment EXCEPT ![c] = Over(w.rows, @)]
    /\ later.submissions = [db.submissions EXCEPT ![c] = Over(w.subs, @)]
    /\ later.sessions = [db.sessions EXCEPT ![c] = Over(w.days, @)]
    /\ later.dispute = [db.dispute EXCEPT ![c] = Over(w.dispute, @)]
    /\ later.balance = [u \in Users |-> IF \E e \in w.entries : e.user = u
                                        THEN s.balance[u] + (CHOOSE e \in w.entries : TRUE).delta
                                        ELSE db.balance[u]]
    /\ later.ledger = db.ledger \cup w.entries

\* A table with some rows of a campaign written over.
Overwritten(c, table, rows) == [table EXCEPT ![c] = Over(rows, @)]

\* It has these rows.
LEMMA OverRows ==
    ASSUME NEW c \in Campaigns, NEW table, ByWorker(table),
           NEW rows, DOMAIN rows \subseteq Users,
           NEW later, later = Overwritten(c, table, rows)
    PROVE  /\ ByWorker(later)
           /\ \A d \in Campaigns, t \in Users :
                later[d][t] = IF d = c /\ t \in DOMAIN rows THEN rows[t] ELSE table[d][t]
  <1>0. table = [d \in Campaigns |-> [t \in Users |-> table[d][t]]]
    BY DEF ByWorker
  <1>1. table[c] = [t \in Users |-> table[c][t]] /\ DOMAIN table = Campaigns
    BY <1>0
  <1>2. Over(rows, table[c]) = [t \in Users |-> IF t \in DOMAIN rows THEN rows[t] ELSE table[c][t]]
    <2>1. DOMAIN table[c] = Users
      BY <1>1
    <2>2. DOMAIN rows \cup Users = Users
      OBVIOUS
    <2> QED
      BY <2>1, <2>2 DEF Over
  <1>3. later = [d \in Campaigns |-> IF d = c THEN Over(rows, table[c]) ELSE table[d]]
    BY <1>1 DEF Overwritten
  <1>4. ASSUME NEW d \in Campaigns, NEW t \in Users
        PROVE  later[d][t] = IF d = c /\ t \in DOMAIN rows THEN rows[t] ELSE table[d][t]
    BY <1>2, <1>3
  <1>5. ASSUME NEW d \in Campaigns
        PROVE  later[d] = [t \in Users |-> later[d][t]]
    <2>1. CASE d = c
      BY <2>1, <1>2, <1>3
    <2>2. CASE d # c
      <3>1. later[d] = table[d]
        BY <2>2, <1>3
      <3>2. table[d] = [t \in Users |-> table[d][t]]
        BY <1>0
      <3> QED
        BY <3>1, <3>2
    <2> QED
      BY <2>1, <2>2
  <1>6. later = [d \in Campaigns |-> later[d]]
    BY <1>3
  <1>7. ByWorker(later)
    BY <1>5, <1>6 DEF ByWorker
  <1> QED
    BY <1>4, <1>7

\* The tables after a commit, cell by cell.
LEMMA AppliedCells ==
    ASSUME NEW c \in Campaigns, NEW h, NEW s, NEW w, NEW db, NEW later,
           Shaped(db), Guarded(c, h, s, w), Applied(c, s, w, db, later)
    PROVE  /\ \A d \in Campaigns :
                later.campaign[d] = db.campaign[d] \/ (d = c /\ CampaignRow(c) \subseteq h)
           /\ \A d \in Campaigns, t \in Users :
                /\ later.assignment[d][t] =
                     IF d = c /\ t \in DOMAIN w.rows THEN w.rows[t] ELSE db.assignment[d][t]
                /\ later.submissions[d][t] =
                     IF d = c /\ t \in DOMAIN w.subs THEN w.subs[t] ELSE db.submissions[d][t]
                /\ later.sessions[d][t] =
                     IF d = c /\ t \in DOMAIN w.days THEN w.days[t] ELSE db.sessions[d][t]
                /\ later.dispute[d][t] =
                     IF d = c /\ t \in DOMAIN w.dispute THEN w.dispute[t] ELSE db.dispute[d][t]
           /\ Shaped(later)
  <1>1. DOMAIN w.campaign \subseteq {c} /\ (DOMAIN w.campaign # {} => CampaignRow(c) \subseteq h)
    BY DEF Guarded
  <1>2. DOMAIN db.campaign = Campaigns
    BY DEF Shaped
  <1>3. later.campaign =
          [d \in Campaigns |-> IF d \in DOMAIN w.campaign THEN w.campaign[d] ELSE db.campaign[d]]
    <2>1. DOMAIN w.campaign \cup DOMAIN db.campaign = Campaigns
      BY <1>1, <1>2
    <2> QED
      BY <2>1 DEF Applied, Over
  <1>4. /\ DOMAIN w.rows \subseteq Users /\ DOMAIN w.subs \subseteq Users
        /\ DOMAIN w.days \subseteq Users /\ DOMAIN w.dispute \subseteq Users
        /\ \A t \in DOMAIN w.rows : w.rows[t] \in Assignment
        /\ \A t \in DOMAIN w.dispute : w.dispute[t] \in Dispute
    BY DEF Guarded
  <1>5. /\ ByWorker(db.assignment) /\ ByWorker(db.dispute)
        /\ \A d \in Campaigns, t \in Users :
             db.assignment[d][t] \in Assignment /\ db.dispute[d][t] \in Dispute
    BY DEF Shaped, ByWorker
  <1>6. /\ ByWorker(later.assignment)
        /\ \A d \in Campaigns, t \in Users : later.assignment[d][t] =
             IF d = c /\ t \in DOMAIN w.rows THEN w.rows[t] ELSE db.assignment[d][t]
    <2>1. later.assignment = Overwritten(c, db.assignment, w.rows)
      BY DEF Applied, Overwritten
    <2>2. ByWorker(db.assignment)
      BY <1>5 DEF Shaped
    <2> QED
      BY <1>4, <2>1, <2>2, OverRows
  <1>7. /\ ByWorker(later.dispute)
        /\ \A d \in Campaigns, t \in Users : later.dispute[d][t] =
             IF d = c /\ t \in DOMAIN w.dispute THEN w.dispute[t] ELSE db.dispute[d][t]
    <2>1. later.dispute = Overwritten(c, db.dispute, w.dispute)
      BY DEF Applied, Overwritten
    <2>2. ByWorker(db.dispute)
      BY <1>5 DEF Shaped
    <2> QED
      BY <1>4, <2>1, <2>2, OverRows
  <1>8. /\ ByWorker(later.submissions)
        /\ \A d \in Campaigns, t \in Users : later.submissions[d][t] =
             IF d = c /\ t \in DOMAIN w.subs THEN w.subs[t] ELSE db.submissions[d][t]
    <2>1. later.submissions = Overwritten(c, db.submissions, w.subs)
      BY DEF Applied, Overwritten
    <2>2. ByWorker(db.submissions)
      BY <1>5 DEF Shaped
    <2> QED
      BY <1>4, <2>1, <2>2, OverRows
  <1>9. /\ ByWorker(later.sessions)
        /\ \A d \in Campaigns, t \in Users : later.sessions[d][t] =
             IF d = c /\ t \in DOMAIN w.days THEN w.days[t] ELSE db.sessions[d][t]
    <2>1. later.sessions = Overwritten(c, db.sessions, w.days)
      BY DEF Applied, Overwritten
    <2>2. ByWorker(db.sessions)
      BY <1>5 DEF Shaped
    <2> QED
      BY <1>4, <2>1, <2>2, OverRows
  <1>10. ASSUME NEW d \in Campaigns, NEW t \in Users
         PROVE  later.assignment[d][t] \in Assignment /\ later.dispute[d][t] \in Dispute
    BY <1>4, <1>5, <1>6, <1>7
  <1>11. /\ later.assignment \in [Campaigns -> [Users -> Assignment]]
         /\ later.dispute \in [Campaigns -> [Users -> Dispute]]
    BY <1>6, <1>7, <1>10 DEF ByWorker
  <1>12. later.campaign = [d \in Campaigns |-> later.campaign[d]]
    BY <1>3
  <1>13. \A d \in Campaigns : later.campaign[d] = db.campaign[d] \/ (d = c /\ CampaignRow(c) \subseteq h)
    BY <1>1, <1>3
  <1>14. Shaped(later)
    BY <1>8, <1>9, <1>11, <1>12 DEF Shaped
  <1> QED
    BY <1>6, <1>7, <1>8, <1>9, <1>13, <1>14

\* Rows are held by somebody else or not at all.
LEMMA RowsApart ==
    ASSUME NEW h, NEW g, h \cap g = {}
    PROVE  /\ \A c : ~(CampaignRow(c) \subseteq h /\ CampaignRow(c) \subseteq g)
           /\ \A c, t : ~(AssignmentRow(c, t) \subseteq h /\ AssignmentRow(c, t) \subseteq g)
           /\ \A c, t : ~(DisputeRow(c, t) \subseteq h /\ DisputeRow(c, t) \subseteq g)
           /\ \A u : ~(AccountRow(u) \subseteq h /\ AccountRow(u) \subseteq g)
  BY DEF CampaignRow, AssignmentRow, DisputeRow, AccountRow

\* A commit touches nothing that another request guards with the rows of g.
LEMMA CommitUntouched ==
    ASSUME NEW c \in Campaigns, NEW h, NEW s, NEW w, NEW db, NEW later, NEW g, h \cap g = {},
           Shaped(db), Guarded(c, h, s, w), Fresh(c, h, s, db), Applied(c, s, w, db, later)
    PROVE  Untouched(g, db, later)
  <1>1. ASSUME NEW t \in DOMAIN w.rows
        PROVE  /\ db.assignment[c][t] = s.rows[t] /\ w.rows[t].status # "none"
               /\ w.rows[t].status = "applied" => CampaignRow(c) \subseteq h
               /\ \/ AssignmentRow(c, t) \subseteq h /\ s.rows[t].status # "none"
                  \/ CampaignRow(c) \subseteq h /\ s.rows[t].status = "none"
    BY DEF Guarded, Fresh
  <1>2. ASSUME NEW t \in DOMAIN w.dispute
        PROVE  /\ db.dispute[c][t] = s.dispute[t] /\ w.dispute[t].status # "none"
               /\ \/ DisputeRow(c, t) \subseteq h /\ s.dispute[t].status # "none"
                  \/ AssignmentRow(c, t) \subseteq h /\ s.dispute[t].status = "none"
    BY DEF Guarded, Fresh
  <1>3. \A t \in DOMAIN w.subs \cup DOMAIN w.days : AssignmentRow(c, t) \subseteq h
    BY DEF Guarded
  <1>4. \A e \in w.entries :
          /\ AccountRow(e.user) \subseteq h
          /\ \/ CampaignRow(c) \subseteq h /\ e.key = PostingKey(c)
             \/ \E t \in Users : AssignmentRow(c, t) \subseteq h /\ e.key = RewardKey(c, t)
    BY DEF Guarded
  <1>5. /\ later.ledger = db.ledger \cup w.entries
        /\ \A u \in Users : (\A e \in w.entries : e.user # u) => later.balance[u] = db.balance[u]
    BY DEF Applied
  <1>6. /\ \A d1, d2 : PostingKey(d1) = PostingKey(d2) => d1 = d2
        /\ \A d1, d2, t1, t2 : RewardKey(d1, t1) = RewardKey(d2, t2) => d1 = d2 /\ t1 = t2
        /\ \A d1, d2, t : PostingKey(d1) # RewardKey(d2, t)
    BY DEF PostingKey, RewardKey
  <1>7. ASSUME NEW d \in Campaigns, CampaignRow(d) \subseteq g
        PROVE  /\ later.campaign[d] = db.campaign[d]
               /\ PostedIn(later.ledger, PostingKey(d)) => PostedIn(db.ledger, PostingKey(d))
               /\ \A t \in Users :
                    /\ db.assignment[d][t].status = "none" =>
                         later.assignment[d][t] = db.assignment[d][t]
                    /\ later.assignment[d][t].status = "applied" =>
                         db.assignment[d][t].status = "applied"
    <2>1. ~(d = c /\ CampaignRow(c) \subseteq h)
      BY <1>7, RowsApart
    <2>2. later.campaign[d] = db.campaign[d]
      BY <2>1, AppliedCells
    <2>3. PostedIn(later.ledger, PostingKey(d)) => PostedIn(db.ledger, PostingKey(d))
      BY <1>4, <1>5, <1>6, <2>1 DEF PostedIn
    <2>4. \A t \in Users : later.assignment[d][t] =
             IF d = c /\ t \in DOMAIN w.rows THEN w.rows[t] ELSE db.assignment[d][t]
      BY AppliedCells
    <2> QED
      BY <1>1, <2>1, <2>2, <2>3, <2>4
  <1>8. ASSUME NEW d \in Campaigns, NEW t \in Users, AssignmentRow(d, t) \subseteq g
        PROVE  /\ later.submissions[d][t] = db.submissions[d][t]
               /\ later.sessions[d][t] = db.sessions[d][t]
               /\ db.assignment[d][t].status # "none" => later.assignment[d][t] = db.assignment[d][t]
               /\ db.dispute[d][t].status = "none" => later.dispute[d][t] = db.dispute[d][t]
               /\ PostedIn(later.ledger, RewardKey(d, t)) => PostedIn(db.ledger, RewardKey(d, t))
    <2>1. ~(d = c /\ AssignmentRow(c, t) \subseteq h)
      BY <1>8, RowsApart
    <2>2. /\ later.assignment[d][t] =
               IF d = c /\ t \in DOMAIN w.rows THEN w.rows[t] ELSE db.assignment[d][t]
          /\ later.submissions[d][t] =
               IF d = c /\ t \in DOMAIN w.subs THEN w.subs[t] ELSE db.submissions[d][t]
          /\ later.sessions[d][t] =
               IF d = c /\ t \in DOMAIN w.days THEN w.days[t] ELSE db.sessions[d][t]
          /\ later.dispute[d][t] =
               IF d = c /\ t \in DOMAIN w.dispute THEN w.dispute[t] ELSE db.dispute[d][t]
      BY AppliedCells
    <2>3. PostedIn(later.ledger, RewardKey(d, t)) => PostedIn(db.ledger, RewardKey(d, t))
      BY <1>4, <1>5, <1>6, <2>1 DEF PostedIn
    <2> QED
      BY <1>1, <1>2, <1>3, <2>1, <2>2, <2>3
  <1>9. ASSUME NEW d \in Campaigns, NEW t \in Users, DisputeRow(d, t) \subseteq g,
               db.dispute[d][t].status # "none"
        PROVE  later.dispute[d][t] = db.dispute[d][t]
    <2>1. ~(d = c /\ DisputeRow(c, t) \subseteq h)
      BY <1>9, RowsApart
    <2>2. later.dispute[d][t] =
            IF d = c /\ t \in DOMAIN w.dispute THEN w.dispute[t] ELSE db.dispute[d][t]
      BY AppliedCells
    <2> QED
      BY <1>2, <1>9, <2>1, <2>2
  <1>10. ASSUME NEW u \in Users, AccountRow(u) \subseteq g
         PROVE  later.balance[u] = db.balance[u]
    <2>1. ~(AccountRow(u) \subseteq h)
      BY <1>10, RowsApart
    <2> QED
      BY <1>4, <1>5, <2>1
  <1>11. ASSUME NEW d \in Campaigns, NEW t \in Users
         PROVE  /\ db.assignment[d][t].status # "none" => later.assignment[d][t].status # "none"
                /\ db.dispute[d][t].status # "none" => later.dispute[d][t].status # "none"
    <2>1. /\ later.assignment[d][t] =
               IF d = c /\ t \in DOMAIN w.rows THEN w.rows[t] ELSE db.assignment[d][t]
          /\ later.dispute[d][t] =
               IF d = c /\ t \in DOMAIN w.dispute THEN w.dispute[t] ELSE db.dispute[d][t]
      BY AppliedCells
    <2> QED
      BY <1>1, <1>2, <2>1
  <1> QED
    BY <1>7, <1>8, <1>9, <1>10, <1>11 DEF Untouched

\* What the commit of a thread does to the tables.
LEMMA CommitApplied ==
    ASSUME NEW th \in Threads, Commit(th)
    PROVE  Applied(tx[th].request.c, tx[th].read, Writes(tx[th].request, tx[th].read), Tables, Tables')
  <1> DEFINE c == tx[th].request.c
             s == tx[th].read
             w == Writes(tx[th].request, s)
  <1>1. /\ campaign' = Over(w.campaign, campaign)
        /\ assignment' = [assignment EXCEPT ![c] = Over(w.rows, @)]
        /\ submissions' = [submissions EXCEPT ![c] = Over(w.subs, @)]
        /\ sessions' = [sessions EXCEPT ![c] = Over(w.days, @)]
        /\ dispute' = [dispute EXCEPT ![c] = Over(w.dispute, @)]
        /\ balance' = [u \in Users |-> IF \E e \in w.entries : e.user = u
                                       THEN s.balance[u] + (CHOOSE e \in w.entries : TRUE).delta
                                       ELSE balance[u]]
        /\ ledger' = ledger \cup w.entries
    BY DEF Commit, Written, Writing, Tables
  <1>2. /\ Tables.campaign = campaign /\ Tables.assignment = assignment
        /\ Tables.submissions = submissions /\ Tables.sessions = sessions
        /\ Tables.dispute = dispute /\ Tables.balance = balance /\ Tables.ledger = ledger
        /\ Tables'.campaign = campaign' /\ Tables'.assignment = assignment'
        /\ Tables'.submissions = submissions' /\ Tables'.sessions = sessions'
        /\ Tables'.dispute = dispute' /\ Tables'.balance = balance' /\ Tables'.ledger = ledger'
    BY DEF Tables
  <1> HIDE DEF c, s, w
  <1>3. Applied(c, s, w, Tables, Tables')
    BY <1>1, <1>2 DEF Applied
  <1> QED
    BY <1>3 DEF c, s, w

\* A start, whose update waits for the row, touches nothing that a request guards.
LEMMA StartUntouched ==
    ASSUME NEW t \in Users, NEW c \in Campaigns, StartAssignment(t, c), now \in Nat,
           Shaped(Tables)
    PROVE  /\ Shaped(Tables')
           /\ \A g : AssignmentRow(c, t) \cap g = {} => Untouched(g, Tables, Tables')
  <1> DEFINE row == [assignment[c][t] EXCEPT !.status = "in_progress", !.started_at = now]
             days == sessions[c][t] \cup {Today}
  <1>1. /\ Tables.campaign = campaign /\ Tables.assignment = assignment
        /\ Tables.submissions = submissions /\ Tables.sessions = sessions
        /\ Tables.dispute = dispute /\ Tables.balance = balance /\ Tables.ledger = ledger
        /\ Tables'.campaign = campaign /\ Tables'.assignment = assignment'
        /\ Tables'.submissions = submissions /\ Tables'.sessions = sessions'
        /\ Tables'.dispute = dispute /\ Tables'.balance = balance /\ Tables'.ledger = ledger
    BY DEF Tables, StartAssignment, campaignVars, creditVars
  <1>2. /\ assignment \in [Campaigns -> [Users -> Assignment]] /\ ByWorker(sessions)
        /\ assignment[c][t] \in Assignment /\ assignment[c][t].status = "accepted"
    BY <1>1 DEF Shaped, StartAssignment, Row
  <1>3. row \in Assignment /\ row.status = "in_progress"
    BY <1>2 DEF Assignment, AssignmentStatus, Null
  <1>4. /\ assignment' = [assignment EXCEPT ![c][t] = row]
        /\ sessions' = [sessions EXCEPT ![c][t] = days]
    BY DEF StartAssignment, Put, Row
  <1> HIDE DEF row, days
  <1>5. /\ assignment' \in [Campaigns -> [Users -> Assignment]]
        /\ \A d \in Campaigns, u \in Users :
             assignment'[d][u] = IF d = c /\ u = t THEN row ELSE assignment[d][u]
    BY <1>2, <1>3, <1>4
  <1>6. /\ ByWorker(sessions')
        /\ \A d \in Campaigns, u \in Users :
             sessions'[d][u] = IF d = c /\ u = t THEN days ELSE sessions[d][u]
    <2>1. sessions = [d \in Campaigns |-> [u \in Users |-> sessions[d][u]]]
      BY <1>2 DEF ByWorker
    <2>2. sessions' = [d \in Campaigns |->
                         [u \in Users |-> IF d = c /\ u = t THEN days ELSE sessions[d][u]]]
      BY <1>4, <2>1
    <2> QED
      BY <2>2 DEF ByWorker
  <1>7. Shaped(Tables')
    BY <1>1, <1>5, <1>6 DEF Shaped
  <1>8. ASSUME NEW g, AssignmentRow(c, t) \cap g = {}
        PROVE  Untouched(g, Tables, Tables')
    <2>1. ~(AssignmentRow(c, t) \subseteq g)
      BY <1>8 DEF AssignmentRow
    <2>2. ASSUME NEW d \in Campaigns, NEW u \in Users
          PROVE  /\ assignment'[d][u] = assignment[d][u]
                    \/ /\ d = c /\ u = t
                       /\ assignment[d][u].status = "accepted"
                       /\ assignment'[d][u].status = "in_progress"
                 /\ sessions'[d][u] = sessions[d][u] \/ (d = c /\ u = t)
      BY <1>2, <1>3, <1>5, <1>6
    <2> QED
      BY <1>1, <2>1, <2>2 DEF Untouched
  <1> QED
    BY <1>7, <1>8

-----------------------------------------------------------------------------
(* No lost update *)

\* The inductive invariant.
ReadInv ==
    /\ LockInv
    /\ now \in Nat
    /\ Shaped(Tables)
    /\ \A th \in Busy : Informed(tx[th], Tables)

\* Nobody has read anything at the start.
LEMMA ReadInit == TxInit => ReadInv
  <1> SUFFICES ASSUME TxInit
               PROVE  ReadInv
    OBVIOUS
  <1>1. LockInv /\ Busy = {}
    BY LockInit DEF TxInit, Busy
  <1>2. NoAssignment \in Assignment /\ NoDispute \in Dispute
    BY DEF NoAssignment, Assignment, AssignmentStatus, NoDispute, Dispute, DisputeStatus, Remedy,
       Null
  <1>3. /\ campaign = [c \in Campaigns |-> campaign[c]]
        /\ assignment \in [Campaigns -> [Users -> Assignment]]
        /\ ByWorker(submissions) /\ ByWorker(sessions)
        /\ dispute \in [Campaigns -> [Users -> Dispute]]
        /\ now \in Nat
    BY <1>2 DEF TxInit, Init, ByWorker
  <1>4. Shaped(Tables)
    BY <1>3 DEF Shaped, Tables
  <1> QED
    BY <1>1, <1>3, <1>4 DEF ReadInv

\* A step that leaves the tables alone touches nothing.
LEMMA UntouchedSame == \A h, db : Untouched(h, db, db)
  BY DEF Untouched

\* A thread takes one more select or comes to its end, and touches nothing of the others.
LEMMA InformedTaken ==
    ASSUME ReadInv, LockInv', now' \in Nat, Shaped(Tables'),
           NEW th \in Threads, NEW t, tx' = [tx EXCEPT ![th] = t],
           t # Idle => Informed(t, Tables'),
           \A other \in Busy \ {th} : Untouched(tx[other].held, Tables, Tables')
    PROVE  ReadInv'
  <1>1. tx'[th] = t /\ \A other \in Threads \ {th} : tx'[other] = tx[other]
    BY DEF ReadInv, LockInv
  <1>2. ASSUME NEW other \in Busy'
        PROVE  Informed(tx'[other], Tables')
    <2>1. CASE other = th
      BY <1>1, <1>2, <2>1 DEF Busy
    <2>2. CASE other # th
      <3>1. tx'[other] = tx[other] /\ other \in Busy
        BY <1>1, <1>2, <2>2 DEF Busy
      <3>2. Serving(tx[other]) /\ Informed(tx[other], Tables)
        BY <3>1 DEF ReadInv, LockInv
      <3> QED
        BY <2>2, <3>1, <3>2, InformedStays
    <2> QED
      BY <2>1, <2>2
  <1> QED
    BY <1>2 DEF ReadInv

\* What happens outside the threads.
LEMMA InformedAside ==
    ASSUME ReadInv, LockInv', now' \in Nat, Shaped(Tables'), UNCHANGED tx,
           \A other \in Busy : Untouched(tx[other].held, Tables, Tables')
    PROVE  ReadInv'
  <1>1. ASSUME NEW other \in Busy'
        PROVE  Informed(tx'[other], Tables')
    <2>1. tx'[other] = tx[other] /\ other \in Busy
      BY <1>1 DEF Busy
    <2>2. Serving(tx[other]) /\ Informed(tx[other], Tables)
      BY <2>1 DEF ReadInv, LockInv
    <2> QED
      BY <2>1, <2>2, InformedStays
  <1> QED
    BY <1>1 DEF ReadInv

\* Every step keeps ReadInv.
LEMMA ReadStep == ReadInv /\ [TxNext]_txVars => ReadInv'
  <1> SUFFICES ASSUME ReadInv, [TxNext]_txVars
               PROVE  ReadInv'
    OBVIOUS
  <1>0. LockInv'
    BY LockStep DEF ReadInv
  <1>1. ASSUME UNCHANGED vars
        PROVE  /\ Tables' = Tables /\ now' \in Nat /\ Shaped(Tables')
               /\ \A h : Untouched(h, Tables, Tables')
    <2>1. Tables' = Tables /\ now' = now
      BY <1>1 DEF vars, Tables
    <2> QED
      BY <2>1, UntouchedSame DEF ReadInv
  <1>2. ASSUME NEW th \in Threads, NEW r \in Requests, Begin(th, r)
        PROVE  ReadInv'
    <2> DEFINE none == [request |-> r, done |-> 0, held |-> {}, read |-> Idle]
               t == Selected(r, none, Plan(r)[1])
    <2>1. tx' = [tx EXCEPT ![th] = t] /\ UNCHANGED vars /\ Plan(r)[1].ok
      BY <1>2 DEF Begin
    <2>2. Informed(t, Tables)
      <3> DEFINE d == 0
                 h == {}
                 x == Idle
                 u == [request |-> r, done |-> d, held |-> h, read |-> x]
      <3>1. d \in 0..(Len(Order(r)) - 1) /\ ~(d # 0) /\ Plan(r)[d + 1].ok
        BY <2>1, PlanOrder
      <3>2. Informed(Selected(r, u, Plan(r)[d + 1]), Tables)
        <4> HIDE DEF d, h, x
        <4> QED
          BY <3>1, SelectInforms DEF ReadInv
      <3>3. d + 1 = 1
        OBVIOUS
      <3> QED
        BY <3>2, <3>3
    <2> HIDE DEF t
    <2> QED
      BY <1>0, <1>1, <2>1, <2>2, InformedTaken
  <1>3. ASSUME NEW th \in Threads, Select(th), NextSelect(th).ok
        PROVE  ReadInv'
    <2> DEFINE r == tx[th].request
               d == tx[th].done
               h == tx[th].held
               x == tx[th].read
               u == [request |-> r, done |-> d, held |-> h, read |-> x]
               t == Selected(r, tx[th], NextSelect(th))
    <2>1. /\ th \in Busy /\ Serving(tx[th]) /\ Informed(tx[th], Tables) /\ d < Len(Plan(r))
      BY <1>3 DEF Select, Selecting, ReadInv, LockInv
    <2>2. tx' = [tx EXCEPT ![th] = t] /\ UNCHANGED vars
      BY <1>3 DEF Select, ReadInv, LockInv
    <2>3. /\ r \in Requests /\ d \in 0..(Len(Order(r)) - 1)
          /\ tx[th] = u /\ NextSelect(th) = Plan(r)[d + 1]
      BY <2>1, PlanOrder DEF Serving, NextSelect
    <2>4. Informed(t, Tables)
      <3>1. Informed(u, Tables) /\ Plan(r)[d + 1].ok
        BY <1>3, <2>1, <2>3
      <3>2. Informed(Selected(r, u, Plan(r)[d + 1]), Tables)
        <4> HIDE DEF r, d, h, x
        <4> QED
          BY <2>3, <3>1, SelectInforms DEF ReadInv
      <3> HIDE DEF r, d, u
      <3> QED
        BY <2>3, <3>2
    <2> HIDE DEF t
    <2> QED
      BY <1>0, <1>1, <2>2, <2>4, InformedTaken
  <1>4. ASSUME NEW th \in Threads, Release(th), UNCHANGED vars
        PROVE  ReadInv'
    BY <1>0, <1>1, <1>4, InformedTaken DEF Release
  <1>5. ASSUME NEW th \in Threads, Commit(th)
        PROVE  ReadInv'
    <2> DEFINE r == tx[th].request
               c == r.c
               h == tx[th].held
               s == tx[th].read
               w == Writes(r, s)
    <2>1. /\ th \in Busy /\ Serving(tx[th]) /\ Informed(tx[th], Tables) /\ Shaped(Tables)
          /\ ~(tx[th].done < Len(Plan(r)))
      BY <1>5 DEF Commit, Selecting, ReadInv, LockInv
    <2>2. r \in Requests /\ tx[th].done = Len(Order(r)) /\ c \in Campaigns
      BY <2>1, PlanOrder, RequestFields DEF Serving
    <2>3. Done(r, h, s) /\ Fresh(c, h, s, Tables)
      BY <2>1, <2>2 DEF Informed, Done
    <2>4. Guarded(c, h, s, w)
      BY <2>2, <2>3, WritesGuarded
    <2>5. Applied(c, s, w, Tables, Tables')
      BY <1>5, CommitApplied
    <2>6. \A other \in Busy \ {th} : h \cap tx[other].held = {}
      BY <2>1 DEF ReadInv, LockInv, OneHolder, Held, Busy
    <2>7. tx' = [tx EXCEPT ![th] = Idle] /\ now' \in Nat
      BY <1>5 DEF Commit, Release, ReadInv
    <2> HIDE DEF w, s, h, c
    <2>8. Shaped(Tables')
      BY <2>1, <2>2, <2>4, <2>5, AppliedCells
    <2>9. \A other \in Busy \ {th} : Untouched(tx[other].held, Tables, Tables')
      BY <2>1, <2>2, <2>3, <2>4, <2>5, <2>6, CommitUntouched
    <2> QED
      BY <1>0, <2>7, <2>8, <2>9, InformedTaken
  <1>6. ASSUME NEW t \in Users, NEW c \in Campaigns, TxStart(t, c), UNCHANGED tx
        PROVE  ReadInv'
    <2>1. StartAssignment(t, c) /\ now' = now /\ now \in Nat /\ Shaped(Tables)
      BY <1>6 DEF TxStart, StartAssignment, ReadInv
    <2>2. \A other \in Busy : AssignmentRow(c, t) \cap tx[other].held = {}
      BY <1>6 DEF TxStart, Held
    <2> QED
      BY <1>0, <1>6, <2>1, <2>2, StartUntouched, InformedAside
  <1>7. ASSUME TxTick, UNCHANGED tx
        PROVE  ReadInv'
    <2>1. Tables' = Tables /\ now' = now + 1
      BY <1>7 DEF TxTick, Tick, Tables, campaignVars, creditVars, workVars
    <2> QED
      BY <1>0, <1>7, <2>1, UntouchedSame, InformedAside DEF ReadInv
  <1>8. ASSUME UNCHANGED txVars
        PROVE  ReadInv'
    BY <1>0, <1>1, <1>8, InformedAside DEF txVars
  <1>9. ASSUME NEW th \in Threads, Select(th)
        PROVE  ReadInv'
    BY <1>3, <1>4, <1>9 DEF Select
  <1>10. ASSUME NEW th \in Threads, RollBack(th)
         PROVE  ReadInv'
    BY <1>4, <1>10 DEF RollBack
  <1> QED
    BY <1>2, <1>5, <1>6, <1>7, <1>8, <1>9, <1>10 DEF TxNext

\* ReadInv always holds.
LEMMA ReadAlways == TxSpec => []ReadInv
  BY ReadInit, ReadStep, PTL DEF TxSpec

\* A request that is about to commit has read what it writes over, as it is.
LEMMA InformedNotStale == ReadInv => NothingStale
  <1> SUFFICES ASSUME ReadInv, NEW th \in Busy, ~Selecting(th)
               PROVE  LET c == tx[th].request.c
                          s == tx[th].read
                          w == Writes(tx[th].request, s)
                      IN  /\ \A d \in DOMAIN w.campaign : campaign[d] = s.campaign
                          /\ \A t \in DOMAIN w.rows : assignment[c][t] = s.rows[t]
                          /\ \A t \in DOMAIN w.subs : submissions[c][t] = s.subs[t]
                          /\ \A t \in DOMAIN w.days : sessions[c][t] = s.days[t]
                          /\ \A t \in DOMAIN w.dispute : dispute[c][t] = s.dispute[t]
                          /\ \A e \in w.entries : balance[e.user] = s.balance[e.user] /\ ~Posted(e.key)
    BY DEF NothingStale
  <1> DEFINE r == tx[th].request
             c == r.c
             h == tx[th].held
             s == tx[th].read
             w == Writes(r, s)
  <1>1. /\ Serving(tx[th]) /\ Informed(tx[th], Tables) /\ ~(tx[th].done < Len(Plan(r)))
    BY DEF Selecting, ReadInv, LockInv
  <1>2. r \in Requests /\ tx[th].done = Len(Order(r))
    BY <1>1, PlanOrder DEF Serving
  <1>3. Done(r, h, s) /\ Fresh(c, h, s, Tables)
    BY <1>1, <1>2 DEF Informed, Done
  <1>4. Guarded(c, h, s, w)
    BY <1>2, <1>3, WritesGuarded
  <1>5. /\ Tables.campaign = campaign /\ Tables.assignment = assignment
        /\ Tables.submissions = submissions /\ Tables.sessions = sessions
        /\ Tables.dispute = dispute /\ Tables.balance = balance /\ Tables.ledger = ledger
    BY DEF Tables
  <1> HIDE DEF c, h, s, w
  <1>6. /\ \A d \in DOMAIN w.campaign : campaign[d] = s.campaign
        /\ \A t \in DOMAIN w.rows : assignment[c][t] = s.rows[t]
        /\ \A t \in DOMAIN w.subs : submissions[c][t] = s.subs[t]
        /\ \A t \in DOMAIN w.days : sessions[c][t] = s.days[t]
        /\ \A t \in DOMAIN w.dispute : dispute[c][t] = s.dispute[t]
    BY <1>3, <1>4, <1>5 DEF Fresh, Guarded
  <1>7. ASSUME NEW e \in w.entries
        PROVE  balance[e.user] = s.balance[e.user] /\ ~Posted(e.key)
    <2>1. /\ e.user \in Users /\ AccountRow(e.user) \subseteq h /\ ~PostedIn(s.ledger, e.key)
          /\ \/ CampaignRow(c) \subseteq h /\ e.key = PostingKey(c)
             \/ \E t \in Users : AssignmentRow(c, t) \subseteq h /\ e.key = RewardKey(c, t)
      BY <1>4 DEF Guarded
    <2>2. ~PostedIn(ledger, e.key)
      BY <1>3, <1>5, <2>1 DEF Fresh
    <2> QED
      BY <1>3, <1>5, <2>1, <2>2 DEF Fresh, Posted, PostedIn
  <1> QED
    BY <1>6, <1>7 DEF c, s, w

\* Whatever a request is about to write it has read as it is now, and posts to the ledger for the
\* first time: no update is lost ("serializes on this row", accept_assignment; lock_campaign and
\* the account lock of credits.py).
THEOREM NothingStaleTheorem == TxSpec => []NothingStale
  BY InformedNotStale, ReadAlways, PTL
=============================================================================
