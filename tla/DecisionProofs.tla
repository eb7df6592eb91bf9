--------------------------- MODULE DecisionProofs ---------------------------
(*****************************************************************************)
(* What a request of Transactions decides on is still so when it commits,    *)
(* and what it writes may be written: SoundInv, an inductive invariant of    *)
(* TxSpec that says so of the tables and of every request under way.  The    *)
(* tables are seen here with what is ahead of them, the writes of requests   *)
(* that have read all they decide on and have not committed.                 *)
(*****************************************************************************)
EXTENDS TransactionsProofs

-----------------------------------------------------------------------------
(* Tables written over *)

\* A table with some of its cells written over.
LEMMA OverCells ==
    ASSUME NEW K, NEW rows, DOMAIN rows \subseteq K, NEW table, DOMAIN table = K
    PROVE  Over(rows, table) = [k \in K |-> IF k \in DOMAIN rows THEN rows[k] ELSE table[k]]
  <1>1. DOMAIN rows \cup K = K
    OBVIOUS
  <1> QED
    BY <1>1 DEF Over

\* Nothing written leaves a table as it is.
LEMMA OverNone ==
    ASSUME NEW K, NEW table, table = [k \in K |-> table[k]]
    PROVE  Over(<<>>, table) = table
  <1> DEFINE none == <<>>
  <1>1. DOMAIN table = K /\ DOMAIN none = {}
    BY OneKey
  <1> HIDE DEF none
  <1>2. Over(none, table) = [k \in K |-> IF k \in DOMAIN none THEN none[k] ELSE table[k]]
    BY <1>1, OverCells
  <1>3. Over(none, table) = table
    BY <1>1, <1>2
  <1> QED
    BY <1>3 DEF none

\* Cells apart may be written in either order.
LEMMA OverApart ==
    ASSUME NEW K, NEW a, NEW b, DOMAIN a \subseteq K, DOMAIN b \subseteq K,
           DOMAIN a \cap DOMAIN b = {}, NEW table, DOMAIN table = K
    PROVE  Over(a, Over(b, table)) = Over(b, Over(a, table))
  <1>1. /\ Over(a, table) = [k \in K |-> IF k \in DOMAIN a THEN a[k] ELSE table[k]]
        /\ Over(b, table) = [k \in K |-> IF k \in DOMAIN b THEN b[k] ELSE table[k]]
    BY OverCells
  <1>2. DOMAIN Over(a, table) = K /\ DOMAIN Over(b, table) = K
    BY <1>1
  <1>3. /\ Over(a, Over(b, table)) =
             [k \in K |-> IF k \in DOMAIN a THEN a[k] ELSE Over(b, table)[k]]
        /\ Over(b, Over(a, table)) =
             [k \in K |-> IF k \in DOMAIN b THEN b[k] ELSE Over(a, table)[k]]
    BY <1>2, OverCells
  <1> QED
    BY <1>1, <1>3

-----------------------------------------------------------------------------
(* Tables by campaign and tester *)

\* What is written of every campaign, over a table.
Laid(family, table) == [c \in Campaigns |-> Over(family[c], table[c])]

\* The writes to a table name testers.
Families(family) == \A c \in Campaigns : DOMAIN family[c] \subseteq Users

\* A family with the writes to one campaign replaced.
Replaced(family, c, rows, next) ==
    next[c] = rows /\ \A d \in Campaigns \ {c} : next[d] = family[d]

\* Such a table, cell by cell.
LEMMA WorkerTable ==
    ASSUME NEW table, ByWorker(table)
    PROVE  /\ DOMAIN table = Campaigns
           /\ table = [c \in Campaigns |-> table[c]]
           /\ \A c \in Campaigns : DOMAIN table[c] = Users /\ table[c] = [t \in Users |-> table[c][t]]
  <1>1. table = [c \in Campaigns |-> [t \in Users |-> table[c][t]]]
    BY DEF ByWorker
  <1>2. DOMAIN table = Campaigns /\ \A c \in Campaigns : table[c] = [t \in Users |-> table[c][t]]
    BY <1>1
  <1>3. \A c \in Campaigns : DOMAIN table[c] = Users
    BY <1>2
  <1>4. table = [c \in Campaigns |-> table[c]]
    <2> DEFINE F(c) == [t \in Users |-> table[c][t]]
    <2>1. table = [c \in Campaigns |-> F(c)]
      BY <1>1
    <2> HIDE DEF F
    <2> QED
      BY <2>1
  <1> QED
    BY <1>2, <1>3, <1>4

\* What is written of every campaign's work, cell by cell.
LEMMA LaidCells ==
    ASSUME NEW table, ByWorker(table), NEW family, Families(family)
    PROVE  /\ ByWorker(Laid(family, table))
           /\ \A c \in Campaigns : Laid(family, table)[c] = Over(family[c], table[c])
           /\ \A c \in Campaigns, t \in Users :
                Laid(family, table)[c][t] =
                  IF t \in DOMAIN family[c] THEN family[c][t] ELSE table[c][t]
  <1>1. ASSUME NEW c \in Campaigns
        PROVE  Over(family[c], table[c]) =
                 [t \in Users |-> IF t \in DOMAIN family[c] THEN family[c][t] ELSE table[c][t]]
    <2>1. DOMAIN family[c] \subseteq Users /\ DOMAIN table[c] = Users
      BY WorkerTable DEF Families
    <2> QED
      BY <2>1, OverCells
  <1>2. /\ DOMAIN Laid(family, table) = Campaigns
        /\ \A c \in Campaigns : Laid(family, table)[c] = Over(family[c], table[c])
    BY DEF Laid
  <1>3. \A c \in Campaigns : Laid(family, table)[c] = [t \in Users |-> Laid(family, table)[c][t]]
    BY <1>1, <1>2
  <1>4. Laid(family, table) = [c \in Campaigns |-> Laid(family, table)[c]]
    BY DEF Laid
  <1>5. ByWorker(Laid(family, table))
    BY <1>3, <1>4 DEF ByWorker
  <1>6. ASSUME NEW c \in Campaigns, NEW t \in Users
        PROVE  Laid(family, table)[c][t] =
                 IF t \in DOMAIN family[c] THEN family[c][t] ELSE table[c][t]
    <2>1. Laid(family, table)[c] =
            [u \in Users |-> IF u \in DOMAIN family[c] THEN family[c][u] ELSE table[c][u]]
      BY <1>1, <1>2
    <2> QED
      BY <2>1
  <1> QED
    BY <1>2, <1>5, <1>6

\* What is written of the work of one campaign, cell by cell.
LEMMA OverwrittenCells ==
    ASSUME NEW table, ByWorker(table), NEW c \in Campaigns, NEW rows
    PROVE  /\ DOMAIN Overwritten(c, table, rows) = Campaigns
           /\ Overwritten(c, table, rows) = [d \in Campaigns |-> Overwritten(c, table, rows)[d]]
           /\ Overwritten(c, table, rows)[c] = Over(rows, table[c])
           /\ \A d \in Campaigns \ {c} : Overwritten(c, table, rows)[d] = table[d]
  BY WorkerTable DEF Overwritten

\* More written of one campaign's work, over a table: first the one, then the other.
LEMMA LaidFirst ==
    ASSUME NEW table, ByWorker(table), NEW family, Families(family), NEW c \in Campaigns,
           family[c] = <<>>, NEW rows, NEW next, Replaced(family, c, rows, next)
    PROVE  Laid(next, table) = Overwritten(c, Laid(family, table), rows)
  <1>1. Laid(family, table)[c] = table[c]
    <2>1. table[c] = [t \in Users |-> table[c][t]]
      BY WorkerTable
    <2>2. Over(<<>>, table[c]) = table[c]
      BY <2>1, OverNone
    <2> QED
      BY <2>2, LaidCells
  <1> DEFINE laid == Laid(family, table)
             over == Overwritten(c, laid, rows)
  <1>2. ByWorker(laid)
    BY LaidCells
  <1> HIDE DEF laid
  <1>3. over = [d \in Campaigns |-> over[d]] /\ over[c] = Over(rows, laid[c])
        /\ \A d \in Campaigns \ {c} : over[d] = laid[d]
    BY <1>2, OverwrittenCells
  <1> HIDE DEF over
  <1>4. \A d \in Campaigns : Over(next[d], table[d]) = over[d]
    BY <1>1, <1>3, LaidCells DEF Replaced, laid
  <1> QED
    BY <1>3, <1>4 DEF Laid, over, laid

\* What is written last is what is seen.
LEMMA LaidLast ==
    ASSUME NEW table, ByWorker(table), NEW family, Families(family), NEW c \in Campaigns,
           NEW next, Replaced(family, c, <<>>, next)
    PROVE  Laid(next, Overwritten(c, table, family[c])) = Laid(family, table)
  <1> DEFINE rows == family[c]
             over == Overwritten(c, table, rows)
  <1>1. DOMAIN rows \subseteq Users
    BY DEF Families
  <1> HIDE DEF rows
  <1>2. over[c] = Over(rows, table[c]) /\ \A d \in Campaigns \ {c} : over[d] = table[d]
    BY OverwrittenCells
  <1>3. ByWorker(over)
    BY <1>1, OverRows
  <1>4. Over(<<>>, over[c]) = over[c]
    <2> HIDE DEF over
    <2>1. over[c] = [t \in Users |-> over[c][t]]
      BY <1>3, WorkerTable
    <2> QED
      BY <2>1, OverNone
  <1> HIDE DEF over
  <1>5. \A d \in Campaigns : Over(next[d], over[d]) = Over(family[d], table[d])
    BY <1>2, <1>4 DEF Replaced, rows
  <1>6. Laid(next, over) = Laid(family, table)
    BY <1>5 DEF Laid
  <1> QED
    BY <1>6 DEF over, rows

\* What is written of another campaign does not matter.
LEMMA LaidApart ==
    ASSUME NEW table, ByWorker(table), NEW family, Families(family), NEW c \in Campaigns,
           NEW rows, DOMAIN rows \subseteq Users, DOMAIN rows \cap DOMAIN family[c] = {}
    PROVE  Laid(family, Overwritten(c, table, rows)) = Overwritten(c, Laid(family, table), rows)
  <1> DEFINE laid == Laid(family, table)
             over == Overwritten(c, table, rows)
             both == Overwritten(c, laid, rows)
  <1>1. ByWorker(laid) /\ \A d \in Campaigns : laid[d] = Over(family[d], table[d])
    BY LaidCells
  <1> HIDE DEF laid
  <1>2. over[c] = Over(rows, table[c]) /\ \A d \in Campaigns \ {c} : over[d] = table[d]
    BY OverwrittenCells
  <1>3. /\ both = [d \in Campaigns |-> both[d]] /\ both[c] = Over(rows, laid[c])
        /\ \A d \in Campaigns \ {c} : both[d] = laid[d]
    BY <1>1, OverwrittenCells
  <1>4. Over(family[c], Over(rows, table[c])) = Over(rows, Over(family[c], table[c]))
    <2>1. DOMAIN family[c] \subseteq Users /\ DOMAIN table[c] = Users
      BY WorkerTable DEF Families
    <2> QED
      BY <2>1, OverApart
  <1> HIDE DEF over, both
  <1>5. \A d \in Campaigns : Over(family[d], over[d]) = both[d]
    BY <1>1, <1>2, <1>3, <1>4
  <1> QED
    BY <1>3, <1>5 DEF Laid, over, both, laid

-----------------------------------------------------------------------------
(* Tables by campaign *)

\* What is written of every campaign's own row, over a table.
OwnLaid(family, table) == [c \in Campaigns |-> Over(family[c], table)[c]]
OwnFamilies(family) == \A c \in Campaigns : DOMAIN family[c] \subseteq {c}

\* What is written of every campaign's own row, cell by cell.
LEMMA OwnCells ==
    ASSUME NEW table, DOMAIN table = Campaigns, NEW family, OwnFamilies(family)
    PROVE  /\ OwnLaid(family, table) = [c \in Campaigns |-> OwnLaid(family, table)[c]]
           /\ \A c \in Campaigns : OwnLaid(family, table)[c] =
                IF c \in DOMAIN family[c] THEN family[c][c] ELSE table[c]
  <1>1. ASSUME NEW c \in Campaigns
        PROVE  Over(family[c], table)[c] = IF c \in DOMAIN family[c] THEN family[c][c] ELSE table[c]
    <2>1. DOMAIN family[c] \subseteq Campaigns
      BY DEF OwnFamilies
    <2>2. Over(family[c], table) =
            [k \in Campaigns |-> IF k \in DOMAIN family[c] THEN family[c][k] ELSE table[k]]
      BY <2>1, OverCells
    <2> QED
      BY <2>2
  <1> QED
    BY <1>1 DEF OwnLaid

\* What is written of one campaign's own row, cell by cell.
LEMMA OwnOver ==
    ASSUME NEW table, DOMAIN table = Campaigns, NEW c \in Campaigns,
           NEW rows, DOMAIN rows \subseteq {c}
    PROVE  /\ Over(rows, table) = [d \in Campaigns |-> Over(rows, table)[d]]
           /\ DOMAIN Over(rows, table) = Campaigns
           /\ \A d \in Campaigns : Over(rows, table)[d] =
                IF d \in DOMAIN rows THEN rows[d] ELSE table[d]
  <1>1. Over(rows, table) = [k \in Campaigns |-> IF k \in DOMAIN rows THEN rows[k] ELSE table[k]]
    BY OverCells
  <1> QED
    BY <1>1

\* More written of one campaign's own row, over a table: first the one, then the other.
LEMMA OwnFirst ==
    ASSUME NEW table, DOMAIN table = Campaigns, NEW family, OwnFamilies(family),
           NEW c \in Campaigns, family[c] = <<>>, NEW rows, DOMAIN rows \subseteq {c},
           NEW next, Replaced(family, c, rows, next)
    PROVE  OwnLaid(next, table) = Over(rows, OwnLaid(family, table))
  <1> DEFINE laid == OwnLaid(family, table)
             more == OwnLaid(next, table)
             over == Over(rows, laid)
  <1>1. OwnFamilies(next)
    BY DEF OwnFamilies, Replaced
  <1>2. DOMAIN laid = Campaigns /\ c \notin DOMAIN family[c]
    BY OneKey DEF OwnLaid
  <1>3. /\ more = [d \in Campaigns |-> more[d]]
        /\ \A d \in Campaigns : more[d] = IF d \in DOMAIN next[d] THEN next[d][d] ELSE table[d]
    BY <1>1, OwnCells
  <1>4. \A d \in Campaigns : laid[d] = IF d \in DOMAIN family[d] THEN family[d][d] ELSE table[d]
    BY OwnCells
  <1> HIDE DEF laid, more
  <1>5. /\ over = [d \in Campaigns |-> over[d]]
        /\ \A d \in Campaigns : over[d] = IF d \in DOMAIN rows THEN rows[d] ELSE laid[d]
    BY <1>2, OwnOver
  <1> HIDE DEF over
  <1>6. \A d \in Campaigns : more[d] = over[d]
    BY <1>2, <1>3, <1>4, <1>5 DEF Replaced
  <1>7. more = over
    BY <1>3, <1>5, <1>6
  <1> QED
    BY <1>7 DEF more, over, laid

\* What is written last of a campaign's own row is what is seen.
LEMMA OwnLast ==
    ASSUME NEW table, DOMAIN table = Campaigns, NEW family, OwnFamilies(family),
           NEW c \in Campaigns, NEW next, Replaced(family, c, <<>>, next)
    PROVE  OwnLaid(next, Over(family[c], table)) = OwnLaid(family, table)
  <1> DEFINE rows == family[c]
             over == Over(rows, table)
             laid == OwnLaid(family, table)
             less == OwnLaid(next, over)
  <1>1. OwnFamilies(next) /\ c \notin DOMAIN next[c] /\ DOMAIN rows \subseteq {c}
    BY OneKey DEF OwnFamilies, Replaced
  <1>2. /\ laid = [d \in Campaigns |-> laid[d]]
        /\ \A d \in Campaigns : laid[d] = IF d \in DOMAIN family[d] THEN family[d][d] ELSE table[d]
    BY OwnCells
  <1> HIDE DEF rows, laid
  <1>3. /\ DOMAIN over = Campaigns
        /\ \A d \in Campaigns : over[d] = IF d \in DOMAIN rows THEN rows[d] ELSE table[d]
    BY <1>1, OwnOver
  <1> HIDE DEF over
  <1>4. /\ less = [d \in Campaigns |-> less[d]]
        /\ \A d \in Campaigns : less[d] = IF d \in DOMAIN next[d] THEN next[d][d] ELSE over[d]
    BY <1>1, <1>3, OwnCells
  <1> HIDE DEF less
  <1>5. \A d \in Campaigns : less[d] = laid[d]
    BY <1>1, <1>2, <1>3, <1>4 DEF Replaced, rows
  <1>6. less = laid
    BY <1>2, <1>4, <1>5
  <1> QED
    BY <1>6 DEF less, laid, over, rows

-----------------------------------------------------------------------------
(* Balances *)

\* No account has two of these entries.
OncePerUser(entries) == \A e, f \in entries : e.user = f.user => e = f

\* The balances with entries on them.
Paid(entries, accounts) ==
    [u \in Users |-> IF \E e \in entries : e.user = u
                     THEN accounts[u] + (CHOOSE e \in entries : e.user = u).delta
                     ELSE accounts[u]]

\* The accounts with some entries paid, one by one.
LEMMA PaidCells ==
    ASSUME NEW entries, OncePerUser(entries), NEW accounts
    PROVE  /\ Paid(entries, accounts) = [u \in Users |-> Paid(entries, accounts)[u]]
           /\ \A u \in Users : (\A e \in entries : e.user # u) =>
                Paid(entries, accounts)[u] = accounts[u]
           /\ \A e \in entries : e.user \in Users =>
                Paid(entries, accounts)[e.user] = accounts[e.user] + e.delta
  <1>1. ASSUME NEW e \in entries, e.user \in Users
        PROVE  Paid(entries, accounts)[e.user] = accounts[e.user] + e.delta
    <2> DEFINE f == CHOOSE f \in entries : f.user = e.user
    <2>1. f \in entries /\ f.user = e.user
      OBVIOUS
    <2>2. f = e
      BY <2>1 DEF OncePerUser
    <2>3. Paid(entries, accounts)[e.user] = accounts[e.user] + f.delta
      BY <1>1 DEF Paid
    <2> QED
      BY <2>2, <2>3
  <1> QED
    BY <1>1 DEF Paid

\* Entries of different users may be paid in either order.
LEMMA PaidTogether ==
    ASSUME NEW A, NEW B, OncePerUser(A), OncePerUser(B), \A e \in A, f \in B : e.user # f.user,
           NEW accounts
    PROVE  /\ Paid(A \cup B, accounts) = Paid(A, Paid(B, accounts))
           /\ Paid(A \cup B, accounts) = Paid(B, Paid(A, accounts))
  <1> DEFINE U == A \cup B
  <1>1. OncePerUser(U)
    BY DEF OncePerUser
  <1> DEFINE all == Paid(U, accounts)
             a   == Paid(A, accounts)
             b   == Paid(B, accounts)
             ab  == Paid(A, b)
             ba  == Paid(B, a)
  <1>2. /\ all = [u \in Users |-> all[u]]
        /\ \A u \in Users : (\A e \in U : e.user # u) => all[u] = accounts[u]
        /\ \A e \in U : e.user \in Users => all[e.user] = accounts[e.user] + e.delta
    <2> HIDE DEF U
    <2> QED
      BY <1>1, PaidCells
  <1>3. /\ \A u \in Users : (\A e \in A : e.user # u) => a[u] = accounts[u]
        /\ \A e \in A : e.user \in Users => a[e.user] = accounts[e.user] + e.delta
    BY PaidCells
  <1>4. /\ \A u \in Users : (\A e \in B : e.user # u) => b[u] = accounts[u]
        /\ \A e \in B : e.user \in Users => b[e.user] = accounts[e.user] + e.delta
    BY PaidCells
  <1> HIDE DEF all, a, b
  <1>5. /\ ab = [u \in Users |-> ab[u]]
        /\ \A u \in Users : (\A e \in A : e.user # u) => ab[u] = b[u]
        /\ \A e \in A : e.user \in Users => ab[e.user] = b[e.user] + e.delta
    BY PaidCells
  <1>6. /\ ba = [u \in Users |-> ba[u]]
        /\ \A u \in Users : (\A e \in B : e.user # u) => ba[u] = a[u]
        /\ \A e \in B : e.user \in Users => ba[e.user] = a[e.user] + e.delta
    BY PaidCells
  <1> HIDE DEF ab, ba
  <1>7. ASSUME NEW u \in Users
        PROVE  all[u] = ab[u] /\ all[u] = ba[u]
    <2>1. CASE \E e \in A : e.user = u
      <3>1. PICK e \in A : e.user = u
        BY <2>1
      <3>2. \A f \in B : f.user # u
        BY <3>1
      <3> QED
        BY <3>1, <3>2, <1>2, <1>3, <1>4, <1>5, <1>6
    <2>2. CASE \E e \in B : e.user = u
      <3>1. PICK e \in B : e.user = u
        BY <2>2
      <3>2. \A f \in A : f.user # u
        BY <3>1
      <3> QED
        BY <3>1, <3>2, <1>2, <1>3, <1>4, <1>5, <1>6
    <2>3. CASE \A e \in A \cup B : e.user # u
      BY <2>3, <1>2, <1>3, <1>4, <1>5, <1>6
    <2> QED
      BY <2>1, <2>2, <2>3
  <1>8. all = ab /\ all = ba
    BY <1>2, <1>5, <1>6, <1>7
  <1> QED
    BY <1>8 DEF all, ab, ba, a, b

-----------------------------------------------------------------------------
(* What a request writes, on the tables *)

\* The tables db with the writes w of a request about campaign c.
Patch(c, w, db) ==
    [campaign    |-> Over(w.campaign, db.campaign),
     contract    |-> Over(w.contract, db.contract),
     assignment  |-> Overwritten(c, db.assignment, w.rows),
     submissions |-> Overwritten(c, db.submissions, w.subs),
     sessions    |-> Overwritten(c, db.sessions, w.days),
     dispute     |-> Overwritten(c, db.dispute, w.dispute),
     balance     |-> Paid(w.entries, db.balance),
     ledger        |-> db.ledger \cup w.entries,
     audit         |-> db.audit \cup w.audit,
     notifications |-> db.notifications \cup w.notes]

\* The tables have a cell for every key.
Formed(db) ==
    /\ db.campaign = [c \in Campaigns |-> db.campaign[c]]
    /\ db.contract = [c \in Campaigns |-> db.contract[c]]
    /\ ByWorker(db.assignment) /\ ByWorker(db.submissions) /\ ByWorker(db.sessions)
    /\ ByWorker(db.dispute)
    /\ db.balance = [u \in Users |-> db.balance[u]]

\* What is written about campaign c: its row, its testers' rows, and at most one entry.
Keyed(c, w) ==
    /\ DOMAIN w.campaign \subseteq {c} /\ DOMAIN w.contract \subseteq {c}
    /\ DOMAIN w.rows \subseteq Users /\ DOMAIN w.subs \subseteq Users
    /\ DOMAIN w.days \subseteq Users /\ DOMAIN w.dispute \subseteq Users
    /\ \A e, f \in w.entries : e = f
    /\ \A n \in w.notes : n.assignment[1] = c

\* What is ahead of the tables: by campaign, and no account twice.
Pledges(ahead) ==
    /\ ahead = [c \in Campaigns |-> ahead[c]]
    /\ \A c \in Campaigns : Keyed(c, ahead[c])
    /\ \A c, d \in Campaigns : c # d =>
         \A e \in ahead[c].entries, f \in ahead[d].entries : e.user # f.user

\* The writes of w touch no account of what is ahead of another campaign.
PaysApart(c, w, ahead) ==
    \A d \in Campaigns \ {c} : \A e \in w.entries, f \in ahead[d].entries : e.user # f.user

\* What is ahead of each table.
CampaignsAhead(ahead) == [c \in Campaigns |-> ahead[c].campaign]
ContractsAhead(ahead) == [c \in Campaigns |-> ahead[c].contract]
RowsAhead(ahead) == [c \in Campaigns |-> ahead[c].rows]
SubsAhead(ahead) == [c \in Campaigns |-> ahead[c].subs]
DaysAhead(ahead) == [c \in Campaigns |-> ahead[c].days]
DisputesAhead(ahead) == [c \in Campaigns |-> ahead[c].dispute]
EntriesAhead(ahead) == UNION {ahead[c].entries : c \in Campaigns}
AuditAhead(ahead) == UNION {ahead[c].audit : c \in Campaigns}
NotesAhead(ahead) == UNION {ahead[c].notes : c \in Campaigns}

\* What is ahead of the tables but for campaign c.
EntriesBeside(ahead, c) == UNION {ahead[d].entries : d \in Campaigns \ {c}}
AuditBeside(ahead, c) == UNION {ahead[d].audit : d \in Campaigns \ {c}}
NotesBeside(ahead, c) == UNION {ahead[d].notes : d \in Campaigns \ {c}}

\* Tables, as a record of them.
AreTables(m) ==
    m = [campaign |-> m.campaign, contract |-> m.contract, assignment |-> m.assignment,
         submissions |-> m.submissions, sessions |-> m.sessions, dispute |-> m.dispute,
         balance |-> m.balance, ledger |-> m.ledger, audit |-> m.audit,
         notifications |-> m.notifications]

\* Nothing written is about every campaign.
LEMMA NoneKeyed ==
    /\ \A c : Keyed(c, NoWrites)
    /\ NoWrites.campaign = <<>> /\ NoWrites.contract = <<>> /\ NoWrites.rows = <<>>
    /\ NoWrites.subs = <<>> /\ NoWrites.days = <<>> /\ NoWrites.dispute = <<>>
    /\ NoWrites.entries = {} /\ NoWrites.audit = {} /\ NoWrites.notes = {}
  BY OneKey DEF NoWrites, Keyed

\* Merged, table by table.
LEMMA MergedTables ==
    ASSUME NEW db, NEW ahead, NEW m, m = Merged(db, ahead)
    PROVE  /\ m.campaign = OwnLaid(CampaignsAhead(ahead), db.campaign)
           /\ m.contract = OwnLaid(ContractsAhead(ahead), db.contract)
           /\ m.assignment = Laid(RowsAhead(ahead), db.assignment)
           /\ m.submissions = Laid(SubsAhead(ahead), db.submissions)
           /\ m.sessions = Laid(DaysAhead(ahead), db.sessions)
           /\ m.dispute = Laid(DisputesAhead(ahead), db.dispute)
           /\ m.balance = Paid(EntriesAhead(ahead), db.balance)
           /\ m.ledger = db.ledger \cup EntriesAhead(ahead)
           /\ m.audit = db.audit \cup AuditAhead(ahead)
           /\ m.notifications = db.notifications \cup NotesAhead(ahead)
  <1>1. m.campaign = OwnLaid(CampaignsAhead(ahead), db.campaign)
    BY DEF Merged, OwnLaid, CampaignsAhead, ContractsAhead
  <1>2. m.contract = OwnLaid(ContractsAhead(ahead), db.contract)
    BY DEF Merged, OwnLaid, CampaignsAhead, ContractsAhead
  <1>3. m.assignment = Laid(RowsAhead(ahead), db.assignment)
    BY DEF Merged, Laid, RowsAhead, SubsAhead, DaysAhead, DisputesAhead
  <1>4. m.submissions = Laid(SubsAhead(ahead), db.submissions)
    BY DEF Merged, Laid, RowsAhead, SubsAhead, DaysAhead, DisputesAhead
  <1>5. m.sessions = Laid(DaysAhead(ahead), db.sessions)
    BY DEF Merged, Laid, RowsAhead, SubsAhead, DaysAhead, DisputesAhead
  <1>6. m.dispute = Laid(DisputesAhead(ahead), db.dispute)
    BY DEF Merged, Laid, RowsAhead, SubsAhead, DaysAhead, DisputesAhead
  <1>7. m.balance = Paid(EntriesAhead(ahead), db.balance)
    BY DEF Merged, Paid, EntriesAhead
  <1>8. /\ m.ledger = db.ledger \cup EntriesAhead(ahead)
        /\ m.audit = db.audit \cup AuditAhead(ahead)
        /\ m.notifications = db.notifications \cup NotesAhead(ahead)
    BY DEF Merged, EntriesAhead, AuditAhead, NotesAhead
  <1> QED
    BY <1>1, <1>2, <1>3, <1>4, <1>5, <1>6, <1>7, <1>8

\* Patch, table by table.
LEMMA PatchTables ==
    ASSUME NEW c, NEW w, NEW db, NEW m, m = Patch(c, w, db)
    PROVE  /\ m.campaign = Over(w.campaign, db.campaign)
           /\ m.contract = Over(w.contract, db.contract)
           /\ m.assignment = Overwritten(c, db.assignment, w.rows)
           /\ m.submissions = Overwritten(c, db.submissions, w.subs)
           /\ m.sessions = Overwritten(c, db.sessions, w.days)
           /\ m.dispute = Overwritten(c, db.dispute, w.dispute)
           /\ m.balance = Paid(w.entries, db.balance)
           /\ m.ledger = db.ledger \cup w.entries
           /\ m.audit = db.audit \cup w.audit
           /\ m.notifications = db.notifications \cup w.notes
  BY DEF Patch

\* The merged tables are a record of tables.
LEMMA MergedRecord ==
    ASSUME NEW db, NEW ahead, NEW m, m = Merged(db, ahead)
    PROVE  AreTables(m)
  <1> DEFINE x1 == [c \in Campaigns |-> Over(ahead[c].campaign, db.campaign)[c]]
             x2 == [c \in Campaigns |-> Over(ahead[c].contract, db.contract)[c]]
             x3 == [c \in Campaigns |-> Over(ahead[c].rows, db.assignment[c])]
             x4 == [c \in Campaigns |-> Over(ahead[c].subs, db.submissions[c])]
             x5 == [c \in Campaigns |-> Over(ahead[c].days, db.sessions[c])]
             x6 == [c \in Campaigns |-> Over(ahead[c].dispute, db.dispute[c])]
             entries == EntriesAhead(ahead)
             x7 == [u \in Users |-> IF \E e \in entries : e.user = u
                                    THEN db.balance[u] + (CHOOSE e \in entries : e.user = u).delta
                                    ELSE db.balance[u]]
             x8 == db.ledger \cup entries
             x9 == db.audit \cup AuditAhead(ahead)
             x0 == db.notifications \cup NotesAhead(ahead)
  <1>1. m = [campaign |-> x1, contract |-> x2, assignment |-> x3, submissions |-> x4,
             sessions |-> x5, dispute |-> x6, balance |-> x7, ledger |-> x8, audit |-> x9,
             notifications |-> x0]
    BY DEF Merged, EntriesAhead, AuditAhead, NotesAhead
  <1> HIDE DEF x1, x2, x3, x4, x5, x6, x7, x8, x9, x0
  <1> QED
    BY <1>1 DEF AreTables

\* So are the tables with what a request writes.
LEMMA PatchRecord ==
    ASSUME NEW c, NEW w, NEW db, NEW m, m = Patch(c, w, db)
    PROVE  AreTables(m)
  BY DEF Patch, AreTables

\* What is ahead, column by column.
LEMMA PledgeFamilies ==
    ASSUME NEW ahead, Pledges(ahead)
    PROVE  /\ OwnFamilies(CampaignsAhead(ahead))
           /\ OwnFamilies(ContractsAhead(ahead))
           /\ Families(RowsAhead(ahead))
           /\ Families(SubsAhead(ahead))
           /\ Families(DaysAhead(ahead))
           /\ Families(DisputesAhead(ahead))
           /\ OncePerUser(EntriesAhead(ahead))
  <1>1. \A c \in Campaigns : Keyed(c, ahead[c])
    BY DEF Pledges
  <1>2. /\ OwnFamilies(CampaignsAhead(ahead))
        /\ OwnFamilies(ContractsAhead(ahead))
    BY <1>1 DEF Keyed, OwnFamilies, CampaignsAhead, ContractsAhead
  <1>3. /\ Families(RowsAhead(ahead))
        /\ Families(SubsAhead(ahead))
        /\ Families(DaysAhead(ahead))
        /\ Families(DisputesAhead(ahead))
    BY <1>1 DEF Keyed, Families, RowsAhead, SubsAhead, DaysAhead, DisputesAhead
  <1>4. ASSUME NEW e \in EntriesAhead(ahead),
               NEW f \in EntriesAhead(ahead), e.user = f.user
        PROVE  e = f
    <2>1. PICK c \in Campaigns : e \in ahead[c].entries
      BY DEF EntriesAhead
    <2>2. PICK d \in Campaigns : f \in ahead[d].entries
      BY DEF EntriesAhead
    <2>3. c = d
      BY <1>4, <2>1, <2>2 DEF Pledges
    <2> QED
      BY <1>1, <2>1, <2>2, <2>3 DEF Keyed
  <1> QED
    BY <1>2, <1>3, <1>4 DEF OncePerUser

\* Tables with what is ahead of them have their cells.
LEMMA MergedFormed ==
    ASSUME NEW db, Formed(db), NEW ahead, Pledges(ahead)
    PROVE  Formed(Merged(db, ahead))
  <1> DEFINE m == Merged(db, ahead)
  <1>0. m = Merged(db, ahead)
    OBVIOUS
  <1> HIDE DEF m
  <1>1. DOMAIN db.campaign = Campaigns /\ DOMAIN db.contract = Campaigns
    BY DEF Formed
  <1>2. m.campaign = [c \in Campaigns |-> m.campaign[c]]
    <2> DEFINE family == CampaignsAhead(ahead)
    <2>1. m.campaign = OwnLaid(family, db.campaign)
      BY <1>0, MergedTables
    <2>2. OwnFamilies(family)
      BY PledgeFamilies
    <2> HIDE DEF family
    <2> QED
      BY <1>1, <2>1, <2>2, OwnCells
  <1>3. m.contract = [c \in Campaigns |-> m.contract[c]]
    <2> DEFINE family == ContractsAhead(ahead)
    <2>1. m.contract = OwnLaid(family, db.contract)
      BY <1>0, MergedTables
    <2>2. OwnFamilies(family)
      BY PledgeFamilies
    <2> HIDE DEF family
    <2> QED
      BY <1>1, <2>1, <2>2, OwnCells
  <1>4. ByWorker(m.assignment)
    <2> DEFINE family == RowsAhead(ahead)
    <2>1. m.assignment = Laid(family, db.assignment)
      BY <1>0, MergedTables
    <2>2. Families(family)
      BY PledgeFamilies
    <2> HIDE DEF family
    <2> QED
      BY <2>1, <2>2, LaidCells DEF Formed
  <1>5. ByWorker(m.submissions)
    <2> DEFINE family == SubsAhead(ahead)
    <2>1. m.submissions = Laid(family, db.submissions)
      BY <1>0, MergedTables
    <2>2. Families(family)
      BY PledgeFamilies
    <2> HIDE DEF family
    <2> QED
      BY <2>1, <2>2, LaidCells DEF Formed
  <1>6. ByWorker(m.sessions)
    <2> DEFINE family == DaysAhead(ahead)
    <2>1. m.sessions = Laid(family, db.sessions)
      BY <1>0, MergedTables
    <2>2. Families(family)
      BY PledgeFamilies
    <2> HIDE DEF family
    <2> QED
      BY <2>1, <2>2, LaidCells DEF Formed
  <1>7. ByWorker(m.dispute)
    <2> DEFINE family == DisputesAhead(ahead)
    <2>1. m.dispute = Laid(family, db.dispute)
      BY <1>0, MergedTables
    <2>2. Families(family)
      BY PledgeFamilies
    <2> HIDE DEF family
    <2> QED
      BY <2>1, <2>2, LaidCells DEF Formed
  <1>8. m.balance = [u \in Users |-> m.balance[u]]
    <2> DEFINE entries == EntriesAhead(ahead)
    <2>1. m.balance = Paid(entries, db.balance)
      BY <1>0, MergedTables
    <2> HIDE DEF entries
    <2> QED
      BY <2>1 DEF Paid
  <1> QED
    BY <1>2, <1>3, <1>4, <1>5, <1>6, <1>7, <1>8 DEF Formed, m

\* What is ahead, with the writes w ahead of campaign c.
Promised(ahead, c, w) == [ahead EXCEPT ![c] = w]

\* The writes of a request that locks neither its campaign nor an account.
Minor(w) == w.campaign = <<>> /\ w.contract = <<>> /\ w.entries = {}

\* The writes ahead of one campaign replaced, column by column.
LEMMA AheadOthers ==
    ASSUME NEW ahead, Pledges(ahead), NEW c \in Campaigns, NEW w,
           NEW next, next = Promised(ahead, c, w)
    PROVE  /\ next = [d \in Campaigns |-> next[d]] /\ next[c] = w
           /\ \A d \in Campaigns \ {c} : next[d] = ahead[d]
  <1>1. ahead = [d \in Campaigns |-> ahead[d]]
    BY DEF Pledges
  <1>2. /\ next = [d \in Campaigns |-> next[d]] /\ next[c] = w
        /\ \A d \in Campaigns \ {c} : next[d] = ahead[d]
    BY <1>1 DEF Promised
  <1> QED
    BY <1>2

\* The columns ahead when one campaign's are replaced.
LEMMA AheadReplaced ==
    ASSUME NEW ahead, Pledges(ahead), NEW c \in Campaigns, NEW w,
           NEW next, next = Promised(ahead, c, w)
    PROVE  /\ Replaced(CampaignsAhead(ahead), c, w.campaign, CampaignsAhead(next))
                /\ CampaignsAhead(ahead)[c] = ahead[c].campaign
           /\ Replaced(ContractsAhead(ahead), c, w.contract, ContractsAhead(next))
                /\ ContractsAhead(ahead)[c] = ahead[c].contract
           /\ Replaced(RowsAhead(ahead), c, w.rows, RowsAhead(next))
                /\ RowsAhead(ahead)[c] = ahead[c].rows
           /\ Replaced(SubsAhead(ahead), c, w.subs, SubsAhead(next))
                /\ SubsAhead(ahead)[c] = ahead[c].subs
           /\ Replaced(DaysAhead(ahead), c, w.days, DaysAhead(next))
                /\ DaysAhead(ahead)[c] = ahead[c].days
           /\ Replaced(DisputesAhead(ahead), c, w.dispute, DisputesAhead(next))
                /\ DisputesAhead(ahead)[c] = ahead[c].dispute
  <1>1. Replaced(CampaignsAhead(ahead), c, w.campaign, CampaignsAhead(next))
          /\ CampaignsAhead(ahead)[c] = ahead[c].campaign
    BY AheadOthers DEF Replaced, CampaignsAhead
  <1>2. Replaced(ContractsAhead(ahead), c, w.contract, ContractsAhead(next))
          /\ ContractsAhead(ahead)[c] = ahead[c].contract
    BY AheadOthers DEF Replaced, ContractsAhead
  <1>3. Replaced(RowsAhead(ahead), c, w.rows, RowsAhead(next)) /\ RowsAhead(ahead)[c] = ahead[c].rows
    BY AheadOthers DEF Replaced, RowsAhead
  <1>4. Replaced(SubsAhead(ahead), c, w.subs, SubsAhead(next)) /\ SubsAhead(ahead)[c] = ahead[c].subs
    BY AheadOthers DEF Replaced, SubsAhead
  <1>5. Replaced(DaysAhead(ahead), c, w.days, DaysAhead(next)) /\ DaysAhead(ahead)[c] = ahead[c].days
    BY AheadOthers DEF Replaced, DaysAhead
  <1>6. Replaced(DisputesAhead(ahead), c, w.dispute, DisputesAhead(next))
          /\ DisputesAhead(ahead)[c] = ahead[c].dispute
    BY AheadOthers DEF Replaced, DisputesAhead
  <1> QED
    BY <1>1, <1>2, <1>3, <1>4, <1>5, <1>6

\* The rows that are added, when one campaign's are replaced.
LEMMA AheadBeside ==
    ASSUME NEW ahead, Pledges(ahead), NEW c \in Campaigns, NEW w,
           NEW next, next = Promised(ahead, c, w)
    PROVE  /\ EntriesAhead(ahead) = EntriesBeside(ahead, c) \cup ahead[c].entries
           /\ EntriesAhead(next) = EntriesBeside(ahead, c) \cup w.entries
           /\ AuditAhead(ahead) = AuditBeside(ahead, c) \cup ahead[c].audit
           /\ AuditAhead(next) = AuditBeside(ahead, c) \cup w.audit
           /\ NotesAhead(ahead) = NotesBeside(ahead, c) \cup ahead[c].notes
           /\ NotesAhead(next) = NotesBeside(ahead, c) \cup w.notes
  <1>1. EntriesAhead(ahead) = EntriesBeside(ahead, c) \cup ahead[c].entries
    BY DEF EntriesAhead, EntriesBeside
  <1>2. EntriesAhead(next) = EntriesBeside(ahead, c) \cup w.entries
    <2>1. \A x : x \in EntriesAhead(next) <=> \E d \in Campaigns : x \in next[d].entries
      BY DEF EntriesAhead
    <2>2. \A x : x \in EntriesBeside(ahead, c) <=> \E d \in Campaigns \ {c} : x \in ahead[d].entries
      BY DEF EntriesBeside
    <2>3. \A x : x \in EntriesAhead(next) <=> x \in EntriesBeside(ahead, c) \/ x \in w.entries
      BY AheadOthers, <2>1, <2>2
    <2> QED
      BY <2>3
  <1>3. AuditAhead(ahead) = AuditBeside(ahead, c) \cup ahead[c].audit
    BY DEF AuditAhead, AuditBeside
  <1>4. AuditAhead(next) = AuditBeside(ahead, c) \cup w.audit
    <2>1. \A x : x \in AuditAhead(next) <=> \E d \in Campaigns : x \in next[d].audit
      BY DEF AuditAhead
    <2>2. \A x : x \in AuditBeside(ahead, c) <=> \E d \in Campaigns \ {c} : x \in ahead[d].audit
      BY DEF AuditBeside
    <2>3. \A x : x \in AuditAhead(next) <=> x \in AuditBeside(ahead, c) \/ x \in w.audit
      BY AheadOthers, <2>1, <2>2
    <2> QED
      BY <2>3
  <1>5. NotesAhead(ahead) = NotesBeside(ahead, c) \cup ahead[c].notes
    BY DEF NotesAhead, NotesBeside
  <1>6. NotesAhead(next) = NotesBeside(ahead, c) \cup w.notes
    <2>1. \A x : x \in NotesAhead(next) <=> \E d \in Campaigns : x \in next[d].notes
      BY DEF NotesAhead
    <2>2. \A x : x \in NotesBeside(ahead, c) <=> \E d \in Campaigns \ {c} : x \in ahead[d].notes
      BY DEF NotesBeside
    <2>3. \A x : x \in NotesAhead(next) <=> x \in NotesBeside(ahead, c) \/ x \in w.notes
      BY AheadOthers, <2>1, <2>2
    <2> QED
      BY <2>3
  <1> QED
    BY <1>1, <1>2, <1>3, <1>4, <1>5, <1>6

\* Tables are the same when each of them is.
LEMMA SameTables ==
    ASSUME NEW m, NEW p,
           AreTables(m), AreTables(p),
           m.campaign = p.campaign, m.contract = p.contract, m.assignment = p.assignment,
           m.submissions = p.submissions, m.sessions = p.sessions, m.dispute = p.dispute,
           m.balance = p.balance, m.ledger = p.ledger, m.audit = p.audit,
           m.notifications = p.notifications
    PROVE  m = p
  BY DEF AreTables

\* Writes that go ahead of the tables, on those that are ahead already.
LEMMA MergedFirst ==
    ASSUME NEW db, Formed(db), NEW ahead, Pledges(ahead), NEW c \in Campaigns, ahead[c] = NoWrites,
           NEW w, Keyed(c, w), PaysApart(c, w, ahead),
           NEW next, next = Promised(ahead, c, w)
    PROVE  Pledges(next) /\ Merged(db, next) = Patch(c, w, Merged(db, ahead))
  <1> DEFINE e == Merged(db, ahead)
             m == Merged(db, next)
             p == Patch(c, w, e)
  <1>1. e = Merged(db, ahead) /\ m = Merged(db, next) /\ p = Patch(c, w, e)
    OBVIOUS
  <1> HIDE DEF e, m, p
  <1>2. DOMAIN db.campaign = Campaigns /\ DOMAIN db.contract = Campaigns
    BY DEF Formed
  <1>3. m.campaign = p.campaign
    <2> DEFINE family == CampaignsAhead(ahead)
               more   == CampaignsAhead(next)
    <2>1. m.campaign = OwnLaid(more, db.campaign)
      BY <1>1, MergedTables
    <2>2. e.campaign = OwnLaid(family, db.campaign)
      BY <1>1, MergedTables
    <2>3. p.campaign = Over(w.campaign, e.campaign)
      BY <1>1, PatchTables
    <2>4. OwnFamilies(family)
      BY PledgeFamilies
    <2>5. Replaced(family, c, w.campaign, more) /\ family[c] = <<>>
      BY AheadReplaced, NoneKeyed
    <2>6. DOMAIN w.campaign \subseteq {c}
      BY DEF Keyed
    <2> HIDE DEF family, more
    <2> QED
      BY <1>2, <2>1, <2>2, <2>3, <2>4, <2>5, <2>6, OwnFirst
  <1>4. m.contract = p.contract
    <2> DEFINE family == ContractsAhead(ahead)
               more   == ContractsAhead(next)
    <2>1. m.contract = OwnLaid(more, db.contract)
      BY <1>1, MergedTables
    <2>2. e.contract = OwnLaid(family, db.contract)
      BY <1>1, MergedTables
    <2>3. p.contract = Over(w.contract, e.contract)
      BY <1>1, PatchTables
    <2>4. OwnFamilies(family)
      BY PledgeFamilies
    <2>5. Replaced(family, c, w.contract, more) /\ family[c] = <<>>
      BY AheadReplaced, NoneKeyed
    <2>6. DOMAIN w.contract \subseteq {c}
      BY DEF Keyed
    <2> HIDE DEF family, more
    <2> QED
      BY <1>2, <2>1, <2>2, <2>3, <2>4, <2>5, <2>6, OwnFirst
  <1>5. m.assignment = p.assignment
    <2> DEFINE family == RowsAhead(ahead)
               more   == RowsAhead(next)
    <2>1. m.assignment = Laid(more, db.assignment)
      BY <1>1, MergedTables
    <2>2. e.assignment = Laid(family, db.assignment)
      BY <1>1, MergedTables
    <2>3. p.assignment = Overwritten(c, e.assignment, w.rows)
      BY <1>1, PatchTables
    <2>4. Families(family)
      BY PledgeFamilies
    <2>5. Replaced(family, c, w.rows, more) /\ family[c] = <<>>
      BY AheadReplaced, NoneKeyed
    <2>6. ByWorker(db.assignment)
      BY DEF Formed
    <2> HIDE DEF family, more
    <2> QED
      BY <1>2, <2>1, <2>2, <2>3, <2>4, <2>5, <2>6, LaidFirst
  <1>6. m.submissions = p.submissions
    <2> DEFINE family == SubsAhead(ahead)
               more   == SubsAhead(next)
    <2>1. m.submissions = Laid(more, db.submissions)
      BY <1>1, MergedTables
    <2>2. e.submissions = Laid(family, db.submissions)
      BY <1>1, MergedTables
    <2>3. p.submissions = Overwritten(c, e.submissions, w.subs)
      BY <1>1, PatchTables
    <2>4. Families(family)
      BY PledgeFamilies
    <2>5. Replaced(family, c, w.subs, more) /\ family[c] = <<>>
      BY AheadReplaced, NoneKeyed
    <2>6. ByWorker(db.submissions)
      BY DEF Formed
    <2> HIDE DEF family, more
    <2> QED
      BY <1>2, <2>1, <2>2, <2>3, <2>4, <2>5, <2>6, LaidFirst
  <1>7. m.sessions = p.sessions
    <2> DEFINE family == DaysAhead(ahead)
               more   == DaysAhead(next)
    <2>1. m.sessions = Laid(more, db.sessions)
      BY <1>1, MergedTables
    <2>2. e.sessions = Laid(family, db.sessions)
      BY <1>1, MergedTables
    <2>3. p.sessions = Overwritten(c, e.sessions, w.days)
      BY <1>1, PatchTables
    <2>4. Families(family)
      BY PledgeFamilies
    <2>5. Replaced(family, c, w.days, more) /\ family[c] = <<>>
      BY AheadReplaced, NoneKeyed
    <2>6. ByWorker(db.sessions)
      BY DEF Formed
    <2> HIDE DEF family, more
    <2> QED
      BY <1>2, <2>1, <2>2, <2>3, <2>4, <2>5, <2>6, LaidFirst
  <1>8. m.dispute = p.dispute
    <2> DEFINE family == DisputesAhead(ahead)
               more   == DisputesAhead(next)
    <2>1. m.dispute = Laid(more, db.dispute)
      BY <1>1, MergedTables
    <2>2. e.dispute = Laid(family, db.dispute)
      BY <1>1, MergedTables
    <2>3. p.dispute = Overwritten(c, e.dispute, w.dispute)
      BY <1>1, PatchTables
    <2>4. Families(family)
      BY PledgeFamilies
    <2>5. Replaced(family, c, w.dispute, more) /\ family[c] = <<>>
      BY AheadReplaced, NoneKeyed
    <2>6. ByWorker(db.dispute)
      BY DEF Formed
    <2> HIDE DEF family, more
    <2> QED
      BY <1>2, <2>1, <2>2, <2>3, <2>4, <2>5, <2>6, LaidFirst
  <1> DEFINE others   == EntriesBeside(ahead, c)
             events   == AuditBeside(ahead, c)
             messages == NotesBeside(ahead, c)
  <1>9. /\ EntriesAhead(ahead) = others
        /\ EntriesAhead(next) = others \cup w.entries
        /\ AuditAhead(ahead) = events
        /\ AuditAhead(next) = events \cup w.audit
        /\ NotesAhead(ahead) = messages
        /\ NotesAhead(next) = messages \cup w.notes
    <2>1. ahead[c].entries = {} /\ ahead[c].audit = {} /\ ahead[c].notes = {}
      BY NoneKeyed
    <2>2. /\ EntriesAhead(ahead) = others \cup ahead[c].entries
          /\ EntriesAhead(next) = others \cup w.entries
          /\ AuditAhead(ahead) = events \cup ahead[c].audit
          /\ AuditAhead(next) = events \cup w.audit
          /\ NotesAhead(ahead) = messages \cup ahead[c].notes
          /\ NotesAhead(next) = messages \cup w.notes
      BY AheadBeside
    <2> QED
      BY <2>1, <2>2
  <1>10. m.balance = p.balance
    <2>1. m.balance = Paid(EntriesAhead(next), db.balance)
      BY <1>1, MergedTables
    <2>2. e.balance = Paid(EntriesAhead(ahead), db.balance)
      BY <1>1, MergedTables
    <2>3. p.balance = Paid(w.entries, e.balance)
      BY <1>1, PatchTables
    <2>4. OncePerUser(others)
      BY <1>9, PledgeFamilies
    <2>5. OncePerUser(w.entries)
      BY DEF Keyed, OncePerUser
    <2>6. \A a \in w.entries, b \in others : a.user # b.user
      BY DEF PaysApart, EntriesBeside
    <2>7. Paid(w.entries \cup others, db.balance) = Paid(w.entries, Paid(others, db.balance))
      BY <2>4, <2>5, <2>6, PaidTogether
    <2>8. w.entries \cup others = others \cup w.entries
      OBVIOUS
    <2> QED
      BY <1>9, <2>1, <2>2, <2>3, <2>7, <2>8
  <1>11. m.ledger = p.ledger
    <2>1. m.ledger = db.ledger \cup EntriesAhead(next)
            /\ e.ledger = db.ledger \cup EntriesAhead(ahead)
      BY <1>1, MergedTables
    <2>2. p.ledger = e.ledger \cup w.entries
      BY <1>1, PatchTables
    <2> QED
      BY <1>9, <2>1, <2>2
  <1>12. m.audit = p.audit
    <2>1. m.audit = db.audit \cup AuditAhead(next) /\ e.audit = db.audit \cup AuditAhead(ahead)
      BY <1>1, MergedTables
    <2>2. p.audit = e.audit \cup w.audit
      BY <1>1, PatchTables
    <2> QED
      BY <1>9, <2>1, <2>2
  <1>13. m.notifications = p.notifications
    <2>1. m.notifications = db.notifications \cup NotesAhead(next)
            /\ e.notifications = db.notifications \cup NotesAhead(ahead)
      BY <1>1, MergedTables
    <2>2. p.notifications = e.notifications \cup w.notes
      BY <1>1, PatchTables
    <2> QED
      BY <1>9, <2>1, <2>2
  <1>14. m = p
    <2>1. AreTables(m)
      BY <1>1, MergedRecord
    <2>2. AreTables(p)
      BY <1>1, PatchRecord
    <2> QED
      BY <2>1, <2>2, <1>3, <1>4, <1>5, <1>6, <1>7, <1>8, <1>10, <1>11, <1>12, <1>13, SameTables
  <1>15. Pledges(next)
    <2>1. /\ next = [d \in Campaigns |-> next[d]] /\ next[c] = w
          /\ \A d \in Campaigns \ {c} : next[d] = ahead[d]
      BY AheadOthers
    <2> QED
      BY <2>1 DEF Pledges, PaysApart
  <1> QED
    BY <1>14, <1>15 DEF e, m, p

\* Writes ahead of the tables that are committed.
LEMMA MergedLast ==
    ASSUME NEW db, Formed(db), NEW ahead, Pledges(ahead), NEW c \in Campaigns,
           NEW next, next = Promised(ahead, c, NoWrites)
    PROVE  Pledges(next) /\ Merged(Patch(c, ahead[c], db), next) = Merged(db, ahead)
  <1> DEFINE w == ahead[c]
             p == Patch(c, w, db)
             e == Merged(db, ahead)
             m == Merged(p, next)
  <1>1. e = Merged(db, ahead) /\ m = Merged(p, next) /\ p = Patch(c, w, db) /\ w = ahead[c]
    OBVIOUS
  <1>2. DOMAIN db.campaign = Campaigns /\ DOMAIN db.contract = Campaigns /\ Keyed(c, w)
    BY DEF Formed, Pledges
  <1> HIDE DEF e, m, p, w
  <1>3. m.campaign = e.campaign
    <2> DEFINE family == CampaignsAhead(ahead)
               less   == CampaignsAhead(next)
    <2>1. m.campaign = OwnLaid(less, p.campaign)
      BY <1>1, MergedTables
    <2>2. e.campaign = OwnLaid(family, db.campaign)
      BY <1>1, MergedTables
    <2>3. p.campaign = Over(w.campaign, db.campaign)
      BY <1>1, PatchTables
    <2>4. OwnFamilies(family)
      BY PledgeFamilies
    <2>5. Replaced(family, c, <<>>, less) /\ family[c] = w.campaign
      <3>1. Replaced(family, c, NoWrites.campaign, less) /\ family[c] = ahead[c].campaign
        BY AheadReplaced
      <3> QED
        BY <1>1, <3>1, NoneKeyed
    <2> HIDE DEF family, less
    <2> QED
      BY <1>2, <2>1, <2>2, <2>3, <2>4, <2>5, OwnLast
  <1>4. m.contract = e.contract
    <2> DEFINE family == ContractsAhead(ahead)
               less   == ContractsAhead(next)
    <2>1. m.contract = OwnLaid(less, p.contract)
      BY <1>1, MergedTables
    <2>2. e.contract = OwnLaid(family, db.contract)
      BY <1>1, MergedTables
    <2>3. p.contract = Over(w.contract, db.contract)
      BY <1>1, PatchTables
    <2>4. OwnFamilies(family)
      BY PledgeFamilies
    <2>5. Replaced(family, c, <<>>, less) /\ family[c] = w.contract
      <3>1. Replaced(family, c, NoWrites.contract, less) /\ family[c] = ahead[c].contract
        BY AheadReplaced
      <3> QED
        BY <1>1, <3>1, NoneKeyed
    <2> HIDE DEF family, less
    <2> QED
      BY <1>2, <2>1, <2>2, <2>3, <2>4, <2>5, OwnLast
  <1>5. m.assignment = e.assignment
    <2> DEFINE family == RowsAhead(ahead)
               less   == RowsAhead(next)
    <2>1. m.assignment = Laid(less, p.assignment)
      BY <1>1, MergedTables
    <2>2. e.assignment = Laid(family, db.assignment)
      BY <1>1, MergedTables
    <2>3. p.assignment = Overwritten(c, db.assignment, w.rows)
      BY <1>1, PatchTables
    <2>4. Families(family)
      BY PledgeFamilies
    <2>5. Replaced(family, c, <<>>, less) /\ family[c] = w.rows
      <3>1. Replaced(family, c, NoWrites.rows, less) /\ family[c] = ahead[c].rows
        BY AheadReplaced
      <3> QED
        BY <1>1, <3>1, NoneKeyed
    <2>6. ByWorker(db.assignment)
      BY DEF Formed
    <2> HIDE DEF family, less
    <2> QED
      BY <1>2, <2>1, <2>2, <2>3, <2>4, <2>5, <2>6, LaidLast
  <1>6. m.submissions = e.submissions
    <2> DEFINE family == SubsAhead(ahead)
               less   == SubsAhead(next)
    <2>1. m.submissions = Laid(less, p.submissions)
      BY <1>1, MergedTables
    <2>2. e.submissions = Laid(family, db.submissions)
      BY <1>1, MergedTables
    <2>3. p.submissions = Overwritten(c, db.submissions, w.subs)
      BY <1>1, PatchTables
    <2>4. Families(family)
      BY PledgeFamilies
    <2>5. Replaced(family, c, <<>>, less) /\ family[c] = w.subs
      <3>1. Replaced(family, c, NoWrites.subs, less) /\ family[c] = ahead[c].subs
        BY AheadReplaced
      <3> QED
        BY <1>1, <3>1, NoneKeyed
    <2>6. ByWorker(db.submissions)
      BY DEF Formed
    <2> HIDE DEF family, less
    <2> QED
      BY <1>2, <2>1, <2>2, <2>3, <2>4, <2>5, <2>6, LaidLast
  <1>7. m.sessions = e.sessions
    <2> DEFINE family == DaysAhead(ahead)
               less   == DaysAhead(next)
    <2>1. m.sessions = Laid(less, p.sessions)
      BY <1>1, MergedTables
    <2>2. e.sessions = Laid(family, db.sessions)
      BY <1>1, MergedTables
    <2>3. p.sessions = Overwritten(c, db.sessions, w.days)
      BY <1>1, PatchTables
    <2>4. Families(family)
      BY PledgeFamilies
    <2>5. Replaced(family, c, <<>>, less) /\ family[c] = w.days
      <3>1. Replaced(family, c, NoWrites.days, less) /\ family[c] = ahead[c].days
        BY AheadReplaced
      <3> QED
        BY <1>1, <3>1, NoneKeyed
    <2>6. ByWorker(db.sessions)
      BY DEF Formed
    <2> HIDE DEF family, less
    <2> QED
      BY <1>2, <2>1, <2>2, <2>3, <2>4, <2>5, <2>6, LaidLast
  <1>8. m.dispute = e.dispute
    <2> DEFINE family == DisputesAhead(ahead)
               less   == DisputesAhead(next)
    <2>1. m.dispute = Laid(less, p.dispute)
      BY <1>1, MergedTables
    <2>2. e.dispute = Laid(family, db.dispute)
      BY <1>1, MergedTables
    <2>3. p.dispute = Overwritten(c, db.dispute, w.dispute)
      BY <1>1, PatchTables
    <2>4. Families(family)
      BY PledgeFamilies
    <2>5. Replaced(family, c, <<>>, less) /\ family[c] = w.dispute
      <3>1. Replaced(family, c, NoWrites.dispute, less) /\ family[c] = ahead[c].dispute
        BY AheadReplaced
      <3> QED
        BY <1>1, <3>1, NoneKeyed
    <2>6. ByWorker(db.dispute)
      BY DEF Formed
    <2> HIDE DEF family, less
    <2> QED
      BY <1>2, <2>1, <2>2, <2>3, <2>4, <2>5, <2>6, LaidLast
  <1> DEFINE others   == EntriesBeside(ahead, c)
             events   == AuditBeside(ahead, c)
             messages == NotesBeside(ahead, c)
  <1>9. /\ EntriesAhead(ahead) = others \cup w.entries
        /\ EntriesAhead(next) = others
        /\ AuditAhead(ahead) = events \cup w.audit
        /\ AuditAhead(next) = events
        /\ NotesAhead(ahead) = messages \cup w.notes
        /\ NotesAhead(next) = messages
    <2>1. NoWrites.entries = {} /\ NoWrites.audit = {} /\ NoWrites.notes = {}
      BY NoneKeyed
    <2>2. /\ EntriesAhead(ahead) = others \cup ahead[c].entries
          /\ EntriesAhead(next) = others \cup NoWrites.entries
          /\ AuditAhead(ahead) = events \cup ahead[c].audit
          /\ AuditAhead(next) = events \cup NoWrites.audit
          /\ NotesAhead(ahead) = messages \cup ahead[c].notes
          /\ NotesAhead(next) = messages \cup NoWrites.notes
      BY AheadBeside
    <2> QED
      BY <1>1, <2>1, <2>2
  <1>10. m.balance = e.balance
    <2>1. m.balance = Paid(EntriesAhead(next), p.balance)
      BY <1>1, MergedTables
    <2>2. e.balance = Paid(EntriesAhead(ahead), db.balance)
      BY <1>1, MergedTables
    <2>3. p.balance = Paid(w.entries, db.balance)
      BY <1>1, PatchTables
    <2>4. OncePerUser(others)
      <3>1. others \subseteq EntriesAhead(ahead)
        BY <1>9
      <3> QED
        BY <3>1, PledgeFamilies DEF OncePerUser
    <2>5. OncePerUser(w.entries)
      BY <1>2 DEF Keyed, OncePerUser
    <2>6. \A a \in others, b \in w.entries : a.user # b.user
      BY <1>1 DEF Pledges, EntriesBeside
    <2>7. Paid(others \cup w.entries, db.balance) = Paid(others, Paid(w.entries, db.balance))
      BY <2>4, <2>5, <2>6, PaidTogether
    <2> QED
      BY <1>9, <2>1, <2>2, <2>3, <2>7
  <1>11. m.ledger = e.ledger
    <2>1. m.ledger = p.ledger \cup EntriesAhead(next) /\ e.ledger = db.ledger \cup EntriesAhead(ahead)
      BY <1>1, MergedTables
    <2>2. p.ledger = db.ledger \cup w.entries
      BY <1>1, PatchTables
    <2> QED
      BY <1>9, <2>1, <2>2
  <1>12. m.audit = e.audit
    <2>1. m.audit = p.audit \cup AuditAhead(next) /\ e.audit = db.audit \cup AuditAhead(ahead)
      BY <1>1, MergedTables
    <2>2. p.audit = db.audit \cup w.audit
      BY <1>1, PatchTables
    <2> QED
      BY <1>9, <2>1, <2>2
  <1>13. m.notifications = e.notifications
    <2>1. m.notifications = p.notifications \cup NotesAhead(next)
            /\ e.notifications = db.notifications \cup NotesAhead(ahead)
      BY <1>1, MergedTables
    <2>2. p.notifications = db.notifications \cup w.notes
      BY <1>1, PatchTables
    <2> QED
      BY <1>9, <2>1, <2>2
  <1>14. m = e
    <2>1. AreTables(m)
      BY <1>1, MergedRecord
    <2>2. AreTables(e)
      BY <1>1, MergedRecord
    <2> QED
      BY <2>1, <2>2, <1>3, <1>4, <1>5, <1>6, <1>7, <1>8, <1>10, <1>11, <1>12, <1>13, SameTables
  <1>15. Pledges(next)
    <2>1. /\ next = [d \in Campaigns |-> next[d]] /\ next[c] = NoWrites
          /\ \A d \in Campaigns \ {c} : next[d] = ahead[d]
      BY AheadOthers
    <2> QED
      BY <2>1, NoneKeyed DEF Pledges
  <1> QED
    BY <1>14, <1>15 DEF e, m, p, w

\* Writes that are committed past what is ahead of the tables.
LEMMA MergedPast ==
    ASSUME NEW db, Formed(db), NEW ahead, Pledges(ahead), NEW c \in Campaigns,
           NEW w, Keyed(c, w), Minor(w),
           DOMAIN w.rows \cap DOMAIN ahead[c].rows = {}, DOMAIN w.subs \cap DOMAIN ahead[c].subs = {},
           DOMAIN w.days \cap DOMAIN ahead[c].days = {},
           DOMAIN w.dispute \cap DOMAIN ahead[c].dispute = {}
    PROVE  Merged(Patch(c, w, db), ahead) = Patch(c, w, Merged(db, ahead))
  <1> DEFINE e == Merged(db, ahead)
             p == Patch(c, w, db)
             m == Merged(p, ahead)
             q == Patch(c, w, e)
  <1>1. e = Merged(db, ahead) /\ m = Merged(p, ahead) /\ p = Patch(c, w, db) /\ q = Patch(c, w, e)
    OBVIOUS
  <1> HIDE DEF e, m, p, q
  <1>2. Formed(e)
    BY <1>1, MergedFormed
  <1>3. m.campaign = q.campaign
    <2>1. Over(<<>>, db.campaign) = db.campaign /\ Over(<<>>, e.campaign) = e.campaign
      BY <1>2, OverNone DEF Formed
    <2>2. p.campaign = db.campaign /\ q.campaign = e.campaign
      BY <1>1, <2>1, PatchTables DEF Minor
    <2> QED
      BY <1>1, <2>2, MergedTables
  <1>4. m.contract = q.contract
    <2>1. Over(<<>>, db.contract) = db.contract /\ Over(<<>>, e.contract) = e.contract
      BY <1>2, OverNone DEF Formed
    <2>2. p.contract = db.contract /\ q.contract = e.contract
      BY <1>1, <2>1, PatchTables DEF Minor
    <2> QED
      BY <1>1, <2>2, MergedTables
  <1>5. m.assignment = q.assignment
    <2> DEFINE family == RowsAhead(ahead)
    <2>1. m.assignment = Laid(family, p.assignment) /\ e.assignment = Laid(family, db.assignment)
      BY <1>1, MergedTables
    <2>2. /\ p.assignment = Overwritten(c, db.assignment, w.rows)
          /\ q.assignment = Overwritten(c, e.assignment, w.rows)
      BY <1>1, PatchTables
    <2>3. Families(family) /\ family[c] = ahead[c].rows
      BY PledgeFamilies DEF RowsAhead
    <2>4. ByWorker(db.assignment) /\ DOMAIN w.rows \subseteq Users
      BY DEF Formed, Keyed
    <2> HIDE DEF family
    <2> QED
      BY <2>1, <2>2, <2>3, <2>4, LaidApart
  <1>6. m.submissions = q.submissions
    <2> DEFINE family == SubsAhead(ahead)
    <2>1. m.submissions = Laid(family, p.submissions) /\ e.submissions = Laid(family, db.submissions)
      BY <1>1, MergedTables
    <2>2. /\ p.submissions = Overwritten(c, db.submissions, w.subs)
          /\ q.submissions = Overwritten(c, e.submissions, w.subs)
      BY <1>1, PatchTables
    <2>3. Families(family) /\ family[c] = ahead[c].subs
      BY PledgeFamilies DEF SubsAhead
    <2>4. ByWorker(db.submissions) /\ DOMAIN w.subs \subseteq Users
      BY DEF Formed, Keyed
    <2> HIDE DEF family
    <2> QED
      BY <2>1, <2>2, <2>3, <2>4, LaidApart
  <1>7. m.sessions = q.sessions
    <2> DEFINE family == DaysAhead(ahead)
    <2>1. m.sessions = Laid(family, p.sessions) /\ e.sessions = Laid(family, db.sessions)
      BY <1>1, MergedTables
    <2>2. /\ p.sessions = Overwritten(c, db.sessions, w.days)
          /\ q.sessions = Overwritten(c, e.sessions, w.days)
      BY <1>1, PatchTables
    <2>3. Families(family) /\ family[c] = ahead[c].days
      BY PledgeFamilies DEF DaysAhead
    <2>4. ByWorker(db.sessions) /\ DOMAIN w.days \subseteq Users
      BY DEF Formed, Keyed
    <2> HIDE DEF family
    <2> QED
      BY <2>1, <2>2, <2>3, <2>4, LaidApart
  <1>8. m.dispute = q.dispute
    <2> DEFINE family == DisputesAhead(ahead)
    <2>1. m.dispute = Laid(family, p.dispute) /\ e.dispute = Laid(family, db.dispute)
      BY <1>1, MergedTables
    <2>2. /\ p.dispute = Overwritten(c, db.dispute, w.dispute)
          /\ q.dispute = Overwritten(c, e.dispute, w.dispute)
      BY <1>1, PatchTables
    <2>3. Families(family) /\ family[c] = ahead[c].dispute
      BY PledgeFamilies DEF DisputesAhead
    <2>4. ByWorker(db.dispute) /\ DOMAIN w.dispute \subseteq Users
      BY DEF Formed, Keyed
    <2> HIDE DEF family
    <2> QED
      BY <2>1, <2>2, <2>3, <2>4, LaidApart
  <1>9. m.balance = q.balance
    <2>1. Paid({}, db.balance) = db.balance /\ Paid({}, e.balance) = e.balance
      BY <1>2 DEF Formed, Paid
    <2>2. p.balance = db.balance /\ q.balance = e.balance
      <3>1. p.balance = Paid(w.entries, db.balance)
        BY <1>1, PatchTables
      <3>2. q.balance = Paid(w.entries, e.balance)
        BY <1>1, PatchTables
      <3> QED
        BY <2>1, <3>1, <3>2 DEF Minor
    <2>3. m.balance = Paid(EntriesAhead(ahead), p.balance)
      BY <1>1, MergedTables
    <2>4. e.balance = Paid(EntriesAhead(ahead), db.balance)
      BY <1>1, MergedTables
    <2> QED
      BY <2>2, <2>3, <2>4
  <1>10. m.ledger = q.ledger
    <2>1. m.ledger = p.ledger \cup EntriesAhead(ahead)
            /\ e.ledger = db.ledger \cup EntriesAhead(ahead)
      BY <1>1, MergedTables
    <2>2. p.ledger = db.ledger \cup w.entries /\ q.ledger = e.ledger \cup w.entries
      BY <1>1, PatchTables
    <2> QED
      BY <2>1, <2>2
  <1>11. m.audit = q.audit
    <2>1. m.audit = p.audit \cup AuditAhead(ahead) /\ e.audit = db.audit \cup AuditAhead(ahead)
      BY <1>1, MergedTables
    <2>2. p.audit = db.audit \cup w.audit /\ q.audit = e.audit \cup w.audit
      BY <1>1, PatchTables
    <2> QED
      BY <2>1, <2>2
  <1>12. m.notifications = q.notifications
    <2>1. m.notifications = p.notifications \cup NotesAhead(ahead)
            /\ e.notifications = db.notifications \cup NotesAhead(ahead)
      BY <1>1, MergedTables
    <2>2. p.notifications = db.notifications \cup w.notes
            /\ q.notifications = e.notifications \cup w.notes
      BY <1>1, PatchTables
    <2> QED
      BY <2>1, <2>2
  <1>13. m = q
    <2>1. AreTables(m)
      BY <1>1, MergedRecord
    <2>2. AreTables(q)
      BY <1>1, PatchRecord
    <2> QED
      BY <2>1, <2>2, <1>3, <1>4, <1>5, <1>6, <1>7, <1>8, <1>9, <1>10, <1>11, <1>12, SameTables
  <1> QED
    BY <1>13 DEF e, m, p, q

-----------------------------------------------------------------------------
(* The tables that a request leaves *)

\* A table that a request does not write stays as it is.
LEMMA PatchNone ==
    ASSUME NEW db, Formed(db), NEW c \in Campaigns, NEW w, NEW p, p = Patch(c, w, db)
    PROVE  /\ w.campaign = <<>> => p.campaign = db.campaign
           /\ w.contract = <<>> => p.contract = db.contract
           /\ w.rows = <<>> => p.assignment = db.assignment
           /\ w.subs = <<>> => p.submissions = db.submissions
           /\ w.days = <<>> => p.sessions = db.sessions
           /\ w.dispute = <<>> => p.dispute = db.dispute
           /\ w.entries = {} => p.balance = db.balance /\ p.ledger = db.ledger
           /\ p.ledger = db.ledger \cup w.entries
           /\ p.audit = db.audit \cup w.audit
           /\ p.notifications = db.notifications \cup w.notes
  <1>1. /\ Over(<<>>, db.campaign) = db.campaign
        /\ Over(<<>>, db.contract) = db.contract
    BY OverNone DEF Formed
  <1>2. ASSUME NEW table, ByWorker(table)
        PROVE  Overwritten(c, table, <<>>) = table
    <2>1. Over(<<>>, table[c]) = table[c]
      <3>1. table[c] = [t \in Users |-> table[c][t]]
        BY <1>2, WorkerTable
      <3> QED
        BY <3>1, OverNone
    <2>2. table = [d \in Campaigns |-> table[d]]
      BY <1>2, WorkerTable
    <2> QED
      BY <2>1, <2>2 DEF Overwritten
  <1>3. /\ Overwritten(c, db.assignment, <<>>) = db.assignment
        /\ Overwritten(c, db.submissions, <<>>) = db.submissions
        /\ Overwritten(c, db.sessions, <<>>) = db.sessions
        /\ Overwritten(c, db.dispute, <<>>) = db.dispute
    BY <1>2 DEF Formed
  <1>4. Paid({}, db.balance) = db.balance
    BY DEF Formed, Paid
  <1>5. /\ p.campaign = Over(w.campaign, db.campaign)
        /\ p.contract = Over(w.contract, db.contract)
        /\ p.assignment = Overwritten(c, db.assignment, w.rows)
        /\ p.submissions = Overwritten(c, db.submissions, w.subs)
        /\ p.sessions = Overwritten(c, db.sessions, w.days)
        /\ p.dispute = Overwritten(c, db.dispute, w.dispute)
    BY PatchTables
  <1>6. /\ p.balance = Paid(w.entries, db.balance)
        /\ p.ledger = db.ledger \cup w.entries
        /\ p.audit = db.audit \cup w.audit
        /\ p.notifications = db.notifications \cup w.notes
    BY PatchTables
  <1>7. /\ w.campaign = <<>> => p.campaign = db.campaign
        /\ w.contract = <<>> => p.contract = db.contract
    BY <1>1, <1>5
  <1>8. /\ w.rows = <<>> => p.assignment = db.assignment
        /\ w.subs = <<>> => p.submissions = db.submissions
        /\ w.days = <<>> => p.sessions = db.sessions
        /\ w.dispute = <<>> => p.dispute = db.dispute
    BY <1>3, <1>5
  <1>9. w.entries = {} => p.balance = db.balance /\ p.ledger = db.ledger
    BY <1>4, <1>6
  <1> QED
    BY <1>6, <1>7, <1>8, <1>9

\* One row written, in a table by campaign.
LEMMA OverOwn ==
    ASSUME NEW table, table = [d \in Campaigns |-> table[d]], NEW c \in Campaigns, NEW x
    PROVE  Over(At(c, x), table) = [table EXCEPT ![c] = x]
  <1>1. DOMAIN At(c, x) = {c} /\ At(c, x)[c] = x
    BY OneKey
  <1> DEFINE rows == At(c, x)
  <1> HIDE DEF rows
  <1>2. /\ Over(rows, table) = [d \in Campaigns |-> Over(rows, table)[d]]
        /\ \A d \in Campaigns : Over(rows, table)[d] = IF d \in DOMAIN rows THEN rows[d] ELSE table[d]
    BY <1>1, OwnOver DEF rows
  <1>3. \A d \in Campaigns : Over(rows, table)[d] = IF d = c THEN x ELSE table[d]
    BY <1>1, <1>2 DEF rows
  <1>4. Over(rows, table) = [table EXCEPT ![c] = x]
    BY <1>2, <1>3
  <1> QED
    BY <1>4 DEF rows

\* One row written, in a table by campaign and tester.
LEMMA OverWork ==
    ASSUME NEW table, ByWorker(table), NEW c \in Campaigns, NEW t \in Users, NEW x
    PROVE  Overwritten(c, table, At(t, x)) = [table EXCEPT ![c][t] = x]
  <1>1. DOMAIN At(t, x) = {t} /\ At(t, x)[t] = x
    BY OneKey
  <1> DEFINE rows == At(t, x)
  <1> HIDE DEF rows
  <1>2. table[c] = [u \in Users |-> table[c][u]]
    BY WorkerTable
  <1>3. Over(rows, table[c]) = [table[c] EXCEPT ![t] = x]
    <2>1. Over(rows, table[c]) =
            [u \in Users |-> IF u \in DOMAIN rows THEN rows[u] ELSE table[c][u]]
      BY <1>1, <1>2, OverCells DEF rows
    <2> QED
      BY <1>1, <1>2, <2>1 DEF rows
  <1>4. Overwritten(c, table, rows) = [table EXCEPT ![c] = Over(rows, table[c])]
    BY WorkerTable DEF Overwritten
  <1>5. Overwritten(c, table, rows) = [table EXCEPT ![c] = [table[c] EXCEPT ![t] = x]]
    BY <1>3, <1>4
  <1> QED
    BY <1>5, WorkerTable DEF rows

\* One entry posted.
LEMMA PaidOne ==
    ASSUME NEW accounts, accounts = [u \in Users |-> accounts[u]], NEW e, e.user \in Users
    PROVE  Paid({e}, accounts) = [accounts EXCEPT ![e.user] = @ + e.delta]
  <1> DEFINE entries == {e}
  <1>1. OncePerUser(entries)
    BY DEF OncePerUser
  <1>2. e \in entries /\ \A f \in entries : f = e
    OBVIOUS
  <1> HIDE DEF entries
  <1>3. /\ Paid(entries, accounts) = [u \in Users |-> Paid(entries, accounts)[u]]
        /\ \A u \in Users : (\A f \in entries : f.user # u) =>
             Paid(entries, accounts)[u] = accounts[u]
        /\ \A f \in entries : f.user \in Users =>
             Paid(entries, accounts)[f.user] = accounts[f.user] + f.delta
    BY <1>1, PaidCells
  <1>4. \A u \in Users : Paid(entries, accounts)[u] =
             IF u = e.user THEN accounts[e.user] + e.delta ELSE accounts[u]
    BY <1>2, <1>3
  <1>5. Paid(entries, accounts) = [accounts EXCEPT ![e.user] = accounts[e.user] + e.delta]
    BY <1>3, <1>4
  <1> QED
    BY <1>5 DEF entries

\* The table of which a request writes one row.
LEMMA PatchOne ==
    ASSUME NEW db, Formed(db), NEW c \in Campaigns, NEW w, NEW p, p = Patch(c, w, db)
    PROVE  /\ \A x : w.campaign = At(c, x) => p.campaign = [db.campaign EXCEPT ![c] = x]
           /\ \A x : w.contract = At(c, x) => p.contract = [db.contract EXCEPT ![c] = x]
           /\ \A t \in Users : \A x : w.rows = At(t, x) =>
                p.assignment = [db.assignment EXCEPT ![c][t] = x]
           /\ \A t \in Users : \A x : w.subs = At(t, x) =>
                p.submissions = [db.submissions EXCEPT ![c][t] = x]
           /\ \A t \in Users : \A x : w.days = At(t, x) =>
                p.sessions = [db.sessions EXCEPT ![c][t] = x]
           /\ \A t \in Users : \A x : w.dispute = At(t, x) =>
                p.dispute = [db.dispute EXCEPT ![c][t] = x]
           /\ \A e : w.entries = {e} /\ e.user \in Users =>
                p.balance = [db.balance EXCEPT ![e.user] = @ + e.delta]
  <1>1. /\ p.campaign = Over(w.campaign, db.campaign)
        /\ p.contract = Over(w.contract, db.contract)
        /\ p.assignment = Overwritten(c, db.assignment, w.rows)
        /\ p.submissions = Overwritten(c, db.submissions, w.subs)
        /\ p.sessions = Overwritten(c, db.sessions, w.days)
        /\ p.dispute = Overwritten(c, db.dispute, w.dispute)
    BY PatchTables
  <1>2. p.balance = Paid(w.entries, db.balance)
    BY PatchTables
  <1>3. /\ db.campaign = [d \in Campaigns |-> db.campaign[d]]
        /\ db.contract = [d \in Campaigns |-> db.contract[d]]
        /\ db.balance = [u \in Users |-> db.balance[u]]
    BY DEF Formed
  <1>4. /\ ByWorker(db.assignment) /\ ByWorker(db.submissions) /\ ByWorker(db.sessions)
        /\ ByWorker(db.dispute)
    BY DEF Formed
  <1>5. ASSUME NEW x, w.campaign = At(c, x)
        PROVE  p.campaign = [db.campaign EXCEPT ![c] = x]
    BY <1>1, <1>3, <1>5, OverOwn
  <1>6. ASSUME NEW x, w.contract = At(c, x)
        PROVE  p.contract = [db.contract EXCEPT ![c] = x]
    BY <1>1, <1>3, <1>6, OverOwn
  <1>7. ASSUME NEW t \in Users, NEW x, w.rows = At(t, x)
        PROVE  p.assignment = [db.assignment EXCEPT ![c][t] = x]
    BY <1>1, <1>4, <1>7, OverWork
  <1>8. ASSUME NEW t \in Users, NEW x, w.subs = At(t, x)
        PROVE  p.submissions = [db.submissions EXCEPT ![c][t] = x]
    BY <1>1, <1>4, <1>8, OverWork
  <1>9. ASSUME NEW t \in Users, NEW x, w.days = At(t, x)
        PROVE  p.sessions = [db.sessions EXCEPT ![c][t] = x]
    BY <1>1, <1>4, <1>9, OverWork
  <1>10. ASSUME NEW t \in Users, NEW x, w.dispute = At(t, x)
         PROVE  p.dispute = [db.dispute EXCEPT ![c][t] = x]
    BY <1>1, <1>4, <1>10, OverWork
  <1>11. ASSUME NEW e, w.entries = {e}, e.user \in Users
         PROVE  p.balance = [db.balance EXCEPT ![e.user] = @ + e.delta]
    <2>1. Paid({e}, db.balance) = [db.balance EXCEPT ![e.user] = @ + e.delta]
      BY <1>3, <1>11, PaidOne
    <2> QED
      BY <1>2, <1>11, <2>1
  <1> QED
    BY <1>5, <1>6, <1>7, <1>8, <1>9, <1>10, <1>11

\* A row of the assignments.
LEMMA PatchRow ==
    ASSUME NEW db, Formed(db), NEW c \in Campaigns, NEW w, NEW t \in Users, NEW x,
           w.rows = At(t, x), NEW p, p = Patch(c, w, db)
    PROVE  p.assignment = [db.assignment EXCEPT ![c][t] = x]
  BY PatchOne

\* The versions of one work.
LEMMA PatchVersions ==
    ASSUME NEW db, Formed(db), NEW c \in Campaigns, NEW w, NEW t \in Users, NEW x,
           w.subs = At(t, x), NEW p, p = Patch(c, w, db)
    PROVE  p.submissions = [db.submissions EXCEPT ![c][t] = x]
  BY PatchOne

\* A dispute.
LEMMA PatchCase ==
    ASSUME NEW db, Formed(db), NEW c \in Campaigns, NEW w, NEW t \in Users, NEW x,
           w.dispute = At(t, x), NEW p, p = Patch(c, w, db)
    PROVE  p.dispute = [db.dispute EXCEPT ![c][t] = x]
  BY PatchOne

-----------------------------------------------------------------------------
(* The columns of what a request writes *)

\* maybe_complete_campaign adds the campaign's row and an event, or nothing.
LEMMA CompletingColumns ==
    ASSUME NEW w, IsWrites(w), NEW r, NEW camp, NEW rows, NEW v, v = Completing(w, r, camp, rows)
    PROVE  /\ v.campaign = IF CompletionDue(camp, rows) THEN At(r.c, MaybeCompleted(camp, rows))
                                                        ELSE w.campaign
           /\ v.audit = w.audit \cup CompletionAudit(r.by, r.c, camp, rows)
           /\ v.contract = w.contract /\ v.rows = w.rows /\ v.subs = w.subs /\ v.days = w.days
           /\ v.dispute = w.dispute /\ v.entries = w.entries /\ v.notes = w.notes
  <1> DEFINE x == At(r.c, MaybeCompleted(camp, rows))
             events == CompletionAudit(r.by, r.c, camp, rows)
             y == w.audit \cup events
  <1>1. CASE CompletionDue(camp, rows)
    <2>1. v = [w EXCEPT !.campaign = x, !.audit = y]
      BY <1>1 DEF Completing, IsWrites
    <2> HIDE DEF x, y
    <2>2. v = [campaign |-> x, contract |-> w.contract, rows |-> w.rows, subs |-> w.subs,
               days |-> w.days, dispute |-> w.dispute, entries |-> w.entries, audit |-> y,
               notes |-> w.notes]
      BY <2>1 DEF IsWrites
    <2>3. /\ v.campaign = x /\ v.audit = y
          /\ v.contract = w.contract /\ v.rows = w.rows /\ v.subs = w.subs /\ v.days = w.days
          /\ v.dispute = w.dispute /\ v.entries = w.entries /\ v.notes = w.notes
      BY <2>2
    <2> QED
      BY <1>1, <2>3 DEF x, y
  <1>2. CASE ~CompletionDue(camp, rows)
    <2>1. v = w /\ events = {}
      BY <1>2 DEF Completing, CompletionAudit
    <2> QED
      BY <1>2, <2>1
  <1> QED
    BY <1>1, <1>2

\* Which writes an operation stands for.
LEMMA WritesOf ==
    ASSUME NEW r, NEW s
    PROVE  /\ r.op \in OwnerOps => Writes(r, s) = OwnerWrites(r, s)
           /\ r.op \in TesterOps => Writes(r, s) = TesterWrites(r, s)
           /\ r.op = "review" => Writes(r, s) = ReviewWrites(r, s)
           /\ r.op \in ModeratorOps => Writes(r, s) = ModeratorWrites(r, s)
  BY DEF Writes, OwnerOps, TesterOps, ModeratorOps

\* What is written to launch a campaign.
Launches(r, s, w) ==
    /\ w.campaign = At(r.c, [DraftRow(r.by, r.target, r.reward) EXCEPT !.status = "published"])
    /\ w.contract = At(r.c, [status |-> "locked", terms |-> r.terms])
    /\ w.rows = <<>> /\ w.subs = <<>> /\ w.days = <<>> /\ w.dispute = <<>>
    /\ w.entries = Entry(s, r.by, -PostingCost(r.target, r.reward), PostingKey(r.c))
    /\ w.audit = {Audited(r.by, action, r.c) :
                    action \in {"campaign.created", "contract.saved", "campaign.published"}}
    /\ w.notes = {}

\* It is what such a request writes.
LEMMA LaunchColumns ==
    ASSUME NEW r, r.op = "launch", NEW s, NEW w, w = Writes(r, s)
    PROVE  Launches(r, s, w)
  <1>1. w = Launching(r, s)
    BY WritesOf DEF OwnerWrites, OwnerOps
  <1> QED
    BY <1>1 DEF Launching, NoWrites, Launches

\* What is written to close it.
Closes(r, s, w, pending, rows, closed) ==
    /\ w.campaign = At(r.c, MaybeCompleted(closed, rows))
    /\ w.contract = <<>> /\ w.rows = [t \in pending |-> Cancelled(s.rows[t])]
    /\ w.subs = <<>> /\ w.days = <<>> /\ w.dispute = <<>> /\ w.entries = {}
    /\ w.audit = {Audited(r.by, "assignment.declined", <<r.c, t>>) : t \in pending}
                   \cup {Audited(r.by, "campaign.closed", r.c)}
                   \cup CompletionAudit(r.by, r.c, closed, rows)
    /\ w.notes = {Notified(t, "application_closed", r.c, t, 0) : t \in pending}

\* It is what such a request writes.
LEMMA CloseColumns ==
    ASSUME NEW r, r.op = "close", NEW s, NEW w, w = Writes(r, s),
           NEW pending, pending = Pending(s.rows), NEW rows, rows = Closing(s.rows),
           NEW closed, closed = [s.campaign EXCEPT !.status = "cancelled"]
    PROVE  Closes(r, s, w, pending, rows, closed)
  <1> DEFINE x == At(r.c, closed)
             cancelled == [t \in pending |-> Cancelled(s.rows[t])]
             y == {Audited(r.by, "assignment.declined", <<r.c, t>>) : t \in pending}
                    \cup {Audited(r.by, "campaign.closed", r.c)}
             z == {Notified(t, "application_closed", r.c, t, 0) : t \in pending}
             v == [NoWrites EXCEPT !.campaign = x, !.rows = cancelled, !.audit = y, !.notes = z]
  <1>1. w = OwnerWrites(r, s)
    BY WritesOf DEF OwnerOps
  <1>2. w = Completing(v, r, closed, rows)
    BY <1>1 DEF OwnerWrites
  <1> HIDE DEF x, y, z, cancelled
  <1>3. v = [NoWrites EXCEPT !.campaign = x, !.rows = cancelled, !.audit = y, !.notes = z]
    OBVIOUS
  <1> HIDE DEF v
  <1>4. v = [campaign |-> x, contract |-> <<>>, rows |-> cancelled, subs |-> <<>>, days |-> <<>>,
             dispute |-> <<>>, entries |-> {}, audit |-> y, notes |-> z]
    BY <1>3 DEF NoWrites
  <1>5. /\ IsWrites(v) /\ v.campaign = x /\ v.contract = <<>> /\ v.rows = cancelled /\ v.subs = <<>>
        /\ v.days = <<>> /\ v.dispute = <<>> /\ v.entries = {} /\ v.audit = y /\ v.notes = z
    BY <1>4 DEF IsWrites
  <1>6. /\ w.campaign = IF CompletionDue(closed, rows) THEN At(r.c, MaybeCompleted(closed, rows))
                                                       ELSE v.campaign
        /\ w.audit = v.audit \cup CompletionAudit(r.by, r.c, closed, rows)
        /\ w.contract = v.contract /\ w.rows = v.rows /\ w.subs = v.subs /\ w.days = v.days
        /\ w.dispute = v.dispute /\ w.entries = v.entries /\ w.notes = v.notes
    BY <1>2, <1>5, CompletingColumns
  <1>7. w.campaign = At(r.c, MaybeCompleted(closed, rows))
    <2>1. ~CompletionDue(closed, rows) => MaybeCompleted(closed, rows) = closed
      BY DEF MaybeCompleted
    <2> QED
      BY <1>5, <1>6, <2>1 DEF x
  <1> QED
    BY <1>5, <1>6, <1>7 DEF cancelled, y, z, Closes

\* What is written to accept an application.
Accepts(r, s, w) ==
    /\ w.campaign = <<>> /\ w.contract = <<>>
    /\ w.rows = At(r.t, [s.rows[r.t] EXCEPT !.status = "accepted", !.accepted_at = TRUE])
    /\ w.subs = <<>> /\ w.days = <<>> /\ w.dispute = <<>> /\ w.entries = {}
    /\ w.audit = {Audited(r.by, "assignment.accepted", <<r.c, r.t>>)}
    /\ w.notes = {Notified(r.t, "application_accepted", r.c, r.t, 0)}

\* It is what such a request writes.
LEMMA AcceptColumns ==
    ASSUME NEW r, r.op = "accept", NEW s, NEW w, w = Writes(r, s)
    PROVE  Accepts(r, s, w)
  <1>1. w = OwnerWrites(r, s)
    BY WritesOf DEF OwnerOps
  <1> QED
    BY <1>1 DEF OwnerWrites, NoWrites, Accepts

\* What is written to decline it.
Declines(r, s, w) ==
    /\ w.campaign = <<>> /\ w.contract = <<>>
    /\ w.rows = At(r.t, Cancelled(s.rows[r.t]))
    /\ w.subs = <<>> /\ w.days = <<>> /\ w.dispute = <<>> /\ w.entries = {}
    /\ w.audit = {Audited(r.by, "assignment.declined", <<r.c, r.t>>)}
    /\ w.notes = {Notified(r.t, "application_declined", r.c, r.t, 0)}

\* It is what such a request writes.
LEMMA DeclineColumns ==
    ASSUME NEW r, r.op = "decline", NEW s, NEW w, w = Writes(r, s)
    PROVE  Declines(r, s, w)
  <1>1. w = OwnerWrites(r, s)
    BY WritesOf DEF OwnerOps
  <1> QED
    BY <1>1 DEF OwnerWrites, NoWrites, Declines

\* What is written to apply.
Applies(r, s, w) ==
    /\ w.campaign = <<>> /\ w.contract = <<>>
    /\ w.rows = At(r.by, [s.rows[r.by] EXCEPT !.status = "applied"])
    /\ w.subs = <<>> /\ w.days = <<>> /\ w.dispute = <<>> /\ w.entries = {}
    /\ w.audit = {Audited(r.by, "assignment.applied", <<r.c, r.by>>)}
    /\ w.notes = {Notified(s.campaign.owner, "application_received", r.c, r.by, 0)}

\* It is what such a request writes.
LEMMA ApplyColumns ==
    ASSUME NEW r, r.op = "apply", NEW s, NEW w, w = Writes(r, s)
    PROVE  Applies(r, s, w)
  <1>1. w = TesterWrites(r, s)
    BY WritesOf DEF TesterOps
  <1> QED
    BY <1>1 DEF TesterWrites, NoWrites, Applies

\* What is written to withdraw.
Withdraws(r, s, w, message, mine, seen) ==
    /\ w.campaign = IF CompletionDue(s.campaign, seen)
                    THEN At(r.c, MaybeCompleted(s.campaign, seen)) ELSE <<>>
    /\ w.contract = <<>> /\ w.rows = mine
    /\ w.subs = <<>> /\ w.days = <<>> /\ w.dispute = <<>> /\ w.entries = {}
    /\ w.audit = {Audited(r.by, "assignment.withdrawn", <<r.c, r.by>>)}
                   \cup CompletionAudit(r.by, r.c, s.campaign, seen)
    /\ w.notes = {message}

\* It is what such a request writes.
LEMMA WithdrawColumns ==
    ASSUME NEW r, r.op = "withdraw", NEW s, NEW w, w = Writes(r, s),
           NEW message, message = Notified(s.campaign.owner, "tester_withdrew", r.c, r.by, 0),
           NEW mine, mine = At(r.by, Cancelled(s.rows[r.by])),
           NEW seen, seen = IF message \in s.withdrawals THEN s.rows ELSE Over(mine, s.rows)
    PROVE  Withdraws(r, s, w, message, mine, seen)
  <1> DEFINE events == {Audited(r.by, "assignment.withdrawn", <<r.c, r.by>>)}
             notes == {message}
             v == [NoWrites EXCEPT !.audit = events, !.notes = notes, !.rows = mine]
  <1>1. w = TesterWrites(r, s)
    BY WritesOf DEF TesterOps
  <1>2. w = Completing(v, r, s.campaign, seen)
    <2>1. w = Completing([[NoWrites EXCEPT !.audit = events, !.notes = notes] EXCEPT !.rows = mine],
                         r, s.campaign, seen)
      BY <1>1 DEF TesterWrites
    <2> QED
      BY <2>1
  <1> HIDE DEF events, notes
  <1>3. v = [NoWrites EXCEPT !.audit = events, !.notes = notes, !.rows = mine]
    OBVIOUS
  <1> HIDE DEF v
  <1>4. v = [campaign |-> <<>>, contract |-> <<>>, rows |-> mine, subs |-> <<>>, days |-> <<>>,
             dispute |-> <<>>, entries |-> {}, audit |-> events, notes |-> notes]
    BY <1>3 DEF NoWrites
  <1>5. /\ IsWrites(v) /\ v.campaign = <<>> /\ v.contract = <<>> /\ v.rows = mine /\ v.subs = <<>>
        /\ v.days = <<>> /\ v.dispute = <<>> /\ v.entries = {} /\ v.audit = events /\ v.notes = notes
    BY <1>4 DEF IsWrites
  <1>6. /\ w.campaign = IF CompletionDue(s.campaign, seen)
                        THEN At(r.c, MaybeCompleted(s.campaign, seen)) ELSE v.campaign
        /\ w.audit = v.audit \cup CompletionAudit(r.by, r.c, s.campaign, seen)
        /\ w.contract = v.contract /\ w.rows = v.rows /\ w.subs = v.subs /\ w.days = v.days
        /\ w.dispute = v.dispute /\ w.entries = v.entries /\ w.notes = v.notes
    BY <1>2, <1>5, CompletingColumns
  <1> QED
    BY <1>5, <1>6 DEF events, notes, Withdraws

\* What is written to record a session.
Records(r, s, w) ==
    /\ w.campaign = <<>> /\ w.contract = <<>> /\ w.rows = <<>> /\ w.subs = <<>>
    /\ w.days = At(r.by, s.days[r.by] \cup {s.now \div TicksPerDay})
    /\ w.dispute = <<>> /\ w.entries = {}
    /\ w.audit = {Audited(r.by, "testing_session.recorded", <<r.c, r.by>>)}
    /\ w.notes = {}

\* It is what such a request writes.
LEMMA SessionColumns ==
    ASSUME NEW r, r.op = "session", NEW s, NEW w, w = Writes(r, s)
    PROVE  Records(r, s, w)
  <1>1. w = TesterWrites(r, s)
    BY WritesOf DEF TesterOps
  <1> QED
    BY <1>1 DEF TesterWrites, NoWrites, Records

\* What is written to submit evidence.
Submits(r, s, w) ==
    /\ w.campaign = <<>> /\ w.contract = <<>>
    /\ w.rows = At(r.by, [s.rows[r.by] EXCEPT !.status = "submitted"])
    /\ w.subs = At(r.by, Append(s.subs[r.by], [status |-> "submitted", submitted_at |-> s.now,
                                               review |-> "none"]))
    /\ w.days = <<>> /\ w.dispute = <<>> /\ w.entries = {}
    /\ w.audit = {Audited(r.by, "submission.created", <<r.c, r.by>>)}
    /\ w.notes = {Notified(s.campaign.owner, "submission_received", r.c, r.by,
                           Len(s.subs[r.by]) + 1)}

\* It is what such a request writes.
LEMMA SubmitColumns ==
    ASSUME NEW r, r.op = "submit", NEW s, NEW w, w = Writes(r, s)
    PROVE  Submits(r, s, w)
  <1>1. w = TesterWrites(r, s)
    BY WritesOf DEF TesterOps
  <1> QED
    BY <1>1 DEF TesterWrites, NoWrites, Submits

\* What is written to escalate.
Escalates(r, s, w) ==
    /\ w.campaign = <<>> /\ w.contract = <<>> /\ w.rows = <<>> /\ w.subs = <<>>
    /\ w.days = <<>>
    /\ w.dispute = At(r.by, [s.dispute[r.by] EXCEPT !.status = "open", !.version = r.v])
    /\ w.entries = {}
    /\ w.audit = {Audited(r.by, "dispute.opened", <<r.c, r.by>>)}
    /\ w.notes = {Notified(s.campaign.owner, "dispute_opened", r.c, r.by, 0)}

\* It is what such a request writes.
LEMMA EscalateColumns ==
    ASSUME NEW r, r.op = "escalate", NEW s, NEW w, w = Writes(r, s)
    PROVE  Escalates(r, s, w)
  <1>1. w = TesterWrites(r, s)
    BY WritesOf DEF TesterOps
  <1> QED
    BY <1>1 DEF TesterWrites, NoWrites, Escalates

\* What is written to reject work or ask for changes.
Reviews(r, s, w) ==
    /\ w.campaign = <<>> /\ w.contract = <<>>
    /\ w.rows = At(r.t, [s.rows[r.t] EXCEPT !.status = r.decision])
    /\ w.subs = At(r.t, [s.subs[r.t] EXCEPT ![r.v].status = r.decision,
                                            ![r.v].review = r.decision])
    /\ w.days = <<>> /\ w.dispute = <<>> /\ w.entries = {}
    /\ w.audit = {Audited(r.by, ReviewAction[r.decision], <<r.c, r.t>>)}
    /\ w.notes = {Notified(r.t, "submission_reviewed", r.c, r.t, r.v)}

\* It is what such a request writes.
LEMMA ReviewedColumns ==
    ASSUME NEW r, r.op = "review", r.decision # "approved", NEW s, NEW w, w = Writes(r, s)
    PROVE  Reviews(r, s, w)
  <1>1. w = ReviewWrites(r, s)
    BY WritesOf
  <1> DEFINE x == At(r.t, [s.rows[r.t] EXCEPT !.status = r.decision])
             y == At(r.t, [s.subs[r.t] EXCEPT ![r.v].status = r.decision,
                                              ![r.v].review = r.decision])
             events == {Audited(r.by, ReviewAction[r.decision], <<r.c, r.t>>)}
             notes == {Notified(r.t, "submission_reviewed", r.c, r.t, r.v)}
  <1>2. w = [NoWrites EXCEPT !.subs = y, !.rows = x, !.audit = events, !.notes = notes]
    BY <1>1 DEF ReviewWrites
  <1> HIDE DEF x, y, events, notes
  <1>3. w = [campaign |-> <<>>, contract |-> <<>>, rows |-> x, subs |-> y, days |-> <<>>,
             dispute |-> <<>>, entries |-> {}, audit |-> events, notes |-> notes]
    BY <1>2 DEF NoWrites
  <1>4. /\ w.campaign = <<>> /\ w.contract = <<>> /\ w.rows = x /\ w.subs = y /\ w.days = <<>>
        /\ w.dispute = <<>> /\ w.entries = {} /\ w.audit = events /\ w.notes = notes
    BY <1>3
  <1> QED
    BY <1>4, Zenon DEF x, y, events, notes, Reviews

\* What an approval adds to the writes of the review or the award.
LEMMA ApprovingColumns ==
    ASSUME NEW w, IsWrites(w), w.campaign = <<>>, NEW r, NEW s, NEW v, v = Approving(w, r, s),
           NEW row, row = At(r.t, ApprovedRow(s.rows[r.t])), NEW seen, seen = Over(row, s.rows)
    PROVE  /\ v.campaign = IF CompletionDue(s.campaign, seen)
                           THEN At(r.c, MaybeCompleted(s.campaign, seen)) ELSE <<>>
           /\ v.contract = w.contract /\ v.rows = row /\ v.subs = w.subs
           /\ v.days = w.days /\ v.dispute = w.dispute
           /\ v.entries = Entry(s, r.t, s.campaign.reward, RewardKey(r.c, r.t))
           /\ v.audit = w.audit \cup CompletionAudit(r.by, r.c, s.campaign, seen)
           /\ v.notes = w.notes
  <1> DEFINE e == Entry(s, r.t, s.campaign.reward, RewardKey(r.c, r.t))
             u == [w EXCEPT !.rows = row, !.entries = e]
  <1>1. v = Completing(u, r, s.campaign, seen)
    BY DEF Approving
  <1> HIDE DEF e
  <1>2. u = [w EXCEPT !.rows = row, !.entries = e]
    OBVIOUS
  <1> HIDE DEF u
  <1>3. u = [campaign |-> w.campaign, contract |-> w.contract, rows |-> row, subs |-> w.subs,
             days |-> w.days, dispute |-> w.dispute, entries |-> e, audit |-> w.audit,
             notes |-> w.notes]
    BY <1>2 DEF IsWrites
  <1>4. /\ IsWrites(u) /\ u.campaign = <<>> /\ u.contract = w.contract /\ u.rows = row
        /\ u.subs = w.subs /\ u.days = w.days /\ u.dispute = w.dispute /\ u.entries = e
        /\ u.audit = w.audit /\ u.notes = w.notes
    BY <1>3 DEF IsWrites
  <1>5. /\ v.campaign = IF CompletionDue(s.campaign, seen)
                        THEN At(r.c, MaybeCompleted(s.campaign, seen)) ELSE u.campaign
        /\ v.audit = u.audit \cup CompletionAudit(r.by, r.c, s.campaign, seen)
        /\ v.contract = u.contract /\ v.rows = u.rows /\ v.subs = u.subs /\ v.days = u.days
        /\ v.dispute = u.dispute /\ v.entries = u.entries /\ v.notes = u.notes
    BY <1>1, <1>4, CompletingColumns
  <1> QED
    BY <1>4, <1>5 DEF e

\* What is written to approve work.
Approves(r, s, w, row, seen) ==
    /\ w.campaign = IF CompletionDue(s.campaign, seen)
                    THEN At(r.c, MaybeCompleted(s.campaign, seen)) ELSE <<>>
    /\ w.contract = <<>> /\ w.rows = row
    /\ w.subs = At(r.t, [s.subs[r.t] EXCEPT ![r.v].status = "approved",
                                            ![r.v].review = "approved"])
    /\ w.days = <<>> /\ w.dispute = <<>>
    /\ w.entries = Entry(s, r.t, s.campaign.reward, RewardKey(r.c, r.t))
    /\ w.audit = {Audited(r.by, "submission.approved", <<r.c, r.t>>)}
                   \cup CompletionAudit(r.by, r.c, s.campaign, seen)
    /\ w.notes = {Notified(r.t, "submission_reviewed", r.c, r.t, r.v)}

\* It is what such a request writes.
LEMMA ApproveColumns ==
    ASSUME NEW r, r.op = "review", r.decision = "approved", NEW s, NEW w, w = Writes(r, s),
           NEW row, row = At(r.t, ApprovedRow(s.rows[r.t])), NEW seen, seen = Over(row, s.rows)
    PROVE  Approves(r, s, w, row, seen)
  <1> DEFINE x == At(r.t, [s.rows[r.t] EXCEPT !.status = r.decision])
             y == At(r.t, [s.subs[r.t] EXCEPT ![r.v].status = r.decision,
                                              ![r.v].review = r.decision])
             events == {Audited(r.by, ReviewAction[r.decision], <<r.c, r.t>>)}
             notes == {Notified(r.t, "submission_reviewed", r.c, r.t, r.v)}
             u == [NoWrites EXCEPT !.subs = y, !.rows = x, !.audit = events, !.notes = notes]
  <1>1. w = ReviewWrites(r, s)
    BY WritesOf
  <1>2. w = Approving(u, r, s)
    BY <1>1 DEF ReviewWrites
  <1> HIDE DEF x, y, events, notes
  <1>3. u = [NoWrites EXCEPT !.subs = y, !.rows = x, !.audit = events, !.notes = notes]
    OBVIOUS
  <1> HIDE DEF u
  <1>4. u = [campaign |-> <<>>, contract |-> <<>>, rows |-> x, subs |-> y, days |-> <<>>,
             dispute |-> <<>>, entries |-> {}, audit |-> events, notes |-> notes]
    BY <1>3 DEF NoWrites
  <1>5. /\ IsWrites(u) /\ u.campaign = <<>> /\ u.contract = <<>> /\ u.subs = y /\ u.days = <<>>
        /\ u.dispute = <<>> /\ u.audit = events /\ u.notes = notes
    BY <1>4 DEF IsWrites
  <1>6. /\ w.campaign = IF CompletionDue(s.campaign, seen)
                        THEN At(r.c, MaybeCompleted(s.campaign, seen)) ELSE <<>>
        /\ w.contract = u.contract /\ w.rows = row /\ w.subs = u.subs
        /\ w.days = u.days /\ w.dispute = u.dispute
        /\ w.entries = Entry(s, r.t, s.campaign.reward, RewardKey(r.c, r.t))
        /\ w.audit = u.audit \cup CompletionAudit(r.by, r.c, s.campaign, seen)
        /\ w.notes = u.notes
    BY <1>2, <1>5, ApprovingColumns
  <1>7. events = {Audited(r.by, "submission.approved", <<r.c, r.t>>)}
    BY DEF events, ReviewAction
  <1>8. y = At(r.t, [s.subs[r.t] EXCEPT ![r.v].status = "approved", ![r.v].review = "approved"])
    BY DEF y
  <1> QED
    BY <1>5, <1>6, <1>7, <1>8 DEF notes, Approves

\* What is written to claim a dispute.
Claims(r, s, w) ==
    /\ w.campaign = <<>> /\ w.contract = <<>> /\ w.rows = <<>> /\ w.subs = <<>>
    /\ w.days = <<>>
    /\ w.dispute = At(r.t, [s.dispute[r.t] EXCEPT !.status = "under_review",
                                                  !.assigned_to = r.by])
    /\ w.entries = {}
    /\ w.audit = {Audited(r.by, "dispute.claimed", <<r.c, r.t>>)}
    /\ w.notes = {}

\* It is what such a request writes.
LEMMA ClaimColumns ==
    ASSUME NEW r, r.op = "claim", NEW s, NEW w, w = Writes(r, s)
    PROVE  Claims(r, s, w)
  <1>1. w = ModeratorWrites(r, s)
    BY WritesOf DEF ModeratorOps
  <1> QED
    BY <1>1 DEF ModeratorWrites, NoWrites, Claims

\* The message of a verdict to both parties.
Parties(r, s) == {Notified(u, "dispute_resolved", r.c, r.t, 0) : u \in {r.t, s.campaign.owner}}

\* What is written to reject disputed work.
Rejects(r, s, w, v) ==
    /\ w.campaign = <<>> /\ w.contract = <<>>
    /\ w.rows = At(r.t, [s.rows[r.t] EXCEPT !.status = "rejected", !.completed_at = TRUE])
    /\ w.subs = At(r.t, [s.subs[r.t] EXCEPT ![v].status = "rejected"])
    /\ w.days = <<>>
    /\ w.dispute = At(r.t, [s.dispute[r.t] EXCEPT !.status = "rejected", !.remedy = "none"])
    /\ w.entries = {}
    /\ w.audit = {Audited(r.by, "dispute.rejected", <<r.c, r.t>>)}
    /\ w.notes = Parties(r, s)

\* It is what such a request writes.
LEMMA RejectColumns ==
    ASSUME NEW r, r.op = "reject", NEW s, NEW w, w = Writes(r, s), NEW v, v = s.dispute[r.t].version
    PROVE  Rejects(r, s, w, v)
  <1> DEFINE x == At(r.t, [s.rows[r.t] EXCEPT !.status = "rejected", !.completed_at = TRUE])
             y == At(r.t, [s.subs[r.t] EXCEPT ![v].status = "rejected"])
             z == At(r.t, [s.dispute[r.t] EXCEPT !.status = "rejected", !.remedy = "none"])
             events == {Audited(r.by, Verdict["rejected"], <<r.c, r.t>>)}
             notes == Parties(r, s)
             u == [NoWrites EXCEPT !.dispute = z, !.audit = events, !.notes = notes]
  <1>1. w = ModeratorWrites(r, s)
    BY WritesOf DEF ModeratorOps
  <1>2. w = [u EXCEPT !.subs = y, !.rows = x]
    BY <1>1 DEF ModeratorWrites, Parties
  <1>3. events = {Audited(r.by, "dispute.rejected", <<r.c, r.t>>)}
    BY DEF Verdict
  <1> HIDE DEF x, y, z, events, notes
  <1>4. w = [campaign |-> <<>>, contract |-> <<>>, rows |-> x, subs |-> y, days |-> <<>>,
             dispute |-> z, entries |-> {}, audit |-> events, notes |-> notes]
    BY <1>2 DEF NoWrites
  <1>5. /\ w.campaign = <<>> /\ w.contract = <<>> /\ w.rows = x /\ w.subs = y /\ w.days = <<>>
        /\ w.dispute = z /\ w.entries = {} /\ w.audit = events /\ w.notes = notes
    BY <1>4
  <1> QED
    BY <1>3, <1>5 DEF x, y, z, notes, Rejects

\* What is written to close a dispute without an award.
Dismisses(r, s, w) ==
    /\ w.campaign = <<>> /\ w.contract = <<>> /\ w.rows = <<>> /\ w.subs = <<>>
    /\ w.days = <<>>
    /\ w.dispute = At(r.t, [s.dispute[r.t] EXCEPT !.status = r.outcome, !.remedy = "none"])
    /\ w.entries = {}
    /\ w.audit = {Audited(r.by, Verdict[r.outcome], <<r.c, r.t>>)}
    /\ w.notes = Parties(r, s)

\* It is what such a request writes.
LEMMA DismissColumns ==
    ASSUME NEW r, r.op = "dismiss", NEW s, NEW w, w = Writes(r, s)
    PROVE  Dismisses(r, s, w)
  <1> DEFINE z == At(r.t, [s.dispute[r.t] EXCEPT !.status = r.outcome, !.remedy = "none"])
             events == {Audited(r.by, Verdict[r.outcome], <<r.c, r.t>>)}
             notes == Parties(r, s)
  <1>1. w = ModeratorWrites(r, s)
    BY WritesOf DEF ModeratorOps
  <1>2. w = [NoWrites EXCEPT !.dispute = z, !.audit = events, !.notes = notes]
    BY <1>1 DEF ModeratorWrites, Parties
  <1> HIDE DEF z, events, notes
  <1>3. w = [campaign |-> <<>>, contract |-> <<>>, rows |-> <<>>, subs |-> <<>>, days |-> <<>>,
             dispute |-> z, entries |-> {}, audit |-> events, notes |-> notes]
    BY <1>2 DEF NoWrites
  <1> QED
    BY <1>3 DEF z, events, notes, Dismisses

\* What is written to award the tester.
Awards(r, s, w, v, row, seen) ==
    /\ w.campaign = IF CompletionDue(s.campaign, seen)
                    THEN At(r.c, MaybeCompleted(s.campaign, seen)) ELSE <<>>
    /\ w.contract = <<>> /\ w.rows = row
    /\ w.subs = At(r.t, [s.subs[r.t] EXCEPT ![v].status = "approved"])
    /\ w.days = <<>>
    /\ w.dispute = At(r.t, [s.dispute[r.t] EXCEPT !.status = "resolved",
                                                  !.remedy = "award_tester"])
    /\ w.entries = Entry(s, r.t, s.campaign.reward, RewardKey(r.c, r.t))
    /\ w.audit = {Audited(r.by, "dispute.resolved", <<r.c, r.t>>)}
                   \cup CompletionAudit(r.by, r.c, s.campaign, seen)
    /\ w.notes = Parties(r, s)

\* It is what such a request writes.
LEMMA AwardColumns ==
    ASSUME NEW r, r.op = "award", NEW s, NEW w, w = Writes(r, s), NEW v, v = s.dispute[r.t].version,
           NEW row, row = At(r.t, ApprovedRow(s.rows[r.t])), NEW seen, seen = Over(row, s.rows)
    PROVE  Awards(r, s, w, v, row, seen)
  <1> DEFINE y == At(r.t, [s.subs[r.t] EXCEPT ![v].status = "approved"])
             z == At(r.t, [s.dispute[r.t] EXCEPT !.status = "resolved", !.remedy = "award_tester"])
             events == {Audited(r.by, Verdict["resolved"], <<r.c, r.t>>)}
             notes == Parties(r, s)
             u == [[NoWrites EXCEPT !.dispute = z, !.audit = events, !.notes = notes]
                     EXCEPT !.subs = y]
  <1>1. w = ModeratorWrites(r, s)
    BY WritesOf DEF ModeratorOps
  <1>2. w = Approving(u, r, s)
    BY <1>1 DEF ModeratorWrites, Parties
  <1>3. events = {Audited(r.by, "dispute.resolved", <<r.c, r.t>>)}
    BY DEF Verdict
  <1> HIDE DEF y, z, events, notes
  <1>4. u = [[NoWrites EXCEPT !.dispute = z, !.audit = events, !.notes = notes] EXCEPT !.subs = y]
    OBVIOUS
  <1> HIDE DEF u
  <1>5. u = [campaign |-> <<>>, contract |-> <<>>, rows |-> <<>>, subs |-> y, days |-> <<>>,
             dispute |-> z, entries |-> {}, audit |-> events, notes |-> notes]
    BY <1>4 DEF NoWrites
  <1>6. /\ IsWrites(u) /\ u.campaign = <<>> /\ u.contract = <<>> /\ u.subs = y /\ u.days = <<>>
        /\ u.dispute = z /\ u.audit = events /\ u.notes = notes
    BY <1>5 DEF IsWrites
  <1>7. /\ w.campaign = IF CompletionDue(s.campaign, seen)
                        THEN At(r.c, MaybeCompleted(s.campaign, seen)) ELSE <<>>
        /\ w.contract = u.contract /\ w.rows = row /\ w.subs = u.subs
        /\ w.days = u.days /\ w.dispute = u.dispute
        /\ w.entries = Entry(s, r.t, s.campaign.reward, RewardKey(r.c, r.t))
        /\ w.audit = u.audit \cup CompletionAudit(r.by, r.c, s.campaign, seen)
        /\ w.notes = u.notes
    BY <1>2, <1>6, ApprovingColumns
  <1> QED
    BY <1>3, <1>6, <1>7 DEF y, z, notes, Awards

-----------------------------------------------------------------------------
(* What a request knows *)

\* Campaign c, its work and the accounts, as a request reads them from the tables db.
View(c, db) ==
    [campaign |-> db.campaign[c], rows |-> db.assignment[c], subs |-> db.submissions[c],
     days |-> db.sessions[c], dispute |-> db.dispute[c], balance |-> db.balance]

\* What a request has found out in its first d selects about x, which it has read, and the terms
\* of the campaign's contract.
OwnerKnows(r, d, x) ==
    LET row == x.rows[r.t]
        owns(status) == x.campaign.owner = r.by /\ x.campaign.status \in status
    IN  /\ r.op = "launch" => x.campaign.status = "none"
        /\ r.op = "launch" /\ d > 1 => x.balance[r.by] + -PostingCost(r.target, r.reward) >= 0
        /\ r.op = "close" => owns({"published", "paused"})
        /\ r.op = "accept" => owns({"published"})
        /\ r.op = "accept" /\ d > 1 => row.status = "applied"
        /\ r.op = "decline" => x.campaign.owner = r.by /\ row.status = "applied"

TesterKnows(r, d, x, terms, clock) ==
    LET row == x.rows[r.by]
        subs == x.subs[r.by]
        days == x.days[r.by]
    IN  /\ r.op = "apply" => x.campaign.status = "published" /\ x.campaign.owner # r.by
        /\ r.op = "withdraw" => row.status \in Withdrawable
        /\ r.op \in {"session", "submit"} => row.status \in {"in_progress", "changes_requested"}
        /\ r.op = "session" /\ d > 1 => clock \div TicksPerDay \notin days
        /\ r.op = "submit" /\ d > 1 =>
             /\ row.started_at # Null
             /\ clock >= row.started_at + terms.minimum_days * TicksPerDay
             /\ Cardinality(days) >= terms.required_sessions
             /\ Len(subs) < MaxVersions
        /\ r.op = "escalate" /\ d > 1 =>
             /\ r.v \in DOMAIN subs
             /\ \/ /\ row.status = "submitted"
                   /\ subs[r.v].status = "submitted"
                   /\ clock >= subs[r.v].submitted_at + terms.review_window
                \/ /\ row.status = "rejected"
                   /\ subs[r.v].status = "rejected"

ReviewKnows(r, d, x) ==
    LET subs == x.subs[r.t]
    IN  r.op = "review" /\ d > 2 =>
             /\ x.campaign.owner = r.by
             /\ r.v \in DOMAIN subs
             /\ subs[r.v].status = "submitted"
             /\ x.rows[r.t].status = "submitted"
             /\ x.dispute[r.t].status = "none"

ModeratorKnows(r, d, x) ==
    LET row == x.rows[r.t]
        case == x.dispute[r.t]
    IN  /\ r.op = "claim" => case.status = "open"
        /\ r.op \in {"reject", "dismiss", "award"} =>
             case.status = "under_review" /\ case.assigned_to = r.by
        /\ r.op \in {"reject", "dismiss", "award"} /\ d > 1 => case.version \in DOMAIN x.subs[r.t]
        /\ r.op = "reject" /\ d > 1 => row.status = "submitted"
        /\ r.op = "dismiss" /\ d > 1 => row.status = "rejected"
        /\ r.op = "award" /\ d > 1 => row.status \in {"rejected", "submitted"}

Knows(r, d, x, terms, clock) ==
    /\ OwnerKnows(r, d, x) /\ TesterKnows(r, d, x, terms, clock)
    /\ ReviewKnows(r, d, x) /\ ModeratorKnows(r, d, x)

-----------------------------------------------------------------------------
(* What is true of the tables *)

\* A dispute is about a version of work that is submitted or decided.
SoundWork(row, subs, case) ==
    /\ case.status # "none" => case.version \in DOMAIN subs
    /\ case.status \in ActiveDispute => row.status \in {"submitted", "rejected"}
    /\ case.status \in {"resolved", "rejected"} => row.status \in {"approved", "rejected"}

\* A campaign that is there offers a reward, and work is about a campaign that is there.
SoundCampaign(camp, rows) ==
    /\ camp \in Campaign
    /\ camp.status # "none" => camp.reward # 0
    /\ \A t \in Users : rows[t].status # "none" => camp.status # "none"

SoundView(x) ==
    /\ SoundCampaign(x.campaign, x.rows)
    /\ \A t \in Users : SoundWork(x.rows[t], x.subs[t], x.dispute[t])
    /\ \A u \in Users : x.balance[u] \in Nat

Sound(db) == \A c \in Campaigns : SoundView(View(c, db))

\* From db to later, a campaign that is there keeps its owner and its contract.
Kept(db, later) ==
    \A c \in Campaigns : db.campaign[c].status # "none" =>
        /\ later.campaign[c].status # "none"
        /\ later.campaign[c].owner = db.campaign[c].owner
        /\ later.contract[c] = db.contract[c]

\* A request in the middle of its selects knows it of the tables as they are, and one that has
\* done them of what it has read, sound as it was.
Ready(t, db, clock) ==
    LET r == t.request
        c == r.c
        s == t.read
        n == Len(Order(r))
        terms == db.contract[c].terms
    IN  /\ t.done < n => Knows(r, t.done, View(c, db), terms, clock)
        /\ t.done = n =>
             /\ Knows(r, n, s, terms, clock)
             /\ SoundView(s)
             /\ s.now = clock
             /\ s.campaign.status # "none" => /\ db.campaign[c].status # "none"
                                              /\ db.campaign[c].owner = s.campaign.owner
        /\ r.op \in ModeratorOps => r.by \in Moderators

\* What a view reads in the tables.
LEMMA ViewColumns ==
    \A c, db : /\ View(c, db).campaign = db.campaign[c] /\ View(c, db).rows = db.assignment[c]
               /\ View(c, db).subs = db.submissions[c] /\ View(c, db).days = db.sessions[c]
               /\ View(c, db).dispute = db.dispute[c] /\ View(c, db).balance = db.balance
  BY DEF View

\* What a request knows is about these columns.
LEMMA KnowsSame ==
    ASSUME NEW r, NEW d, NEW x, NEW y, NEW terms, NEW clock,
           x.campaign = y.campaign, x.rows = y.rows, x.subs = y.subs, x.days = y.days,
           x.dispute = y.dispute, x.balance = y.balance
    PROVE  /\ Knows(r, d, x, terms, clock) <=> Knows(r, d, y, terms, clock)
           /\ SoundView(x) <=> SoundView(y)
  <1>1. OwnerKnows(r, d, x) <=> OwnerKnows(r, d, y)
    BY DEF OwnerKnows
  <1>2. TesterKnows(r, d, x, terms, clock) <=> TesterKnows(r, d, y, terms, clock)
    BY DEF TesterKnows
  <1>3. /\ ReviewKnows(r, d, x) <=> ReviewKnows(r, d, y)
        /\ ModeratorKnows(r, d, x) <=> ModeratorKnows(r, d, y)
    BY DEF ReviewKnows, ModeratorKnows
  <1> QED
    BY <1>1, <1>2, <1>3 DEF Knows, SoundView

\* One more select that goes on tells a request what it tests.
LEMMA SelectKnows ==
    ASSUME NEW r \in Requests, NEW d \in 0..(Len(Order(r)) - 1), Plan(r)[d + 1].ok,
           NEW x, x = View(r.c, Tables), SoundView(x), NEW terms, terms = contract[r.c].terms,
           Shaped(Tables),
           d # 0 => Knows(r, d, x, terms, now)
    PROVE  Knows(r, d + 1, x, terms, now)
  <1> DEFINE c == r.c
  <1>0. /\ x.campaign = campaign[c] /\ x.rows = assignment[c] /\ x.subs = submissions[c]
        /\ x.days = sessions[c] /\ x.dispute = dispute[c] /\ x.balance = balance
    BY ViewColumns DEF Tables
  <1> USE DEF CampaignFirst, OwnerOps, TesterOps, ModeratorOps
  <1>1. CASE r.op = "launch"
    <2>1. Order(r) = <<"campaign", "account">>
      BY <1>1 DEF Order
    <2>2. /\ Plan(r)[1].ok => campaign[c].status = "none"
          /\ Plan(r)[2].ok => balance[r.by] + -PostingCost(r.target, r.reward) >= 0
      BY <1>1 DEF Lock, Read, Plan, OwnerPlan, LaunchPlan, Covered
    <2>3. d \in {0, 1}
      BY <2>1
    <2>4. OwnerKnows(r, d + 1, x)
      BY <1>0, <1>1, <2>2, <2>3 DEF Knows, OwnerKnows
    <2> QED
      BY <1>1, <2>4 DEF Knows, TesterKnows, ReviewKnows, ModeratorKnows
  <1>2. CASE r.op = "close"
    <2>1. Order(r) = <<"campaign", "assignment", "none">>
      BY <1>2 DEF Order
    <2>2. Plan(r)[1].ok => campaign[c].owner = r.by /\ campaign[c].status \in {"published", "paused"}
      BY <1>2 DEF Lock, Read, Plan, OwnerPlan, Owns
    <2>3. d \in {0, 1, 2}
      BY <2>1
    <2>4. OwnerKnows(r, d + 1, x)
      BY <1>0, <1>2, <2>2, <2>3 DEF Knows, OwnerKnows
    <2> QED
      BY <1>2, <2>4 DEF Knows, TesterKnows, ReviewKnows, ModeratorKnows
  <1>3. CASE r.op = "accept"
    <2>1. Order(r) = <<"campaign", "assignment", "none">>
      BY <1>3 DEF Order
    <2>2. /\ Plan(r)[1].ok => campaign[c].owner = r.by /\ campaign[c].status \in {"published"}
          /\ Plan(r)[2].ok => assignment[c][r.t].status = "applied"
      BY <1>3 DEF Lock, Read, Plan, OwnerPlan, Owns, Row
    <2>3. d \in {0, 1, 2}
      BY <2>1
    <2>4. OwnerKnows(r, d + 1, x)
      BY <1>0, <1>3, <2>2, <2>3 DEF Knows, OwnerKnows
    <2> QED
      BY <1>3, <2>4 DEF Knows, TesterKnows, ReviewKnows, ModeratorKnows
  <1>4. CASE r.op = "decline"
    <2>1. Order(r) = <<"assignment">>
      BY <1>4 DEF Order
    <2>2. Plan(r)[1].ok => campaign[c].owner = r.by /\ assignment[c][r.t].status = "applied"
      BY <1>4 DEF Lock, Read, Plan, OwnerPlan, Owns, Row
    <2>3. d = 0
      BY <2>1
    <2>4. OwnerKnows(r, d + 1, x)
      BY <1>0, <1>4, <2>2, <2>3 DEF Knows, OwnerKnows
    <2> QED
      BY <1>4, <2>4 DEF Knows, TesterKnows, ReviewKnows, ModeratorKnows
  <1>5. CASE r.op = "apply"
    <2>1. Order(r) = <<"campaign", "none">>
      BY <1>5 DEF Order
    <2>2. Plan(r)[1].ok => campaign[c].status = "published" /\ campaign[c].owner # r.by
      BY <1>5 DEF Lock, Read, Plan, TesterPlan, Owns
    <2>3. d \in {0, 1}
      BY <2>1
    <2>4. TesterKnows(r, d + 1, x, terms, now)
      BY <1>0, <1>5, <2>2, <2>3 DEF Knows, TesterKnows
    <2> QED
      BY <1>5, <2>4 DEF Knows, OwnerKnows, ReviewKnows, ModeratorKnows
  <1>6. CASE r.op = "withdraw"
    <2>1. Order(r) = <<"assignment", "campaign", "none">>
      BY <1>6 DEF Order
    <2>2. Plan(r)[1].ok => assignment[c][r.by].status \in Withdrawable
      BY <1>6 DEF Lock, Read, Plan, TesterPlan, Row
    <2>3. d \in {0, 1, 2}
      BY <2>1
    <2>4. TesterKnows(r, d + 1, x, terms, now)
      BY <1>0, <1>6, <2>2, <2>3 DEF Knows, TesterKnows
    <2> QED
      BY <1>6, <2>4 DEF Knows, OwnerKnows, ReviewKnows, ModeratorKnows
  <1>7. CASE r.op = "session"
    <2>1. Order(r) = <<"assignment", "none">>
      BY <1>7 DEF Order
    <2>2. /\ Plan(r)[1].ok => assignment[c][r.by].status \in {"in_progress", "changes_requested"}
          /\ Plan(r)[2].ok => now \div TicksPerDay \notin sessions[c][r.by]
      BY <1>7 DEF Lock, Read, Plan, TesterPlan, Row, Testing, Today
    <2>3. d \in {0, 1}
      BY <2>1
    <2>4. TesterKnows(r, d + 1, x, terms, now)
      BY <1>0, <1>7, <2>2, <2>3 DEF Knows, TesterKnows
    <2> QED
      BY <1>7, <2>4 DEF Knows, OwnerKnows, ReviewKnows, ModeratorKnows
  <1>8. CASE r.op = "submit"
    <2>1. Order(r) = <<"assignment", "none">>
      BY <1>8 DEF Order
    <2>2. /\ Plan(r)[1].ok => assignment[c][r.by].status \in {"in_progress", "changes_requested"}
          /\ Plan(r)[2].ok => /\ assignment[c][r.by].started_at # Null
                              /\ now >= assignment[c][r.by].started_at
                                          + contract[c].terms.minimum_days * TicksPerDay
                              /\ Cardinality(sessions[c][r.by]) >= contract[c].terms.required_sessions
                              /\ Len(submissions[c][r.by]) < MaxVersions
      BY <1>8 DEF Lock, Read, Plan, TesterPlan, Row, Testing, ContractFulfilled, Versions
    <2>3. d \in {0, 1}
      BY <2>1
    <2>4. TesterKnows(r, d + 1, x, terms, now)
      BY <1>0, <1>8, <2>2, <2>3 DEF Knows, TesterKnows
    <2> QED
      BY <1>8, <2>4 DEF Knows, OwnerKnows, ReviewKnows, ModeratorKnows
  <1>9. CASE r.op = "escalate"
    <2>1. Order(r) = <<"assignment", "none">>
      BY <1>9 DEF Order
    <2>2. Plan(r)[2].ok =>
            /\ r.v \in DOMAIN submissions[c][r.by]
            /\ \/ /\ assignment[c][r.by].status = "submitted"
                  /\ submissions[c][r.by][r.v].status = "submitted"
                  /\ now >= submissions[c][r.by][r.v].submitted_at + contract[c].terms.review_window
               \/ /\ assignment[c][r.by].status = "rejected"
                  /\ submissions[c][r.by][r.v].status = "rejected"
      BY <1>9 DEF Lock, Read, Plan, TesterPlan, Row, Escalatable, Overdue
    <2>3. d \in {0, 1}
      BY <2>1
    <2>4. TesterKnows(r, d + 1, x, terms, now)
      BY <1>0, <1>9, <2>2, <2>3 DEF Knows, TesterKnows
    <2> QED
      BY <1>9, <2>4 DEF Knows, OwnerKnows, ReviewKnows, ModeratorKnows
  <1>10. CASE r.op = "review"
    <2>1. /\ Len(Order(r)) \in Nat
          /\ Plan(r)[3].ok =>
               /\ campaign[c].owner = r.by
               /\ dispute[c][r.t].status \notin ActiveDispute
               /\ r.v \in DOMAIN submissions[c][r.t]
               /\ submissions[c][r.t][r.v].status = "submitted"
               /\ assignment[c][r.t].status = "submitted"
      BY <1>10, PlanOrder, ReviewSelects DEF Lock, Read, Plan, DecisionLock, Reviewable, Owns,
         NoActiveDispute, Row
    <2>2. ReviewKnows(r, d + 1, x)
      <3>1. CASE d = 2
        <4>1. d + 1 = 3
          BY <3>1
        <4>2. r.t \in Users /\ dispute[c][r.t].status \in DisputeStatus
          <5>1. r.t \in Users /\ c \in Campaigns
            BY <1>10, RequestAssumption
          <5>2. dispute \in [Campaigns -> [Users -> Dispute]]
            BY DEF Shaped, Tables
          <5> QED
            BY <5>1, <5>2 DEF Dispute
        <4> QED
          BY <1>0, <1>10, <2>1, <4>1, <4>2 DEF ReviewKnows, SoundView, SoundWork, ActiveDispute,
             DisputeStatus
      <3>2. CASE d > 2
        BY <1>10, <2>1, <3>2 DEF Knows, ReviewKnows
      <3>3. CASE d < 2
        BY <1>10, <2>1, <3>3 DEF ReviewKnows
      <3> QED
        BY <2>1, <3>1, <3>2, <3>3
    <2> QED
      BY <1>10, <2>2 DEF Knows, OwnerKnows, TesterKnows, ModeratorKnows
  <1>11. CASE r.op = "claim"
    <2>1. Order(r) = <<"dispute">>
      BY <1>11 DEF Order
    <2>2. Plan(r)[1].ok => dispute[c][r.t].status = "open"
      BY <1>11 DEF Lock, Read, Plan, ModeratorPlan
    <2>3. d = 0
      BY <2>1
    <2>4. ModeratorKnows(r, d + 1, x)
      BY <1>0, <1>11, <2>2, <2>3 DEF Knows, ModeratorKnows
    <2> QED
      BY <1>11, <2>4 DEF Knows, OwnerKnows, TesterKnows, ReviewKnows
  <1>12. CASE r.op \in {"reject", "dismiss", "award"}
    <2>0. r.t \in Users /\ Len(Order(r)) \in Nat
      BY <1>12, PlanOrder, RequestAssumption
    <2>1. /\ Plan(r)[1].ok =>
               dispute[c][r.t].status = "under_review" /\ dispute[c][r.t].assigned_to = r.by
          /\ Plan(r)[2].ok => /\ r.op = "reject" => assignment[c][r.t].status = "submitted"
                              /\ r.op = "dismiss" => assignment[c][r.t].status # "submitted"
                              /\ r.op = "award" =>
                                   assignment[c][r.t].status \in {"rejected", "submitted"}
      BY <1>12 DEF Lock, Read, Plan, ModeratorPlan, Row
    <2>2. ModeratorKnows(r, d + 1, x)
      <3>1. CASE d = 0
        BY <1>0, <1>12, <2>1, <3>1 DEF ModeratorKnows
      <3>2. CASE d = 1
        <4>1. x.dispute[r.t].status = "under_review" /\ x.dispute[r.t].assigned_to = r.by
          BY <1>12, <3>2 DEF Knows, ModeratorKnows
        <4>2. /\ x.dispute[r.t].version \in DOMAIN x.subs[r.t]
              /\ x.rows[r.t].status \in {"submitted", "rejected"}
          BY <2>0, <4>1 DEF SoundView, SoundWork, ActiveDispute
        <4> QED
          BY <1>0, <1>12, <2>1, <3>2, <4>1, <4>2 DEF ModeratorKnows
      <3>3. CASE d > 1
        BY <1>12, <2>0, <3>3 DEF Knows, ModeratorKnows
      <3> QED
        BY <2>0, <3>1, <3>2, <3>3
    <2> QED
      BY <1>12, <2>2 DEF Knows, OwnerKnows, TesterKnows, ReviewKnows
  <1> QED
    BY <1>1, <1>2, <1>3, <1>4, <1>5, <1>6, <1>7, <1>8, <1>9, <1>10, <1>11, <1>12,
       OperationOf DEF Operations

-----------------------------------------------------------------------------
(* What a request knows stays true *)

\* What the rows of h guard is as it was.
LEMMA UntouchedCells ==
    ASSUME NEW h, NEW db, NEW later, Untouched(h, db, later), NEW c \in Campaigns,
           NEW x, x = View(c, db), NEW y, y = View(c, later)
    PROVE  /\ CampaignRow(c) \subseteq h => y.campaign = x.campaign
           /\ \A t \in Users : AssignmentRow(c, t) \subseteq h =>
                /\ y.subs[t] = x.subs[t] /\ y.days[t] = x.days[t]
                /\ x.rows[t].status # "none" => y.rows[t] = x.rows[t]
                /\ x.dispute[t].status = "none" => y.dispute[t] = x.dispute[t]
           /\ \A t \in Users : DisputeRow(c, t) \subseteq h =>
                (x.dispute[t].status # "none" => y.dispute[t] = x.dispute[t])
  <1>1. /\ x.campaign = db.campaign[c] /\ x.rows = db.assignment[c] /\ x.subs = db.submissions[c]
        /\ x.days = db.sessions[c] /\ x.dispute = db.dispute[c]
        /\ y.campaign = later.campaign[c] /\ y.rows = later.assignment[c]
        /\ y.subs = later.submissions[c] /\ y.days = later.sessions[c]
        /\ y.dispute = later.dispute[c]
    BY ViewColumns
  <1> QED
    BY <1>1 DEF Untouched

\* A request holds what its first d selects lock.
Holds(r, d, h) == \A i \in 1..d : Locks(r)[i] \subseteq h

\* What a request has found out, others leave as it is while it holds the rows.
LEMMA KnowsStays ==
    ASSUME NEW r \in Requests, NEW d \in 1..(Len(Order(r)) - 1), NEW h, Holds(r, d, h),
           NEW db, NEW later, Untouched(h, db, later),
           NEW x, x = View(r.c, db), NEW y, y = View(r.c, later), NEW terms, NEW more, NEW clock,
           Knows(r, d, x, terms, clock)
    PROVE  Knows(r, d, y, more, clock)
  <1> DEFINE c == r.c
             t == Worker(r)
  <1>0. /\ CampaignRow(c) \subseteq h => y.campaign = x.campaign
        /\ r.op \in WorkOps \cup ModeratorOps =>
             /\ t \in Users
             /\ AssignmentRow(c, t) \subseteq h =>
                  /\ y.subs[t] = x.subs[t] /\ y.days[t] = x.days[t]
                  /\ x.rows[t].status # "none" => y.rows[t] = x.rows[t]
                  /\ x.dispute[t].status = "none" => y.dispute[t] = x.dispute[t]
             /\ DisputeRow(c, t) \subseteq h =>
                  (x.dispute[t].status # "none" => y.dispute[t] = x.dispute[t])
    BY UntouchedCells, RequestFields
  <1>00. /\ OwnerKnows(r, d, x) /\ TesterKnows(r, d, x, terms, clock)
         /\ ReviewKnows(r, d, x) /\ ModeratorKnows(r, d, x)
    BY DEF Knows
  <1> USE DEF CampaignFirst, OwnerOps, TesterOps, ModeratorOps, WorkOps, Worker
  <1>1. CASE r.op \in {"launch", "apply"}
    <2>1. Len(Order(r)) = 2
      BY <1>1 DEF Order
    <2>2. d \in {1}
      BY <2>1
    <2>3. CampaignRow(c) \subseteq h
      BY <1>1, <2>2 DEF Holds, Locks
    <2>4. OwnerKnows(r, d, y)
      BY <1>1, <1>0, <1>00, <2>2, <2>3 DEF OwnerKnows
    <2>5. TesterKnows(r, d, y, more, clock)
      BY <1>1, <1>0, <1>00, <2>2, <2>3 DEF TesterKnows
    <2> QED
      BY <1>1, <2>4, <2>5 DEF Knows, ReviewKnows, ModeratorKnows
  <1>2. CASE r.op = "close"
    <2>1. Len(Order(r)) = 3
      BY <1>2 DEF Order
    <2>2. d \in {1, 2}
      BY <2>1
    <2>3. CampaignRow(c) \subseteq h
      BY <1>2, <2>2 DEF Holds, Locks
    <2>4. OwnerKnows(r, d, y)
      BY <1>2, <1>0, <1>00, <2>2, <2>3 DEF OwnerKnows
    <2> QED
      BY <1>2, <2>4 DEF Knows, TesterKnows, ReviewKnows, ModeratorKnows
  <1>3. CASE r.op = "accept"
    <2>1. Len(Order(r)) = 3
      BY <1>3 DEF Order
    <2>2. d \in {1, 2}
      BY <2>1
    <2>3. CampaignRow(c) \subseteq h /\ (d = 2 => AssignmentRow(c, t) \subseteq h)
      BY <1>3, <2>2 DEF Holds, Locks
    <2>4. OwnerKnows(r, d, y)
      BY <1>3, <1>0, <1>00, <2>2, <2>3 DEF OwnerKnows
    <2> QED
      BY <1>3, <2>4 DEF Knows, TesterKnows, ReviewKnows, ModeratorKnows
  <1>4. CASE r.op \in {"decline", "claim"}
    <2>1. Len(Order(r)) = 1
      BY <1>4 DEF Order
    <2> QED
      BY <2>1
  <1>5. CASE r.op = "withdraw"
    <2>1. Len(Order(r)) = 3
      BY <1>5 DEF Order
    <2>2. d \in {1, 2}
      BY <2>1
    <2>3. AssignmentRow(c, t) \subseteq h
      BY <1>5, <2>2 DEF Holds, Locks
    <2>4. TesterKnows(r, d, y, more, clock)
      BY <1>5, <1>0, <1>00, <2>2, <2>3 DEF TesterKnows, Withdrawable
    <2> QED
      BY <1>5, <2>4 DEF Knows, OwnerKnows, ReviewKnows, ModeratorKnows
  <1>6. CASE r.op \in {"session", "submit", "escalate"}
    <2>1. Len(Order(r)) = 2
      BY <1>6 DEF Order
    <2>2. d \in {1}
      BY <2>1
    <2>3. AssignmentRow(c, t) \subseteq h
      BY <1>6, <2>2 DEF Holds, Locks
    <2>4. TesterKnows(r, d, y, more, clock)
      BY <1>6, <1>0, <1>00, <2>2, <2>3 DEF TesterKnows
    <2> QED
      BY <1>6, <2>4 DEF Knows, OwnerKnows, ReviewKnows, ModeratorKnows
  <1>7. CASE r.op = "review"
    <2>1. d > 2 => AssignmentRow(c, t) \subseteq h /\ CampaignRow(c) \subseteq h
      <3>1. Len(Order(r)) = IF r.decision = "approved" THEN 5 ELSE 3
        <4>1. CASE r.decision = "approved"
          BY <1>7, <4>1 DEF Order
        <4>2. CASE r.decision # "approved"
          BY <1>7, <4>2 DEF Order
        <4> QED
          BY <4>1, <4>2
      <3>2. d \in {1, 2, 3, 4} /\ (d > 2 => r.decision = "approved")
        BY <3>1
      <3> QED
        BY <1>7, <3>2 DEF Holds, Locks
    <2>2. ReviewKnows(r, d, y)
      BY <1>7, <1>0, <1>00, <2>1 DEF ReviewKnows
    <2> QED
      BY <1>7, <2>2 DEF Knows, OwnerKnows, TesterKnows, ModeratorKnows
  <1>8. CASE r.op \in {"reject", "dismiss"}
    <2>1. Len(Order(r)) = 2
      BY <1>8 DEF Order
    <2>2. d \in {1}
      BY <2>1
    <2>3. DisputeRow(c, t) \subseteq h
      BY <1>8, <2>2 DEF Holds, Locks
    <2>4. ModeratorKnows(r, d, y)
      BY <1>8, <1>0, <1>00, <2>2, <2>3 DEF ModeratorKnows
    <2> QED
      BY <1>8, <2>4 DEF Knows, OwnerKnows, TesterKnows, ReviewKnows
  <1>9. CASE r.op = "award"
    <2>1. Len(Order(r)) = 6
      BY <1>9 DEF Order
    <2>2. d \in {1, 2, 3, 4, 5}
      BY <2>1
    <2>3. DisputeRow(c, t) \subseteq h /\ (d > 1 => AssignmentRow(c, t) \subseteq h)
      BY <1>9, <2>2 DEF Holds, Locks
    <2>4. ModeratorKnows(r, d, y)
      BY <1>9, <1>0, <1>00, <2>2, <2>3 DEF ModeratorKnows
    <2> QED
      BY <1>9, <2>4 DEF Knows, OwnerKnows, TesterKnows, ReviewKnows
  <1> QED
    BY <1>1, <1>2, <1>3, <1>4, <1>5, <1>6, <1>7, <1>8, <1>9, OperationOf DEF Operations

\* A request stays ready while others leave untouched what it holds, and keep the campaigns.
LEMMA ReadyStays ==
    ASSUME NEW t, NEW db, NEW later, NEW clock, Serving(t), Informed(t, db), Ready(t, db, clock),
           Untouched(t.held, db, later), Kept(db, later)
    PROVE  Ready(t, later, clock)
  <1> DEFINE r == t.request
             c == r.c
             s == t.read
             d == t.done
             n == Len(Order(r))
  <1>1. /\ r \in Requests /\ c \in Campaigns /\ d \in 1..n
        /\ n \in Nat \ {0}
    BY PlanOrder, RequestFields DEF Serving
  <1>2. ASSUME d < n
        PROVE  Knows(r, d, View(c, later), later.contract[c].terms, clock)
    <2>1. d \in 1..(n - 1)
      BY <1>1, <1>2
    <2>2. Holds(r, d, t.held)
      BY DEF Informed, Holds
    <2>3. Knows(r, d, View(c, db), db.contract[c].terms, clock)
      BY <1>2 DEF Ready
    <2> DEFINE h == t.held
               x == View(c, db)
               y == View(c, later)
               terms == db.contract[c].terms
               more == later.contract[c].terms
    <2>4. Untouched(h, db, later)
      OBVIOUS
    <2> HIDE DEF h, terms, more, d
    <2>5. Holds(r, d, h)
      BY <2>2 DEF h
    <2>6. Knows(r, d, x, terms, clock)
      BY <2>3 DEF terms, d
    <2>7. r \in Requests /\ x = View(r.c, db) /\ y = View(r.c, later)
      BY <1>1
    <2> HIDE DEF x, y, c, n, r
    <2>8. d \in 1..(Len(Order(r)) - 1)
      BY <2>1 DEF n
    <2>9. Knows(r, d, y, more, clock)
      BY <2>4, <2>5, <2>6, <2>7, <2>8, KnowsStays
    <2> QED
      BY <2>9 DEF d, more, y, r, c
  <1>3. ASSUME d = n
        PROVE  /\ Knows(r, n, s, later.contract[c].terms, clock)
               /\ SoundView(s)
               /\ s.now = clock
               /\ s.campaign.status # "none" => /\ later.campaign[c].status # "none"
                                                /\ later.campaign[c].owner = s.campaign.owner
    <2>1. /\ Knows(r, n, s, db.contract[c].terms, clock) /\ SoundView(s) /\ s.now = clock
          /\ s.campaign.status # "none" => /\ db.campaign[c].status # "none"
                                           /\ db.campaign[c].owner = s.campaign.owner
      BY <1>3 DEF Ready
    <2>2. s.campaign.status # "none" => /\ later.campaign[c].status # "none"
                                        /\ later.campaign[c].owner = s.campaign.owner
                                        /\ later.contract[c] = db.contract[c]
      BY <1>1, <2>1 DEF Kept
    <2>3. ASSUME r.op \in {"submit", "escalate"}
          PROVE  s.campaign.status # "none"
      <3>1. n = 2 /\ r.by \in Users
        BY <1>1, <2>3, RequestFields DEF Order, CampaignFirst
      <3>2. s.rows[r.by].status # "none"
        <4> HIDE DEF n
        <4>1. Knows(r, n, s, db.contract[c].terms, clock)
          BY <2>1
        <4>2. TesterKnows(r, n, s, db.contract[c].terms, clock)
          BY <4>1 DEF Knows
        <4>3. CASE r.op = "submit"
          BY <4>2, <4>3 DEF TesterKnows
        <4>4. CASE r.op = "escalate"
          <5>1. n > 1
            BY <3>1
          <5>2. s.rows[r.by].status \in {"submitted", "rejected"}
            BY <4>2, <4>4, <5>1, Zenon DEF TesterKnows
          <5> QED
            BY <5>2
        <4> QED
          BY <2>3, <4>3, <4>4
      <3> QED
        BY <2>1, <3>1, <3>2 DEF SoundView, SoundCampaign
    <2>4. TesterKnows(r, n, s, later.contract[c].terms, clock)
      <3>1. TesterKnows(r, n, s, db.contract[c].terms, clock)
        BY <2>1 DEF Knows
      <3>2. CASE r.op \in {"submit", "escalate"}
        BY <2>2, <2>3, <3>1, <3>2
      <3>3. CASE r.op \notin {"submit", "escalate"}
        <4> HIDE DEF n
        <4> QED
          BY <3>1, <3>3 DEF TesterKnows
      <3> QED
        BY <3>2, <3>3
    <2> QED
      BY <2>1, <2>2, <2>4 DEF Knows
  <1> QED
    BY <1>2, <1>3 DEF Ready

\* The fields of a transaction after one more select.
LEMMA SelectedFields ==
    ASSUME NEW r \in Requests, NEW d \in 0..(Len(Order(r)) - 1), NEW h, NEW x, NEW t,
           t = [request |-> r, done |-> d, held |-> h, read |-> x],
           NEW more, more = Selected(r, t, Plan(r)[d + 1])
    PROVE  /\ more.request = r /\ more.done = d + 1
           /\ more.held = h \cup Plan(r)[d + 1].locks
           /\ more.read = IF d + 1 = Len(Order(r)) THEN Snapshot(r.c) ELSE x
  <1> DEFINE select == Plan(r)[d + 1]
             y == IF d + 1 = Len(Plan(r)) THEN Snapshot(r.c) ELSE x
             g == h \cup select.locks
  <1>1. t.request = r /\ t.done = d /\ t.held = h /\ t.read = x
    OBVIOUS
  <1>2. more = [t EXCEPT !.done = @ + 1, !.held = @ \cup select.locks, !.read = y]
    BY <1>1 DEF Selected
  <1>3. y = IF d + 1 = Len(Order(r)) THEN Snapshot(r.c) ELSE x
    BY PlanOrder
  <1> HIDE DEF y, select
  <1>4. more = [request |-> r, done |-> d + 1, held |-> h \cup select.locks, read |-> y]
    BY <1>2
  <1> QED
    BY <1>3, <1>4 DEF select

\* One more select that goes on leaves a request ready.
LEMMA SelectReady ==
    ASSUME NEW r \in Requests, NEW d \in 0..(Len(Order(r)) - 1), NEW h, NEW x, NEW t,
           t = [request |-> r, done |-> d, held |-> h, read |-> x],
           Shaped(Tables), Sound(Tables), Plan(r)[d + 1].ok,
           d # 0 => Ready(t, Tables, now),
           r.op \in ModeratorOps => r.by \in Moderators,
           NEW more, more = Selected(r, t, Plan(r)[d + 1])
    PROVE  Ready(more, Tables, now)
  <1> DEFINE c == r.c
             n == Len(Order(r))
             y == View(c, Tables)
             terms == contract[c].terms
             s == Snapshot(c)
  <1>1. /\ more.request = r /\ more.done = d + 1
        /\ more.read = IF d + 1 = n THEN s ELSE x
    BY SelectedFields
  <1>2. c \in Campaigns /\ n \in Nat /\ Tables.contract = contract /\ Tables.campaign = campaign
    BY PlanOrder, RequestFields DEF Tables
  <1>3. SoundView(y)
    BY <1>2 DEF Sound
  <1>4. ASSUME d # 0
        PROVE  Knows(r, d, y, terms, now)
    <2>1. t.request = r /\ t.done = d /\ d < n
      BY <1>2
    <2> HIDE DEF n
    <2> QED
      BY <1>2, <1>4, <2>1 DEF Ready, n
  <1>5. Knows(r, d + 1, y, terms, now)
    <2> HIDE DEF y, terms, n
    <2> QED
      BY <1>3, <1>4, SelectKnows DEF y, terms
  <1>6. /\ y.campaign = s.campaign /\ y.rows = s.rows /\ y.subs = s.subs /\ y.days = s.days
        /\ y.dispute = s.dispute /\ y.balance = s.balance /\ s.now = now
        /\ s.campaign = campaign[c]
    BY DEF View, Snapshot, Tables
  <1> HIDE DEF s, y, terms, n
  <1>7. Knows(r, d + 1, s, terms, now) /\ SoundView(s)
    BY <1>3, <1>5, <1>6, KnowsSame
  <1> QED
    BY <1>1, <1>2, <1>5, <1>6, <1>7 DEF Ready, terms, y, n

-----------------------------------------------------------------------------
(* What a request has read when it writes *)

\* A request that has done its selects and knows, from what it has read, all that it tests (more
\* selects than six no request has).
Decides(r, h, s, terms, clock) ==
    /\ Done(r, h, s)
    /\ Knows(r, 6, s, terms, clock)
    /\ SoundView(s)
    /\ s.now = clock /\ clock \in Nat

\* After the last select nothing is left to find out.
LEMMA KnowsAll ==
    ASSUME NEW r \in Requests, NEW x, NEW terms, NEW clock, Knows(r, Len(Order(r)), x, terms, clock)
    PROVE  Knows(r, 6, x, terms, clock)
  <1> DEFINE n == Len(Order(r))
  <1>1. /\ OwnerKnows(r, n, x) /\ TesterKnows(r, n, x, terms, clock)
        /\ ReviewKnows(r, n, x) /\ ModeratorKnows(r, n, x)
    BY DEF Knows
  <1>2. n \in Nat /\ 6 > 1 /\ 6 > 2
    BY PlanOrder
  <1>3. r.op \in {"launch", "accept", "session", "submit", "escalate", "reject", "dismiss", "award"} =>
          n > 1
    <2>1. CASE r.op = "launch"
      BY <2>1 DEF Order, CampaignFirst
    <2>2. CASE r.op = "accept"
      BY <2>2 DEF Order, CampaignFirst
    <2>3. CASE r.op \in {"session", "submit", "escalate"}
      BY <2>3 DEF Order, CampaignFirst
    <2>4. CASE r.op \in {"reject", "dismiss"}
      BY <2>4 DEF Order, CampaignFirst
    <2>5. CASE r.op = "award"
      BY <2>5 DEF Order, CampaignFirst
    <2> QED
      BY <2>1, <2>2, <2>3, <2>4, <2>5
  <1>4. r.op = "review" => n > 2
    <2>1. CASE r.op = "review" /\ r.decision = "approved"
      BY <2>1 DEF Order, CampaignFirst
    <2>2. CASE r.op = "review" /\ r.decision # "approved"
      BY <2>2 DEF Order, CampaignFirst
    <2> QED
      BY <2>1, <2>2
  <1> HIDE DEF n
  <1>5. OwnerKnows(r, 6, x)
    BY <1>1, <1>2, <1>3 DEF OwnerKnows
  <1>6. TesterKnows(r, 6, x, terms, clock)
    BY <1>1, <1>2, <1>3 DEF TesterKnows
  <1>7. ReviewKnows(r, 6, x)
    BY <1>1, <1>2, <1>4 DEF ReviewKnows
  <1>8. ModeratorKnows(r, 6, x)
    BY <1>1, <1>2, <1>3 DEF ModeratorKnows
  <1> QED
    BY <1>5, <1>6, <1>7, <1>8 DEF Knows

\* An entry, if its key is new.
LEMMA EntryOne ==
    ASSUME NEW s, NEW u, NEW delta, NEW key, NEW entries, entries = Entry(s, u, delta, key)
    PROVE  /\ PostedIn(s.ledger, key) => entries = {}
           /\ ~PostedIn(s.ledger, key) => entries = {[key |-> key, user |-> u, delta |-> delta]}
           /\ \A e, f \in entries : e = f
           /\ \A e \in entries : e.user = u /\ e.delta = delta /\ e.key = key
  BY DEF Entry, PostedIn

\* What is written about a campaign keeps its row a campaign's, with its owner and its contract.
Lasting(c, s, w) ==
    /\ \A x : w.campaign = At(c, x) =>
         /\ x \in Campaign /\ x.status # "none" /\ x.reward # 0
         /\ s.campaign.status # "none" => x.owner = s.campaign.owner
    /\ w.campaign = <<>> \/ \E x : w.campaign = At(c, x)
    /\ w.contract = <<>> \/ (w.campaign # <<>> /\ s.campaign.status = "none")
    /\ w.rows = <<>> \/ s.campaign.status # "none"
    /\ \A e \in w.entries : s.balance[e.user] + e.delta \in Nat

\* One row at most, or none.
LEMMA AtMost ==
    /\ \A k, x : DOMAIN At(k, x) = {k} /\ At(k, x)[k] = x /\ At(k, x) # <<>>
    /\ DOMAIN <<>> = {}
    /\ \A k, x, y : At(k, x) = At(k, y) => x = y
  <1>1. \A k, x : DOMAIN At(k, x) = {k} /\ At(k, x)[k] = x
    BY DEF At
  <1>2. DOMAIN <<>> = {}
    OBVIOUS
  <1>3. ASSUME NEW k, NEW x
        PROVE  At(k, x) # <<>>
    <2> DEFINE row == At(k, x)
               none == <<>>
    <2>1. DOMAIN row = {k}
      BY <1>1
    <2>2. DOMAIN none = {}
      BY <1>2
    <2> HIDE DEF row, none
    <2>3. row # none
      BY <2>1, <2>2
    <2> QED
      BY <2>3 DEF row, none
  <1>4. ASSUME NEW k, NEW x, NEW y, At(k, x) = At(k, y)
        PROVE  x = y
    <2>1. At(k, x)[k] = x /\ At(k, y)[k] = y
      BY <1>1
    <2> QED
      BY <1>4, <2>1
  <1> QED
    BY <1>1, <1>2, <1>3, <1>4

\* The messages of a campaign.
LEMMA NotedFor ==
    \A u, kind, c, t, v : Notified(u, kind, c, t, v).assignment[1] = c
  BY DEF Notified

\* The columns of a campaign's row that is completed, or closed.
LEMMA CampaignRowWritten ==
    ASSUME NEW camp \in Campaign, NEW x, NEW rows,
           x \in {MaybeCompleted(camp, rows), [camp EXCEPT !.status = "cancelled"]}
    PROVE  /\ x \in Campaign /\ x.reward = camp.reward /\ x.owner = camp.owner
           /\ camp.status # "none" => x.status # "none"
           /\ x.status # "none" \/ x = camp
  BY DEF MaybeCompleted, Campaign, CampaignStatus

\* A campaign's row that is there, with the owner and the reward that were read.
Continues(x, camp) ==
    x \in Campaign /\ x.status # "none" /\ x.reward # 0 /\ x.owner = camp.owner

\* Where the campaign may be completed.
LEMMA CompletesLasting ==
    ASSUME NEW c, NEW s, SoundView(s), s.campaign.status # "none", NEW rows, NEW column,
           column = IF CompletionDue(s.campaign, rows) THEN At(c, MaybeCompleted(s.campaign, rows))
                                                       ELSE <<>>
    PROVE  /\ \A x : column = At(c, x) => Continues(x, s.campaign)
           /\ column = <<>> \/ \E x : column = At(c, x)
           /\ DOMAIN column \subseteq {c}
  <1> DEFINE y == MaybeCompleted(s.campaign, rows)
  <1>1. Continues(y, s.campaign)
    BY CampaignRowWritten DEF SoundView, SoundCampaign, Continues
  <1> HIDE DEF y
  <1>2. column = At(c, y) \/ column = <<>>
    BY DEF y
  <1> QED
    BY <1>1, <1>2, AtMost

-----------------------------------------------------------------------------
(* What is written is sound *)

\* Work that is there is about a campaign that is there.
LEMMA WorkCampaign ==
    ASSUME NEW r \in Requests, NEW h, NEW s, NEW terms, NEW clock, Decides(r, h, s, terms, clock)
    PROVE  r.op \in WorkOps \cup ModeratorOps \cup {"close", "apply"} => s.campaign.status # "none"
  <1>1. /\ r.op \in WorkOps \cup ModeratorOps => Worker(r) \in Users
        /\ r.op \in WorkOps => s.rows[Worker(r)].status # "none"
        /\ r.op \in ModeratorOps => s.dispute[Worker(r)].status # "none"
        /\ s.dispute \in [Users -> Dispute]
    <2>1. Done(r, h, s)
      BY DEF Decides
    <2>2. r.op \in WorkOps \cup ModeratorOps => Worker(r) \in Users
      BY RequestFields
    <2>3. s.dispute \in [Users -> Dispute]
      BY <2>1 DEF Done
    <2> QED
      BY <2>1, <2>2, <2>3, DoneHolds
  <1>2. /\ \A t \in Users : s.rows[t].status # "none" => s.campaign.status # "none"
        /\ \A t \in Users : SoundWork(s.rows[t], s.subs[t], s.dispute[t])
    BY DEF Decides, SoundView, SoundCampaign
  <1>3. CASE r.op \in WorkOps
    BY <1>1, <1>2, <1>3
  <1>4. CASE r.op \in ModeratorOps
    <2>1. s.dispute[Worker(r)].status \in ActiveDispute \cup {"resolved", "rejected"}
      BY <1>1, <1>4 DEF Dispute, DisputeStatus, ActiveDispute
    <2>2. s.rows[Worker(r)].status # "none"
      BY <1>1, <1>2, <1>4, <2>1 DEF SoundWork
    <2> QED
      BY <1>1, <1>2, <1>4, <2>2
  <1>5. CASE r.op \in {"close", "apply"}
    BY <1>5 DEF Decides, Knows, OwnerKnows, TesterKnows
  <1> QED
    BY <1>3, <1>4, <1>5

\* A column with at most the row of one key, and messages about one campaign.
Single(column, key) == column = <<>> \/ \E x : column = At(key, x)
NotesFor(c, notes) == \A n \in notes : n.assignment[1] = c

\* Such columns have no other key.
LEMMA SingleKey ==
    /\ \A k : Single(<<>>, k)
    /\ \A k, x : Single(At(k, x), k)
    /\ \A k, column : Single(column, k) => DOMAIN column \subseteq {k}
  BY AtMost DEF Single

\* Such messages.
LEMMA NotesOf ==
    /\ \A c : NotesFor(c, {})
    /\ \A u, kind, c, t, v : NotesFor(c, {Notified(u, kind, c, t, v)})
    /\ \A kind, c, S : NotesFor(c, {Notified(u, kind, c, u, 0) : u \in S})
    /\ \A r, s : NotesFor(r.c, Parties(r, s))
  BY NotedFor DEF NotesFor, Parties

\* A row that is written is this one.
LEMMA SameAt ==
    ASSUME NEW k, NEW x, NEW column, column = At(k, x), NEW y, column = At(k, y)
    PROVE  y = x
  BY AtMost

\* The keys of a request that locks no campaign, or of an acceptance or application.
LEMMA QuietKeyed ==
    ASSUME NEW r \in Requests, NEW h, NEW s, NEW terms, NEW clock, Decides(r, h, s, terms, clock),
           r.op \in WorkOps \cup ModeratorOps \cup TesterOps, NEW t, t = Worker(r),
           NEW w, w.campaign = <<>>, w.contract = <<>>, w.entries = {},
           Single(w.rows, t), Single(w.subs, t), Single(w.days, t), Single(w.dispute, t),
           NotesFor(r.c, w.notes)
    PROVE  Keyed(r.c, w) /\ Lasting(r.c, s, w)
  <1>1. t \in Users /\ s.campaign.status # "none"
    BY WorkCampaign, RequestFields DEF TesterOps, WorkOps
  <1>2. Keyed(r.c, w)
    <2>1. /\ DOMAIN w.rows \subseteq Users /\ DOMAIN w.subs \subseteq Users
          /\ DOMAIN w.days \subseteq Users /\ DOMAIN w.dispute \subseteq Users
      BY <1>1, SingleKey
    <2>2. DOMAIN w.campaign \subseteq {r.c} /\ DOMAIN w.contract \subseteq {r.c}
      BY AtMost
    <2> QED
      BY <2>1, <2>2 DEF Keyed, NotesFor
  <1>3. Lasting(r.c, s, w)
    BY <1>1, AtMost DEF Lasting
  <1> QED
    BY <1>2, <1>3

\* The keys of what a request writes, and the campaign it leaves.
LEMMA WritesLasting ==
    ASSUME NEW r \in Requests, NEW h, NEW s, NEW terms, NEW clock, Decides(r, h, s, terms, clock),
           NEW w, w = Writes(r, s)
    PROVE  Keyed(r.c, w) /\ Lasting(r.c, s, w)
  <1> DEFINE c == r.c
             t == Worker(r)
  <1>0. /\ c \in Campaigns /\ r.by \in Users /\ Done(r, h, s) /\ SoundView(s)
        /\ OwnerKnows(r, 6, s) /\ TesterKnows(r, 6, s, terms, clock)
        /\ r.op \in WorkOps \cup ModeratorOps \cup TesterOps => t \in Users
        /\ r.op \in WorkOps \cup ModeratorOps \cup {"close", "apply"} => s.campaign.status # "none"
    BY WorkCampaign, RequestFields DEF Decides, Knows
  <1>1. CASE r.op = "accept"
    <2>1. Accepts(r, s, w)
      BY <1>1, AcceptColumns
    <2>2. t = r.t
      BY <1>1 DEF Worker, TesterOps
    <2>3. w.campaign = <<>> /\ w.contract = <<>> /\ w.entries = {}
      BY <2>1 DEF Accepts
    <2>4. Single(w.rows, r.t) /\ Single(w.subs, r.t) /\ Single(w.days, r.t) /\ Single(w.dispute, r.t)
      BY <2>1, SingleKey DEF Accepts
    <2>5. NotesFor(c, w.notes)
      BY <2>1, NotesOf DEF Accepts
    <2>6. r.op \in WorkOps \cup ModeratorOps \cup TesterOps
      BY <1>1 DEF WorkOps, ModeratorOps, TesterOps
    <2> HIDE DEF t
    <2> QED
      BY <2>2, <2>3, <2>4, <2>5, <2>6, QuietKeyed DEF t
  <1>2. CASE r.op = "decline"
    <2>1. Declines(r, s, w)
      BY <1>2, DeclineColumns
    <2>2. t = r.t
      BY <1>2 DEF Worker, TesterOps
    <2>3. w.campaign = <<>> /\ w.contract = <<>> /\ w.entries = {}
      BY <2>1 DEF Declines
    <2>4. Single(w.rows, r.t) /\ Single(w.subs, r.t) /\ Single(w.days, r.t) /\ Single(w.dispute, r.t)
      BY <2>1, SingleKey DEF Declines
    <2>5. NotesFor(c, w.notes)
      BY <2>1, NotesOf DEF Declines
    <2>6. r.op \in WorkOps \cup ModeratorOps \cup TesterOps
      BY <1>2 DEF WorkOps, ModeratorOps, TesterOps
    <2> HIDE DEF t
    <2> QED
      BY <2>2, <2>3, <2>4, <2>5, <2>6, QuietKeyed DEF t
  <1>3. CASE r.op = "apply"
    <2>1. Applies(r, s, w)
      BY <1>3, ApplyColumns
    <2>2. t = r.by
      BY <1>3 DEF Worker, TesterOps
    <2>3. w.campaign = <<>> /\ w.contract = <<>> /\ w.entries = {}
      BY <2>1 DEF Applies
    <2>4. Single(w.rows, r.by) /\ Single(w.subs, r.by) /\ Single(w.days, r.by)
            /\ Single(w.dispute, r.by)
      BY <2>1, SingleKey DEF Applies
    <2>5. NotesFor(c, w.notes)
      BY <2>1, NotesOf DEF Applies
    <2>6. r.op \in WorkOps \cup ModeratorOps \cup TesterOps
      BY <1>3 DEF WorkOps, ModeratorOps, TesterOps
    <2> HIDE DEF t
    <2> QED
      BY <2>2, <2>3, <2>4, <2>5, <2>6, QuietKeyed DEF t
  <1>4. CASE r.op = "session"
    <2>1. Records(r, s, w)
      BY <1>4, SessionColumns
    <2>2. t = r.by
      BY <1>4 DEF Worker, TesterOps
    <2>3. w.campaign = <<>> /\ w.contract = <<>> /\ w.entries = {}
      BY <2>1 DEF Records
    <2>4. Single(w.rows, r.by) /\ Single(w.subs, r.by) /\ Single(w.days, r.by)
            /\ Single(w.dispute, r.by)
      BY <2>1, SingleKey DEF Records
    <2>5. NotesFor(c, w.notes)
      BY <2>1, NotesOf DEF Records
    <2>6. r.op \in WorkOps \cup ModeratorOps \cup TesterOps
      BY <1>4 DEF WorkOps, ModeratorOps, TesterOps
    <2> HIDE DEF t
    <2> QED
      BY <2>2, <2>3, <2>4, <2>5, <2>6, QuietKeyed DEF t
  <1>5. CASE r.op = "submit"
    <2>1. Submits(r, s, w)
      BY <1>5, SubmitColumns
    <2>2. t = r.by
      BY <1>5 DEF Worker, TesterOps
    <2>3. w.campaign = <<>> /\ w.contract = <<>> /\ w.entries = {}
      BY <2>1 DEF Submits
    <2>4. Single(w.rows, r.by) /\ Single(w.subs, r.by) /\ Single(w.days, r.by)
            /\ Single(w.dispute, r.by)
      BY <2>1, SingleKey DEF Submits
    <2>5. NotesFor(c, w.notes)
      BY <2>1, NotesOf DEF Submits
    <2>6. r.op \in WorkOps \cup ModeratorOps \cup TesterOps
      BY <1>5 DEF WorkOps, ModeratorOps, TesterOps
    <2> HIDE DEF t
    <2> QED
      BY <2>2, <2>3, <2>4, <2>5, <2>6, QuietKeyed DEF t
  <1>6. CASE r.op = "escalate"
    <2>1. Escalates(r, s, w)
      BY <1>6, EscalateColumns
    <2>2. t = r.by
      BY <1>6 DEF Worker, TesterOps
    <2>3. w.campaign = <<>> /\ w.contract = <<>> /\ w.entries = {}
      BY <2>1 DEF Escalates
    <2>4. Single(w.rows, r.by) /\ Single(w.subs, r.by) /\ Single(w.days, r.by)
            /\ Single(w.dispute, r.by)
      BY <2>1, SingleKey DEF Escalates
    <2>5. NotesFor(c, w.notes)
      BY <2>1, NotesOf DEF Escalates
    <2>6. r.op \in WorkOps \cup ModeratorOps \cup TesterOps
      BY <1>6 DEF WorkOps, ModeratorOps, TesterOps
    <2> HIDE DEF t
    <2> QED
      BY <2>2, <2>3, <2>4, <2>5, <2>6, QuietKeyed DEF t
  <1>7. CASE r.op = "review" /\ r.decision # "approved"
    <2>1. Reviews(r, s, w)
      BY <1>7, ReviewedColumns
    <2>2. t = r.t
      BY <1>7 DEF Worker, TesterOps
    <2>3. w.campaign = <<>> /\ w.contract = <<>> /\ w.entries = {}
      BY <2>1, Zenon DEF Reviews
    <2>4. Single(w.rows, r.t) /\ Single(w.subs, r.t) /\ Single(w.days, r.t) /\ Single(w.dispute, r.t)
      <3>1. PICK x, y : w.rows = At(r.t, x) /\ w.subs = At(r.t, y)
        BY <2>1, Zenon DEF Reviews
      <3>2. w.days = <<>> /\ w.dispute = <<>>
        BY <2>1, Zenon DEF Reviews
      <3> QED
        BY <3>1, <3>2, SingleKey
    <2>5. NotesFor(c, w.notes)
      <3>1. w.notes = {Notified(r.t, "submission_reviewed", c, r.t, r.v)}
        BY <2>1, Zenon DEF Reviews
      <3> QED
        BY <3>1, NotesOf
    <2>6. r.op \in WorkOps \cup ModeratorOps \cup TesterOps
      BY <1>7 DEF WorkOps, ModeratorOps, TesterOps
    <2> HIDE DEF t
    <2> QED
      BY <2>2, <2>3, <2>4, <2>5, <2>6, QuietKeyed DEF t
  <1>8. CASE r.op = "claim"
    <2>1. Claims(r, s, w)
      BY <1>8, ClaimColumns
    <2>2. t = r.t
      BY <1>8 DEF Worker, TesterOps
    <2>3. w.campaign = <<>> /\ w.contract = <<>> /\ w.entries = {}
      BY <2>1 DEF Claims
    <2>4. Single(w.rows, r.t) /\ Single(w.subs, r.t) /\ Single(w.days, r.t) /\ Single(w.dispute, r.t)
      BY <2>1, SingleKey DEF Claims
    <2>5. NotesFor(c, w.notes)
      BY <2>1, NotesOf DEF Claims
    <2>6. r.op \in WorkOps \cup ModeratorOps \cup TesterOps
      BY <1>8 DEF WorkOps, ModeratorOps, TesterOps
    <2> HIDE DEF t
    <2> QED
      BY <2>2, <2>3, <2>4, <2>5, <2>6, QuietKeyed DEF t
  <1>9. CASE r.op = "reject"
    <2> DEFINE v == s.dispute[r.t].version
    <2> HIDE DEF v
    <2>1. Rejects(r, s, w, v)
      BY <1>9, RejectColumns DEF v
    <2>2. t = r.t
      BY <1>9 DEF Worker, TesterOps
    <2>3. w.campaign = <<>> /\ w.contract = <<>> /\ w.entries = {}
      BY <2>1 DEF Rejects
    <2>4. Single(w.rows, r.t) /\ Single(w.subs, r.t) /\ Single(w.days, r.t) /\ Single(w.dispute, r.t)
      BY <2>1, SingleKey DEF Rejects
    <2>5. NotesFor(c, w.notes)
      BY <2>1, NotesOf DEF Rejects
    <2>6. r.op \in WorkOps \cup ModeratorOps \cup TesterOps
      BY <1>9 DEF WorkOps, ModeratorOps, TesterOps
    <2> HIDE DEF t
    <2> QED
      BY <2>2, <2>3, <2>4, <2>5, <2>6, QuietKeyed DEF t
  <1>10. CASE r.op = "dismiss"
    <2>1. Dismisses(r, s, w)
      BY <1>10, DismissColumns
    <2>2. t = r.t
      BY <1>10 DEF Worker, TesterOps
    <2>3. w.campaign = <<>> /\ w.contract = <<>> /\ w.entries = {}
      BY <2>1 DEF Dismisses
    <2>4. Single(w.rows, r.t) /\ Single(w.subs, r.t) /\ Single(w.days, r.t) /\ Single(w.dispute, r.t)
      BY <2>1, SingleKey DEF Dismisses
    <2>5. NotesFor(c, w.notes)
      BY <2>1, NotesOf DEF Dismisses
    <2>6. r.op \in WorkOps \cup ModeratorOps \cup TesterOps
      BY <1>10 DEF WorkOps, ModeratorOps, TesterOps
    <2> HIDE DEF t
    <2> QED
      BY <2>2, <2>3, <2>4, <2>5, <2>6, QuietKeyed DEF t
  <1>11. CASE r.op = "launch"
    <2> DEFINE x == [DraftRow(r.by, r.target, r.reward) EXCEPT !.status = "published"]
               cost == PostingCost(r.target, r.reward)
    <2>1. /\ w.campaign = At(c, x)
          /\ w.contract = At(c, [status |-> "locked", terms |-> r.terms])
          /\ w.rows = <<>> /\ w.subs = <<>> /\ w.days = <<>> /\ w.dispute = <<>>
          /\ w.entries = Entry(s, r.by, -cost, PostingKey(c)) /\ w.notes = {}
      <3>1. Launches(r, s, w)
        BY <1>11, LaunchColumns
      <3> QED
        BY <3>1 DEF Launches
    <2>2. x \in Campaign /\ x.status # "none" /\ x.reward # 0 /\ cost \in Nat
      BY <1>0, <1>11, RequestAssumption, OfferAssumption
         DEF DraftRow, Campaign, CampaignStatus, PostingCost
    <2>3. s.campaign.status = "none" /\ s.balance[r.by] \in Nat /\ s.balance[r.by] + -cost >= 0
      BY <1>0, <1>11 DEF OwnerKnows, SoundView
    <2> HIDE DEF x, cost
    <2>4. /\ \A e, f \in w.entries : e = f
          /\ \A e \in w.entries : e.user = r.by /\ e.delta = -cost
      BY <2>1, EntryOne
    <2>5. \A e \in w.entries : s.balance[e.user] + e.delta \in Nat
      BY <2>2, <2>3, <2>4
    <2>6. Keyed(c, w)
      <3>0. /\ Single(w.campaign, c) /\ Single(w.contract, c)
            /\ Single(w.rows, r.by) /\ Single(w.subs, r.by) /\ Single(w.days, r.by)
            /\ Single(w.dispute, r.by)
        BY <2>1, SingleKey
      <3>1. /\ DOMAIN w.campaign \subseteq {c} /\ DOMAIN w.contract \subseteq {c}
            /\ DOMAIN w.rows \subseteq Users /\ DOMAIN w.subs \subseteq Users
            /\ DOMAIN w.days \subseteq Users /\ DOMAIN w.dispute \subseteq Users
        BY <1>0, <3>0, SingleKey
      <3> QED
        BY <2>1, <2>4, <3>1 DEF Keyed
    <2>7. \A y : w.campaign = At(c, y) => y = x
      BY <2>1, SameAt
    <2>8. Lasting(c, s, w)
      BY <2>1, <2>2, <2>3, <2>5, <2>7, AtMost DEF Lasting
    <2> QED
      BY <2>6, <2>8
  <1>12. CASE r.op = "close"
    <2> DEFINE pending == Pending(s.rows)
               rows == Closing(s.rows)
               closed == [s.campaign EXCEPT !.status = "cancelled"]
               x == MaybeCompleted(closed, rows)
    <2>1. /\ w.campaign = At(c, x) /\ w.contract = <<>>
          /\ w.rows = [u \in pending |-> Cancelled(s.rows[u])]
          /\ w.subs = <<>> /\ w.days = <<>> /\ w.dispute = <<>> /\ w.entries = {}
          /\ w.notes = {Notified(u, "application_closed", c, u, 0) : u \in pending}
      <3> HIDE DEF pending, rows, closed
      <3>1. pending = Pending(s.rows) /\ rows = Closing(s.rows)
            /\ closed = [s.campaign EXCEPT !.status = "cancelled"]
        BY DEF pending, rows, closed
      <3>2. Closes(r, s, w, pending, rows, closed)
        BY <1>12, <3>1, CloseColumns
      <3> QED
        BY <3>2 DEF Closes
    <2>2. s.campaign.status # "none" /\ s.campaign \in Campaign /\ s.campaign.reward # 0
      BY <1>0, <1>12 DEF SoundView, SoundCampaign
    <2>3. /\ closed \in Campaign /\ closed.reward = s.campaign.reward
          /\ closed.owner = s.campaign.owner /\ closed.status # "none"
      BY <2>2 DEF Campaign, CampaignStatus
    <2> HIDE DEF closed, rows
    <2>4. x \in Campaign /\ x.status # "none" /\ x.reward # 0 /\ x.owner = s.campaign.owner
      BY <2>2, <2>3, CampaignRowWritten
    <2>5. pending \subseteq Users
      BY DEF Pending
    <2> HIDE DEF x, pending
    <2>6. DOMAIN w.rows \subseteq Users
      BY <2>1, <2>5
    <2>7. NotesFor(c, w.notes)
      BY <2>1, NotesOf
    <2>8. Keyed(c, w)
      <3>0. /\ Single(w.campaign, c) /\ Single(w.contract, c)
            /\ Single(w.subs, r.by) /\ Single(w.days, r.by) /\ Single(w.dispute, r.by)
        BY <2>1, SingleKey
      <3>1. /\ DOMAIN w.campaign \subseteq {c} /\ DOMAIN w.contract \subseteq {c}
            /\ DOMAIN w.subs \subseteq Users /\ DOMAIN w.days \subseteq Users
            /\ DOMAIN w.dispute \subseteq Users
        BY <1>0, <3>0, SingleKey
      <3> QED
        BY <2>1, <2>6, <2>7, <3>1 DEF Keyed, NotesFor
    <2>9. \A y : w.campaign = At(c, y) => y = x
      BY <2>1, SameAt
    <2>10. Lasting(c, s, w)
      BY <2>1, <2>2, <2>4, <2>9 DEF Lasting
    <2> QED
      BY <2>8, <2>10
  <1>13. CASE r.op = "withdraw"
    <2> DEFINE message == Notified(s.campaign.owner, "tester_withdrew", c, r.by, 0)
               mine == At(r.by, Cancelled(s.rows[r.by]))
               seen == IF message \in s.withdrawals THEN s.rows ELSE Over(mine, s.rows)
    <2>1. /\ w.campaign = IF CompletionDue(s.campaign, seen)
                          THEN At(c, MaybeCompleted(s.campaign, seen)) ELSE <<>>
          /\ w.contract = <<>> /\ w.rows = mine
          /\ w.subs = <<>> /\ w.days = <<>> /\ w.dispute = <<>> /\ w.entries = {}
          /\ w.notes = {message}
      <3> HIDE DEF message, mine, seen
      <3>1. message = Notified(s.campaign.owner, "tester_withdrew", c, r.by, 0)
            /\ mine = At(r.by, Cancelled(s.rows[r.by]))
            /\ seen = IF message \in s.withdrawals THEN s.rows ELSE Over(mine, s.rows)
        BY DEF message, mine, seen
      <3>2. Withdraws(r, s, w, message, mine, seen)
        BY <1>13, <3>1, WithdrawColumns
      <3> QED
        BY <3>2 DEF Withdraws
    <2>2. NotesFor(c, {message}) /\ s.campaign.status # "none"
      BY <1>0, <1>13, NotesOf DEF WorkOps
    <2>22. Single(mine, r.by)
      BY SingleKey
    <2> HIDE DEF message, seen, mine
    <2>3. /\ \A x : w.campaign = At(c, x) => Continues(x, s.campaign)
          /\ w.campaign = <<>> \/ \E x : w.campaign = At(c, x)
          /\ DOMAIN w.campaign \subseteq {c}
      BY <1>0, <2>1, <2>2, CompletesLasting
    <2>4. Keyed(c, w)
      <3>1. DOMAIN w.rows \subseteq Users
        BY <1>0, <2>1, <2>22, SingleKey
      <3>2. /\ DOMAIN w.contract = {} /\ DOMAIN w.subs = {} /\ DOMAIN w.days = {}
            /\ DOMAIN w.dispute = {}
        BY <2>1, AtMost
      <3> QED
        BY <2>1, <2>2, <2>3, <3>1, <3>2 DEF Keyed, NotesFor
    <2>5. Lasting(c, s, w)
      BY <2>1, <2>2, <2>3 DEF Lasting, Continues
    <2> QED
      BY <2>4, <2>5
  <1>14. CASE r.op = "review" /\ r.decision = "approved"
    <2> DEFINE row == At(r.t, ApprovedRow(s.rows[r.t]))
               seen == Over(row, s.rows)
    <2>1. /\ w.campaign = IF CompletionDue(s.campaign, seen)
                          THEN At(c, MaybeCompleted(s.campaign, seen)) ELSE <<>>
          /\ w.contract = <<>> /\ w.rows = row
          /\ Single(w.subs, r.t) /\ w.days = <<>> /\ Single(w.dispute, r.t)
          /\ w.entries = Entry(s, r.t, s.campaign.reward, RewardKey(c, r.t))
          /\ NotesFor(c, w.notes)
      <3> HIDE DEF row, seen
      <3>1. row = At(r.t, ApprovedRow(s.rows[r.t])) /\ seen = Over(row, s.rows)
        BY DEF row, seen
      <3>2. Approves(r, s, w, row, seen)
        BY <1>14, <3>1, ApproveColumns
      <3> QED
        BY <3>2, SingleKey, NotesOf DEF Approves
    <2>2. Single(row, r.t)
      BY SingleKey
    <2>3. r.t \in Users /\ s.campaign.status # "none"
      BY <1>0, <1>14 DEF WorkOps, Worker, TesterOps
    <2>4. s.balance[r.t] \in Nat /\ s.campaign.reward \in Nat
      BY <1>0, <2>3 DEF SoundView, SoundCampaign, Campaign
    <2>5. /\ \A e, f \in w.entries : e = f
          /\ \A e \in w.entries : e.user = r.t /\ e.delta = s.campaign.reward
      BY <2>1, EntryOne
    <2>6. \A e \in w.entries : s.balance[e.user] + e.delta \in Nat
      BY <2>4, <2>5
    <2> HIDE DEF seen, row
    <2>7. /\ \A x : w.campaign = At(c, x) => Continues(x, s.campaign)
          /\ w.campaign = <<>> \/ \E x : w.campaign = At(c, x)
          /\ DOMAIN w.campaign \subseteq {c}
      BY <1>0, <2>1, <2>3, CompletesLasting
    <2>8. Keyed(c, w)
      <3>1. /\ DOMAIN w.rows \subseteq Users /\ DOMAIN w.subs \subseteq Users
            /\ DOMAIN w.dispute \subseteq Users
        BY <2>1, <2>2, <2>3, SingleKey
      <3>2. DOMAIN w.contract = {} /\ DOMAIN w.days = {}
        BY <2>1, AtMost
      <3> QED
        BY <2>1, <2>5, <2>7, <3>1, <3>2 DEF Keyed, NotesFor
    <2>9. Lasting(c, s, w)
      BY <2>1, <2>3, <2>6, <2>7 DEF Lasting, Continues
    <2> QED
      BY <2>8, <2>9
  <1>15. CASE r.op = "award"
    <2> DEFINE row == At(r.t, ApprovedRow(s.rows[r.t]))
               seen == Over(row, s.rows)
    <2>1. /\ w.campaign = IF CompletionDue(s.campaign, seen)
                          THEN At(c, MaybeCompleted(s.campaign, seen)) ELSE <<>>
          /\ w.contract = <<>> /\ w.rows = row
          /\ Single(w.subs, r.t) /\ w.days = <<>> /\ Single(w.dispute, r.t)
          /\ w.entries = Entry(s, r.t, s.campaign.reward, RewardKey(c, r.t))
          /\ NotesFor(c, w.notes)
      <3> DEFINE v == s.dispute[r.t].version
      <3> HIDE DEF row, seen, v
      <3>1. row = At(r.t, ApprovedRow(s.rows[r.t])) /\ seen = Over(row, s.rows)
            /\ v = s.dispute[r.t].version
        BY DEF row, seen, v
      <3>2. Awards(r, s, w, v, row, seen)
        BY <1>15, <3>1, AwardColumns
      <3> QED
        BY <3>2, SingleKey, NotesOf DEF Awards
    <2>2. Single(row, r.t)
      BY SingleKey
    <2>3. r.t \in Users /\ s.campaign.status # "none"
      BY <1>0, <1>15 DEF WorkOps, Worker, TesterOps
    <2>4. s.balance[r.t] \in Nat /\ s.campaign.reward \in Nat
      BY <1>0, <2>3 DEF SoundView, SoundCampaign, Campaign
    <2>5. /\ \A e, f \in w.entries : e = f
          /\ \A e \in w.entries : e.user = r.t /\ e.delta = s.campaign.reward
      BY <2>1, EntryOne
    <2>6. \A e \in w.entries : s.balance[e.user] + e.delta \in Nat
      BY <2>4, <2>5
    <2> HIDE DEF seen, row
    <2>7. /\ \A x : w.campaign = At(c, x) => Continues(x, s.campaign)
          /\ w.campaign = <<>> \/ \E x : w.campaign = At(c, x)
          /\ DOMAIN w.campaign \subseteq {c}
      BY <1>0, <2>1, <2>3, CompletesLasting
    <2>8. Keyed(c, w)
      <3>1. /\ DOMAIN w.rows \subseteq Users /\ DOMAIN w.subs \subseteq Users
            /\ DOMAIN w.dispute \subseteq Users
        BY <2>1, <2>2, <2>3, SingleKey
      <3>2. DOMAIN w.contract = {} /\ DOMAIN w.days = {}
        BY <2>1, AtMost
      <3> QED
        BY <2>1, <2>5, <2>7, <3>1, <3>2 DEF Keyed, NotesFor
    <2>9. Lasting(c, s, w)
      BY <2>1, <2>3, <2>6, <2>7 DEF Lasting, Continues
    <2> QED
      BY <2>8, <2>9
  <1> QED
    BY <1>1, <1>2, <1>3, <1>4, <1>5, <1>6, <1>7, <1>8, <1>9, <1>10, <1>11, <1>12, <1>13, <1>14,
       <1>15, OperationOf
       DEF Operations

\* The operations that lock their campaign's row.
CampaignOps == {"launch", "close", "accept", "apply", "withdraw", "review", "award"}

\* What a request has read of its campaign and of the work it is about is so in the tables db.
ReadNow(r, s, db, t) ==
    /\ r.op \in CampaignOps => db.campaign[r.c] = s.campaign
    /\ r.op \in WorkOps \cup {"dismiss"} =>
         /\ db.submissions[r.c][t] = s.subs[t] /\ db.sessions[r.c][t] = s.days[t]
         /\ s.rows[t].status # "none" => db.assignment[r.c][t] = s.rows[t]
         /\ s.dispute[t].status = "none" => db.dispute[r.c][t] = s.dispute[t]
         /\ PostedIn(db.ledger, RewardKey(r.c, t)) => PostedIn(s.ledger, RewardKey(r.c, t))
    /\ r.op \in WorkOps => s.rows[t].status # "none"
    /\ r.op \in ModeratorOps => db.dispute[r.c][t] = s.dispute[t]
    /\ r.op = "apply" => db.assignment[r.c][t] = s.rows[t] /\ s.rows[t].status = "none"
    /\ r.op = "launch" => /\ db.balance[r.by] = s.balance[r.by]
                          /\ PostedIn(db.ledger, PostingKey(r.c)) =>
                               PostedIn(s.ledger, PostingKey(r.c))
    /\ r.op = "award" \/ (r.op = "review" /\ r.decision = "approved") => db.balance[t] = s.balance[t]

\* It is, where what was read is fresh.
LEMMA ReadsNow ==
    ASSUME NEW r \in Requests, NEW h, NEW s, Done(r, h, s), NEW db, Fresh(r.c, h, s, db),
           NEW t, t = Worker(r)
    PROVE  /\ ReadNow(r, s, db, t)
           /\ r.op = "close" => \A u \in Pending(s.rows) : db.assignment[r.c][u] = s.rows[u]
  <1> DEFINE c == r.c
  <1> USE DEF CampaignOps, WorkOps, ModeratorOps, TesterOps
  <1>1. /\ r.op \in CampaignOps => CampaignRow(c) \subseteq h
        /\ r.op \in WorkOps => AssignmentRow(c, t) \subseteq h /\ s.rows[t].status # "none"
        /\ r.op \in ModeratorOps => DisputeRow(c, t) \subseteq h /\ s.dispute[t].status # "none"
        /\ r.op = "launch" => AccountRow(r.by) \subseteq h
        /\ r.op = "award" \/ (r.op = "review" /\ r.decision = "approved") =>
             AccountRow(r.t) \subseteq h
        /\ r.op = "apply" => s.rows[r.by].status = "none"
        /\ r.op = "close" => \A u \in Pending(s.rows) : AssignmentRow(c, u) \subseteq h
    BY DoneHolds
  <1>2. /\ r.by \in Users
        /\ r.op \in WorkOps \cup ModeratorOps \cup TesterOps => t \in Users
    BY RequestFields
  <1>3. r.op = "dismiss" => AssignmentRow(c, t) \subseteq h
    <2> SUFFICES ASSUME r.op = "dismiss"
                 PROVE  AssignmentRow(c, t) \subseteq h
      OBVIOUS
    <2>1. Len(Order(r)) = 2 /\ Locks(r)[2] = AssignmentRow(c, t)
      BY DEF Order, Locks, CampaignFirst
    <2> QED
      BY <2>1 DEF Done
  <1>4. /\ r.op \in CampaignOps => db.campaign[c] = s.campaign
        /\ r.op = "launch" => (PostedIn(db.ledger, PostingKey(c)) =>
             PostedIn(s.ledger, PostingKey(c)))
        /\ r.op = "apply" => db.assignment[c][r.by] = s.rows[r.by]
        /\ r.op = "launch" => db.balance[r.by] = s.balance[r.by]
    BY <1>1, <1>2 DEF Fresh
  <1>5. /\ r.op \in WorkOps \cup {"dismiss"} =>
             /\ db.submissions[c][t] = s.subs[t] /\ db.sessions[c][t] = s.days[t]
             /\ s.rows[t].status # "none" => db.assignment[c][t] = s.rows[t]
             /\ s.dispute[t].status = "none" => db.dispute[c][t] = s.dispute[t]
             /\ PostedIn(db.ledger, RewardKey(c, t)) => PostedIn(s.ledger, RewardKey(c, t))
        /\ r.op \in ModeratorOps => db.dispute[c][t] = s.dispute[t]
    BY <1>1, <1>2, <1>3 DEF Fresh
  <1>6. r.op = "award" \/ (r.op = "review" /\ r.decision = "approved") => db.balance[t] = s.balance[t]
    <2>1. r.op \in {"award", "review"} => t = r.t /\ t \in Users
      BY <1>2 DEF Worker
    <2> QED
      BY <1>1, <2>1 DEF Fresh
  <1>7. r.op = "close" => \A u \in Pending(s.rows) : db.assignment[c][u] = s.rows[u]
    <2> SUFFICES ASSUME r.op = "close", NEW u \in Pending(s.rows)
                 PROVE  db.assignment[c][u] = s.rows[u]
      OBVIOUS
    <2>1. u \in Users /\ s.rows[u].status # "none" /\ AssignmentRow(c, u) \subseteq h
      BY <1>1 DEF Pending
    <2> QED
      BY <2>1 DEF Fresh
  <1>8. t = r.by \/ r.op # "apply"
    BY DEF Worker
  <1> HIDE DEF CampaignOps, WorkOps, ModeratorOps, TesterOps
  <1> QED
    BY <1>1, <1>4, <1>5, <1>6, <1>7, <1>8 DEF ReadNow

-----------------------------------------------------------------------------
(* The work that a request leaves *)

\* A cell with what is written over it.
Cell(written, t, old) == IF t \in DOMAIN written THEN written[t] ELSE old

\* Where one row is written, or none.
LEMMA CellOf ==
    /\ \A t, x : Cell(<<>>, t, x) = x
    /\ \A k, y, t, x : Cell(At(k, y), t, x) = IF t = k THEN y ELSE x
  <1>1. \A t, x : Cell(<<>>, t, x) = x
    BY AtMost DEF Cell
  <1>2. ASSUME NEW k, NEW y, NEW t, NEW x
        PROVE  Cell(At(k, y), t, x) = IF t = k THEN y ELSE x
    <2>1. DOMAIN At(k, y) = {k} /\ At(k, y)[k] = y
      BY AtMost
    <2> DEFINE row == At(k, y)
    <2> HIDE DEF row
    <2>2. DOMAIN row = {k} /\ row[k] = y
      BY <2>1 DEF row
    <2>3. Cell(row, t, x) = IF t = k THEN y ELSE x
      BY <2>2 DEF Cell
    <2> QED
      BY <2>3 DEF row
  <1> QED
    BY <1>1, <1>2

\* A dispute is about submitted or decided work only.
LEMMA NoCase ==
    ASSUME NEW row, NEW subs, NEW case, SoundWork(row, subs, case), case.status \in DisputeStatus,
           row.status \notin {"submitted", "approved", "rejected"}
    PROVE  \A x, y : SoundWork(x, y, case)
  BY DEF SoundWork, DisputeStatus, ActiveDispute
\* What a request writes of work and its dispute is sound.
LEMMA WorkWritten ==
    ASSUME NEW r \in Requests, NEW h, NEW s, NEW terms, NEW clock, Decides(r, h, s, terms, clock),
           NEW db, Sound(db), Shaped(db), Fresh(r.c, h, s, db),
           NEW w, w = Writes(r, s), NEW t \in Users,
           NEW row, row = db.assignment[r.c][t], NEW subs, subs = db.submissions[r.c][t],
           NEW case, case = db.dispute[r.c][t]
    PROVE  SoundWork(Cell(w.rows, t, row), Cell(w.subs, t, subs), Cell(w.dispute, t, case))
  <1> DEFINE c == r.c
             u == Worker(r)
  <1>1. /\ c \in Campaigns /\ Done(r, h, s) /\ r.by \in Users
        /\ OwnerKnows(r, 6, s) /\ TesterKnows(r, 6, s, terms, clock)
        /\ ReviewKnows(r, 6, s) /\ ModeratorKnows(r, 6, s)
        /\ r.op \in WorkOps \cup ModeratorOps \cup TesterOps => u \in Users
    BY RequestFields DEF Decides, Knows
  <1>2. SoundWork(row, subs, case)
    <2>1. SoundView(View(c, db))
      BY <1>1 DEF Sound
    <2> QED
      BY <2>1, ViewColumns DEF SoundView
  <1>3. case \in Dispute /\ case.status \in DisputeStatus
    <2>1. case \in Dispute
      BY <1>1 DEF Shaped
    <2> QED
      BY <2>1 DEF Dispute
  <1>4. /\ ReadNow(r, s, db, u)
        /\ r.op = "close" => \A x \in Pending(s.rows) : db.assignment[c][x] = s.rows[x]
    BY <1>1, ReadsNow
  <1>5. CASE r.op = "accept"
    <2>1. Accepts(r, s, w)
      BY <1>5, AcceptColumns
    <2>2. u = r.t
      BY <1>5 DEF Worker, TesterOps
    <2>3. t = r.t => row.status \notin {"submitted", "approved", "rejected"}
      BY <1>5, <1>1, <1>4, <2>2 DEF OwnerKnows, ReadNow, WorkOps
    <2>4. Cell(w.dispute, t, case) = case
      BY <2>1, CellOf DEF Accepts
    <2>5. t # r.t => Cell(w.rows, t, row) = row /\ Cell(w.subs, t, subs) = subs
      BY <2>1, CellOf DEF Accepts
    <2> QED
      BY <1>2, <1>3, <2>3, <2>4, <2>5, NoCase
  <1>6. CASE r.op = "decline"
    <2>1. Declines(r, s, w)
      BY <1>6, DeclineColumns
    <2>2. u = r.t
      BY <1>6 DEF Worker, TesterOps
    <2>3. t = r.t => row.status \notin {"submitted", "approved", "rejected"}
      BY <1>6, <1>1, <1>4, <2>2 DEF OwnerKnows, ReadNow, WorkOps
    <2>4. Cell(w.dispute, t, case) = case
      BY <2>1, CellOf DEF Declines
    <2>5. t # r.t => Cell(w.rows, t, row) = row /\ Cell(w.subs, t, subs) = subs
      BY <2>1, CellOf DEF Declines
    <2> QED
      BY <1>2, <1>3, <2>3, <2>4, <2>5, NoCase
  <1>7. CASE r.op = "apply"
    <2>1. Applies(r, s, w)
      BY <1>7, ApplyColumns
    <2>2. u = r.by
      BY <1>7 DEF Worker, TesterOps
    <2>3. t = r.by => row.status \notin {"submitted", "approved", "rejected"}
      BY <1>7, <1>1, <1>4, <2>2 DEF TesterKnows, ReadNow, WorkOps
    <2>4. Cell(w.dispute, t, case) = case
      BY <2>1, CellOf DEF Applies
    <2>5. t # r.by => Cell(w.rows, t, row) = row /\ Cell(w.subs, t, subs) = subs
      BY <2>1, CellOf DEF Applies
    <2> QED
      BY <1>2, <1>3, <2>3, <2>4, <2>5, NoCase
  <1>8. CASE r.op = "submit"
    <2>1. Submits(r, s, w)
      BY <1>8, SubmitColumns
    <2>2. u = r.by
      BY <1>8 DEF Worker, TesterOps
    <2>3. t = r.by => row.status \notin {"submitted", "approved", "rejected"}
      BY <1>8, <1>1, <1>4, <2>2 DEF TesterKnows, ReadNow, WorkOps
    <2>4. Cell(w.dispute, t, case) = case
      BY <2>1, CellOf DEF Submits
    <2>5. t # r.by => Cell(w.rows, t, row) = row /\ Cell(w.subs, t, subs) = subs
      BY <2>1, CellOf DEF Submits
    <2> QED
      BY <1>2, <1>3, <2>3, <2>4, <2>5, NoCase
  <1>9. CASE r.op = "withdraw"
    <2> DEFINE message == Notified(s.campaign.owner, "tester_withdrew", c, r.by, 0)
               mine == At(r.by, Cancelled(s.rows[r.by]))
               seen == IF message \in s.withdrawals THEN s.rows ELSE Over(mine, s.rows)
    <2>0. Single(mine, r.by)
      BY SingleKey
    <2> HIDE DEF message, mine, seen
    <2>1. Withdraws(r, s, w, message, mine, seen)
      BY <1>9, WithdrawColumns DEF message, mine, seen
    <2>2. u = r.by
      BY <1>9 DEF Worker, TesterOps
    <2>3. t = r.by => row.status \notin {"submitted", "approved", "rejected"}
      BY <1>9, <1>1, <1>4, <2>2 DEF TesterKnows, ReadNow, WorkOps, Withdrawable
    <2>4. Cell(w.dispute, t, case) = case
      BY <2>1, CellOf DEF Withdraws
    <2>5. t # r.by => Cell(w.rows, t, row) = row /\ Cell(w.subs, t, subs) = subs
      BY <2>0, <2>1, CellOf DEF Withdraws, Single
    <2> QED
      BY <1>2, <1>3, <2>3, <2>4, <2>5, NoCase
  <1>10. CASE r.op = "close"
    <2> DEFINE pending == Pending(s.rows)
               rows == Closing(s.rows)
               closed == [s.campaign EXCEPT !.status = "cancelled"]
    <2> HIDE DEF pending, rows, closed
    <2>1. Closes(r, s, w, pending, rows, closed)
      BY <1>10, CloseColumns DEF pending, rows, closed
    <2>2. t \in pending => row.status = "applied"
      BY <1>10, <1>4 DEF pending, Pending
    <2>3. Cell(w.dispute, t, case) = case
      BY <2>1, CellOf DEF Closes
    <2>4. t \notin pending => Cell(w.rows, t, row) = row
      BY <2>1 DEF Closes, Cell
    <2>5. Cell(w.subs, t, subs) = subs
      BY <2>1, CellOf DEF Closes
    <2> QED
      BY <1>2, <1>3, <2>2, <2>3, <2>4, <2>5, NoCase
  <1>11. CASE r.op = "launch"
    <2>1. Launches(r, s, w)
      BY <1>11, LaunchColumns
    <2>2. /\ Cell(w.rows, t, row) = row /\ Cell(w.subs, t, subs) = subs
          /\ Cell(w.dispute, t, case) = case
      BY <2>1, CellOf DEF Launches
    <2> QED
      BY <1>2, <2>2
  <1>12. CASE r.op = "session"
    <2>1. Records(r, s, w)
      BY <1>12, SessionColumns
    <2>2. /\ Cell(w.rows, t, row) = row /\ Cell(w.subs, t, subs) = subs
          /\ Cell(w.dispute, t, case) = case
      BY <2>1, CellOf DEF Records
    <2> QED
      BY <1>2, <2>2
  <1>13. CASE r.op = "escalate"
    <2> DEFINE new == [s.dispute[r.by] EXCEPT !.status = "open", !.version = r.v]
    <2>0. new.status = "open" /\ new.version = r.v
      BY <1>13, RequestFields DEF Decides, Done, Dispute, TesterOps
    <2> HIDE DEF new
    <2>1. Escalates(r, s, w) /\ u = r.by
      BY <1>13, EscalateColumns DEF Worker, TesterOps
    <2>2. w.rows = <<>> /\ w.subs = <<>> /\ w.dispute = At(r.by, new)
      BY <2>1 DEF Escalates, new
    <2>3. /\ Cell(w.rows, t, row) = row /\ Cell(w.subs, t, subs) = subs
          /\ Cell(w.dispute, t, case) = IF t = r.by THEN new ELSE case
      BY <2>2, CellOf
    <2>4. t = r.by => r.v \in DOMAIN subs /\ row.status \in {"submitted", "rejected"}
      BY <1>13, <1>1, <1>4, <2>1 DEF TesterKnows, ReadNow, WorkOps
    <2>5. t = r.by => SoundWork(row, subs, new)
      BY <2>0, <2>4 DEF SoundWork, ActiveDispute
    <2> QED
      BY <1>2, <2>3, <2>5
  <1>14. CASE r.op = "review"
    <2>1. u = r.t
      BY <1>14 DEF Worker, TesterOps
    <2>2. t = r.t => case.status = "none"
      BY <1>14, <1>1, <1>4, <2>1 DEF ReviewKnows, ReadNow, WorkOps
    <2>3. /\ w.dispute = <<>> /\ Single(w.rows, r.t) /\ Single(w.subs, r.t)
      <3>1. CASE r.decision = "approved"
        <4> DEFINE mine == At(r.t, ApprovedRow(s.rows[r.t]))
                   seen == Over(mine, s.rows)
        <4>0. Single(mine, r.t)
          BY SingleKey
        <4> HIDE DEF mine, seen
        <4>1. Approves(r, s, w, mine, seen)
          BY <1>14, <3>1, ApproveColumns DEF mine, seen
        <4> QED
          BY <4>0, <4>1, SingleKey DEF Approves
      <3>2. CASE r.decision # "approved"
        <4>1. Reviews(r, s, w)
          BY <1>14, <3>2, ReviewedColumns
        <4> QED
          BY <4>1, SingleKey DEF Reviews
      <3> QED
        BY <3>1, <3>2
    <2>4. Cell(w.dispute, t, case) = case
      BY <2>3, CellOf
    <2>5. t # r.t => Cell(w.rows, t, row) = row /\ Cell(w.subs, t, subs) = subs
      BY <2>3, CellOf DEF Single
    <2>6. t = r.t => \A x, y : SoundWork(x, y, case)
      BY <2>2 DEF SoundWork, ActiveDispute
    <2> QED
      BY <1>2, <2>4, <2>5, <2>6
  <1>15. CASE r.op = "claim"
    <2>1. Claims(r, s, w) /\ u = r.t
      BY <1>15, ClaimColumns DEF Worker, TesterOps
    <2>2. t = r.t => case = s.dispute[r.t] /\ case.status = "open"
      BY <1>15, <1>1, <1>4, <2>1 DEF ModeratorKnows, ReadNow, ModeratorOps
    <2> DEFINE new == [s.dispute[r.t] EXCEPT !.status = "under_review", !.assigned_to = r.by]
    <2>3. t = r.t => new.status = "under_review" /\ new.version = case.version
      BY <1>3, <2>2 DEF Dispute
    <2> HIDE DEF new
    <2>4. w.rows = <<>> /\ w.subs = <<>> /\ w.dispute = At(r.t, new)
      BY <2>1 DEF Claims, new
    <2>5. /\ Cell(w.rows, t, row) = row /\ Cell(w.subs, t, subs) = subs
          /\ Cell(w.dispute, t, case) = IF t = r.t THEN new ELSE case
      BY <2>4, CellOf
    <2>6. t = r.t => SoundWork(row, subs, new)
      BY <1>2, <2>2, <2>3 DEF SoundWork, ActiveDispute
    <2> QED
      BY <1>2, <2>5, <2>6
  <1>16. CASE r.op = "dismiss"
    <2>1. Dismisses(r, s, w) /\ u = r.t /\ r.outcome \in {"resolved", "rejected"}
      BY <1>16, DismissColumns, RequestFields DEF Worker, TesterOps
    <2>2. t = r.t => /\ case = s.dispute[r.t] /\ case.status = "under_review"
                     /\ row.status = "rejected"
      BY <1>16, <1>1, <1>4, <2>1 DEF ModeratorKnows, ReadNow, ModeratorOps
    <2> DEFINE new == [s.dispute[r.t] EXCEPT !.status = r.outcome, !.remedy = "none"]
    <2>3. t = r.t => new.status = r.outcome /\ new.version = case.version
      BY <1>3, <2>2 DEF Dispute
    <2> HIDE DEF new
    <2>4. w.rows = <<>> /\ w.subs = <<>> /\ w.dispute = At(r.t, new)
      BY <2>1 DEF Dismisses, new
    <2>5. /\ Cell(w.rows, t, row) = row /\ Cell(w.subs, t, subs) = subs
          /\ Cell(w.dispute, t, case) = IF t = r.t THEN new ELSE case
      BY <2>4, CellOf
    <2>6. t = r.t => SoundWork(row, subs, new)
      BY <1>2, <2>1, <2>2, <2>3 DEF SoundWork, ActiveDispute
    <2> QED
      BY <1>2, <2>5, <2>6
  <1>17. CASE r.op = "reject"
    <2> DEFINE v == s.dispute[r.t].version
               left == [s.rows[r.t] EXCEPT !.status = "rejected", !.completed_at = TRUE]
               new == [s.dispute[r.t] EXCEPT !.status = "rejected", !.remedy = "none"]
               work == [s.subs[r.t] EXCEPT ![v].status = "rejected"]
    <2>0. u = r.t /\ u \in Users
      BY <1>17, <1>1 DEF Worker, TesterOps, ModeratorOps
    <2>1. t = r.t => /\ case = s.dispute[r.t] /\ row = s.rows[r.t] /\ subs = s.subs[r.t]
                     /\ v \in DOMAIN subs
      BY <1>17, <1>1, <1>4, <2>0 DEF ModeratorKnows, ReadNow, ModeratorOps, WorkOps
    <2>2. t = r.t => new.status = "rejected" /\ new.version = v
      BY <1>3, <2>1 DEF Dispute
    <2>3. DOMAIN work = DOMAIN s.subs[r.t]
      OBVIOUS
    <2>4. left.status = "rejected"
      <3>1. s.rows[r.t] \in Assignment
        BY <1>1, <2>0 DEF Done
      <3> QED
        BY <3>1 DEF Assignment
    <2>5. Rejects(r, s, w, v)
      <3> HIDE DEF v
      <3> QED
        BY <1>17, RejectColumns DEF v
    <2>6. w.rows = At(r.t, left) /\ w.subs = At(r.t, work) /\ w.dispute = At(r.t, new)
      BY <2>5, Zenon DEF Rejects
    <2> HIDE DEF left, new, work
    <2>7. /\ Cell(w.rows, t, row) = IF t = r.t THEN left ELSE row
          /\ Cell(w.subs, t, subs) = IF t = r.t THEN work ELSE subs
          /\ Cell(w.dispute, t, case) = IF t = r.t THEN new ELSE case
      BY <2>6, CellOf
    <2> HIDE DEF v
    <2>8. t = r.t => SoundWork(left, work, new)
      BY <2>1, <2>2, <2>3, <2>4 DEF SoundWork, ActiveDispute
    <2> QED
      BY <1>2, <2>7, <2>8
  <1>18. CASE r.op = "award"
    <2> DEFINE v == s.dispute[r.t].version
               mine == At(r.t, ApprovedRow(s.rows[r.t]))
               seen == Over(mine, s.rows)
               left == ApprovedRow(s.rows[r.t])
               new == [s.dispute[r.t] EXCEPT !.status = "resolved", !.remedy = "award_tester"]
               work == [s.subs[r.t] EXCEPT ![v].status = "approved"]
    <2>0. u = r.t /\ u \in Users
      BY <1>18, <1>1 DEF Worker, TesterOps, ModeratorOps
    <2>1. t = r.t => /\ case = s.dispute[r.t] /\ row = s.rows[r.t] /\ subs = s.subs[r.t]
                     /\ v \in DOMAIN subs
      BY <1>18, <1>1, <1>4, <2>0 DEF ModeratorKnows, ReadNow, ModeratorOps, WorkOps
    <2>2. t = r.t => new.status = "resolved" /\ new.version = v
      BY <1>3, <2>1 DEF Dispute
    <2>3. DOMAIN work = DOMAIN s.subs[r.t]
      OBVIOUS
    <2>4. left.status = "approved"
      <3>1. s.rows[r.t] \in Assignment
        BY <1>1, <2>0 DEF Done
      <3> QED
        BY <3>1 DEF Assignment, ApprovedRow
    <2>5. Awards(r, s, w, v, mine, seen)
      <3> HIDE DEF v, mine, seen
      <3> QED
        BY <1>18, AwardColumns DEF v, mine, seen
    <2>6. w.rows = At(r.t, left) /\ w.subs = At(r.t, work) /\ w.dispute = At(r.t, new)
      BY <2>5, Zenon DEF Awards
    <2> HIDE DEF left, new, work
    <2>7. /\ Cell(w.rows, t, row) = IF t = r.t THEN left ELSE row
          /\ Cell(w.subs, t, subs) = IF t = r.t THEN work ELSE subs
          /\ Cell(w.dispute, t, case) = IF t = r.t THEN new ELSE case
      BY <2>6, CellOf
    <2> HIDE DEF v
    <2>8. t = r.t => SoundWork(left, work, new)
      BY <2>1, <2>2, <2>3, <2>4 DEF SoundWork, ActiveDispute
    <2> QED
      BY <1>2, <2>7, <2>8
  <1> QED
    BY <1>5, <1>6, <1>7, <1>8, <1>9, <1>10, <1>11, <1>12, <1>13, <1>14, <1>15, <1>16, <1>17, <1>18,
       OperationOf DEF Operations

-----------------------------------------------------------------------------
(* The tables that a commit leaves *)

\* What is written about campaign c may be committed to the tables db.
Due(c, h, s, w, db) ==
    /\ Guarded(c, h, s, w) /\ Fresh(c, h, s, db) /\ Keyed(c, w) /\ Lasting(c, s, w)
    /\ s.campaign.status # "none" => db.campaign[c].status # "none"

\* The one entry, however it is chosen.
LEMMA SoleEntry ==
    ASSUME NEW entries, \A e, f \in entries : e = f, NEW e \in entries
    PROVE  /\ (CHOOSE f \in entries : TRUE) = e
           /\ (CHOOSE f \in entries : f.user = e.user) = e
  <1>1. (CHOOSE f \in entries : TRUE) \in entries
    OBVIOUS
  <1>2. (CHOOSE f \in entries : f.user = e.user) \in entries
    OBVIOUS
  <1> QED
    BY <1>1, <1>2

\* The balances with the entry of a request on them.
LEMMA PaidBalance ==
    ASSUME NEW c \in Campaigns, NEW h, NEW s, NEW w, NEW db, Guarded(c, h, s, w), Fresh(c, h, s, db),
           Keyed(c, w)
    PROVE  Paid(w.entries, db.balance) =
             [u \in Users |-> IF \E e \in w.entries : e.user = u
                              THEN s.balance[u] + (CHOOSE e \in w.entries : TRUE).delta
                              ELSE db.balance[u]]
  <1>1. \A e, f \in w.entries : e = f
    BY DEF Keyed
  <1>2. ASSUME NEW u \in Users, NEW e \in w.entries, e.user = u
        PROVE  db.balance[u] + (CHOOSE f \in w.entries : f.user = u).delta
                 = s.balance[u] + (CHOOSE f \in w.entries : TRUE).delta
    <2>1. db.balance[u] = s.balance[u]
      BY <1>2 DEF Guarded, Fresh
    <2>2. (CHOOSE f \in w.entries : TRUE) = e /\ (CHOOSE f \in w.entries : f.user = e.user) = e
      BY <1>1, SoleEntry
    <2> QED
      BY <1>2, <2>1, <2>2
  <1>3. ASSUME NEW u \in Users
        PROVE  (IF \E e \in w.entries : e.user = u
                THEN db.balance[u] + (CHOOSE f \in w.entries : f.user = u).delta
                ELSE db.balance[u])
                 = IF \E e \in w.entries : e.user = u
                   THEN s.balance[u] + (CHOOSE f \in w.entries : TRUE).delta
                   ELSE db.balance[u]
    BY <1>2
  <1> QED
    BY <1>3 DEF Paid

\* The writes of a request, on the tables, are what its commit leaves.
LEMMA PatchApplied ==
    ASSUME NEW c \in Campaigns, NEW h, NEW s, NEW w, NEW db, Guarded(c, h, s, w), Fresh(c, h, s, db),
           Keyed(c, w), NEW p, p = Patch(c, w, db)
    PROVE  Applied(c, s, w, db, p)
  <1>1. /\ p.campaign = Over(w.campaign, db.campaign)
        /\ p.ledger = db.ledger \cup w.entries
        /\ p.balance = Paid(w.entries, db.balance)
    BY PatchTables
  <1>2. /\ p.assignment = Overwritten(c, db.assignment, w.rows)
        /\ p.submissions = Overwritten(c, db.submissions, w.subs)
        /\ p.sessions = Overwritten(c, db.sessions, w.days)
        /\ p.dispute = Overwritten(c, db.dispute, w.dispute)
    BY PatchTables
  <1>3. /\ p.assignment = [db.assignment EXCEPT ![c] = Over(w.rows, @)]
        /\ p.submissions = [db.submissions EXCEPT ![c] = Over(w.subs, @)]
        /\ p.sessions = [db.sessions EXCEPT ![c] = Over(w.days, @)]
        /\ p.dispute = [db.dispute EXCEPT ![c] = Over(w.dispute, @)]
    BY <1>2 DEF Overwritten
  <1>4. p.balance = [u \in Users |-> IF \E e \in w.entries : e.user = u
                                     THEN s.balance[u] + (CHOOSE e \in w.entries : TRUE).delta
                                     ELSE db.balance[u]]
    BY <1>1, PaidBalance
  <1> QED
    BY <1>1, <1>3, <1>4 DEF Applied

\* The commit of a thread patches the tables.
LEMMA CommitPatches ==
    ASSUME NEW th \in Threads, Commit(th), tx[th].request \in Requests,
           NEW c, c = tx[th].request.c, NEW s, s = tx[th].read, NEW h,
           NEW w, w = Writes(tx[th].request, s),
           Guarded(c, h, s, w), Fresh(c, h, s, Tables), Keyed(c, w)
    PROVE  Tables' = Patch(c, w, Tables)
  <1> DEFINE db == Tables
             p == Patch(c, w, db)
             later == Tables'
  <1>1. Applied(c, s, w, db, later)
    BY CommitApplied
  <1>2. contract' = Over(w.contract, contract) /\ audit' = audit \cup w.audit
        /\ notifications' = notifications \cup w.notes
    BY DEF Commit, Written, Writing
  <1>3. /\ later.contract = contract' /\ later.audit = audit'
        /\ later.notifications = notifications'
        /\ db.contract = contract /\ db.audit = audit /\ db.notifications = notifications
    BY DEF Tables
  <1>4. AreTables(later)
    <2>1. /\ later.campaign = campaign' /\ later.contract = contract'
          /\ later.assignment = assignment' /\ later.submissions = submissions'
          /\ later.sessions = sessions' /\ later.dispute = dispute'
          /\ later.balance = balance' /\ later.ledger = ledger' /\ later.audit = audit'
          /\ later.notifications = notifications'
      BY DEF Tables
    <2>2. later = [campaign |-> campaign', contract |-> contract', assignment |-> assignment',
                   submissions |-> submissions', sessions |-> sessions', dispute |-> dispute',
                   balance |-> balance', ledger |-> ledger', audit |-> audit',
                   notifications |-> notifications']
      BY DEF Tables
    <2> HIDE DEF later
    <2> QED
      BY <2>1, <2>2 DEF AreTables
  <1>5. c \in Campaigns
    BY RequestFields
  <1> HIDE DEF later, db
  <1>6. p = Patch(c, w, db)
    OBVIOUS
  <1> HIDE DEF p
  <1>7. Fresh(c, h, s, db)
    BY DEF db
  <1>8. Applied(c, s, w, db, p)
    BY <1>5, <1>6, <1>7, PatchApplied
  <1>9. AreTables(p) /\ p.contract = Over(w.contract, db.contract)
        /\ p.audit = db.audit \cup w.audit /\ p.notifications = db.notifications \cup w.notes
    BY <1>6, PatchRecord, PatchTables
  <1>10. /\ later.campaign = p.campaign /\ later.assignment = p.assignment
         /\ later.submissions = p.submissions /\ later.sessions = p.sessions
         /\ later.dispute = p.dispute /\ later.balance = p.balance /\ later.ledger = p.ledger
    BY <1>1, <1>8 DEF Applied
  <1>11. /\ later.contract = p.contract /\ later.audit = p.audit
         /\ later.notifications = p.notifications
    BY <1>2, <1>3, <1>9
  <1>12. later = p
    BY <1>4, <1>9, <1>10, <1>11, SameTables
  <1> QED
    BY <1>12 DEF later, p, db

\* Tables that a request writes to have their cells.
LEMMA PatchFormed ==
    ASSUME NEW c \in Campaigns, NEW w, Keyed(c, w), NEW db, Formed(db), NEW p, p = Patch(c, w, db)
    PROVE  Formed(p)
  <1>1. p.campaign = [d \in Campaigns |-> p.campaign[d]]
    <2>1. p.campaign = Over(w.campaign, db.campaign)
      BY PatchTables
    <2>2. DOMAIN db.campaign = Campaigns /\ DOMAIN w.campaign \subseteq {c}
      BY DEF Formed, Keyed
    <2> QED
      BY <2>1, <2>2, OwnOver
  <1>2. p.contract = [d \in Campaigns |-> p.contract[d]]
    <2>1. p.contract = Over(w.contract, db.contract)
      BY PatchTables
    <2>2. DOMAIN db.contract = Campaigns /\ DOMAIN w.contract \subseteq {c}
      BY DEF Formed, Keyed
    <2> QED
      BY <2>1, <2>2, OwnOver
  <1>3. ByWorker(p.assignment) /\ ByWorker(p.submissions) /\ ByWorker(p.sessions)
        /\ ByWorker(p.dispute)
    <2>1. /\ p.assignment = Overwritten(c, db.assignment, w.rows)
          /\ p.submissions = Overwritten(c, db.submissions, w.subs)
          /\ p.sessions = Overwritten(c, db.sessions, w.days)
          /\ p.dispute = Overwritten(c, db.dispute, w.dispute)
      BY PatchTables
    <2>2. /\ ByWorker(db.assignment) /\ ByWorker(db.submissions) /\ ByWorker(db.sessions)
          /\ ByWorker(db.dispute)
      BY DEF Formed
    <2>3. /\ DOMAIN w.rows \subseteq Users /\ DOMAIN w.subs \subseteq Users
          /\ DOMAIN w.days \subseteq Users /\ DOMAIN w.dispute \subseteq Users
      BY DEF Keyed
    <2> QED
      BY <2>1, <2>2, <2>3, OverRows
  <1>4. p.balance = [u \in Users |-> p.balance[u]]
    <2>1. p.balance = Paid(w.entries, db.balance) /\ OncePerUser(w.entries)
      BY PatchTables DEF Keyed, OncePerUser
    <2> QED
      BY <2>1, PaidCells
  <1> QED
    BY <1>1, <1>2, <1>3, <1>4 DEF Formed

\* The campaigns, contracts and balances that a commit leaves.
LEMMA PatchCells ==
    ASSUME NEW c \in Campaigns, NEW w, Keyed(c, w), NEW db, Formed(db), NEW p, p = Patch(c, w, db)
    PROVE  /\ \A d \in Campaigns :
                /\ p.campaign[d] = IF d \in DOMAIN w.campaign THEN w.campaign[d] ELSE db.campaign[d]
                /\ p.contract[d] = IF d \in DOMAIN w.contract THEN w.contract[d] ELSE db.contract[d]
           /\ \A u \in Users : (\A e \in w.entries : e.user # u) => p.balance[u] = db.balance[u]
           /\ \A e \in w.entries : e.user \in Users =>
                p.balance[e.user] = db.balance[e.user] + e.delta
  <1>1. p.campaign = Over(w.campaign, db.campaign) /\ p.contract = Over(w.contract, db.contract)
        /\ p.balance = Paid(w.entries, db.balance)
    BY PatchTables
  <1>2. /\ DOMAIN db.campaign = Campaigns /\ DOMAIN w.campaign \subseteq {c}
        /\ DOMAIN db.contract = Campaigns /\ DOMAIN w.contract \subseteq {c}
    BY DEF Formed, Keyed
  <1>3. \A d \in Campaigns :
          p.campaign[d] = IF d \in DOMAIN w.campaign THEN w.campaign[d] ELSE db.campaign[d]
    BY <1>1, <1>2, OwnOver
  <1>4. \A d \in Campaigns :
          p.contract[d] = IF d \in DOMAIN w.contract THEN w.contract[d] ELSE db.contract[d]
    BY <1>1, <1>2, OwnOver
  <1>5. OncePerUser(w.entries)
    BY DEF Keyed, OncePerUser
  <1>6. /\ \A u \in Users : (\A e \in w.entries : e.user # u) => p.balance[u] = db.balance[u]
        /\ \A e \in w.entries : e.user \in Users => p.balance[e.user] = db.balance[e.user] + e.delta
    BY <1>1, <1>5, PaidCells
  <1> QED
    BY <1>3, <1>4, <1>6

\* A commit keeps the campaigns.
LEMMA PatchKept ==
    ASSUME NEW c \in Campaigns, NEW h, NEW s, NEW w, NEW db, Formed(db), Due(c, h, s, w, db),
           NEW p, p = Patch(c, w, db)
    PROVE  Kept(db, p)
  <1>1. /\ Guarded(c, h, s, w) /\ Fresh(c, h, s, db) /\ Keyed(c, w) /\ Lasting(c, s, w)
    BY DEF Due
  <1>2. ASSUME NEW d \in Campaigns, db.campaign[d].status # "none"
        PROVE  /\ p.campaign[d].status # "none" /\ p.campaign[d].owner = db.campaign[d].owner
               /\ p.contract[d] = db.contract[d]
    <2>1. /\ p.campaign[d] = IF d \in DOMAIN w.campaign THEN w.campaign[d] ELSE db.campaign[d]
          /\ p.contract[d] = IF d \in DOMAIN w.contract THEN w.contract[d] ELSE db.contract[d]
      BY <1>1, PatchCells
    <2>2. /\ \A x \in DOMAIN w.campaign : x = c /\ CampaignRow(c) \subseteq h
          /\ DOMAIN w.contract \subseteq {c}
      BY <1>1 DEF Guarded, Keyed
    <2>3. CampaignRow(c) \subseteq h => db.campaign[c] = s.campaign
      BY <1>1 DEF Fresh
    <2>4. ASSUME d \in DOMAIN w.campaign
          PROVE  w.campaign[d].status # "none" /\ w.campaign[d].owner = db.campaign[d].owner
      <3>1. d = c /\ db.campaign[c] = s.campaign
        BY <2>2, <2>3, <2>4
      <3>2. w.campaign # <<>>
        BY <2>4, AtMost
      <3>3. PICK x : w.campaign = At(c, x)
        BY <1>1, <3>2 DEF Lasting
      <3>4. w.campaign[c] = x
        BY <3>3, AtMost
      <3>5. x.status # "none" /\ x.owner = s.campaign.owner
        BY <1>1, <1>2, <3>1, <3>3 DEF Lasting
      <3> QED
        BY <3>1, <3>4, <3>5
    <2>5. d \notin DOMAIN w.contract
      <3> SUFFICES ASSUME d \in DOMAIN w.contract
                   PROVE  FALSE
        OBVIOUS
      <3>1. d = c /\ w.contract # <<>>
        BY <2>2, AtMost
      <3>2. w.campaign # <<>> /\ s.campaign.status = "none"
        BY <1>1, <3>1 DEF Lasting
      <3>3. PICK x : w.campaign = At(c, x)
        BY <1>1, <3>2 DEF Lasting
      <3>4. DOMAIN w.campaign = {c}
        BY <3>3, AtMost
      <3>5. CampaignRow(c) \subseteq h
        BY <2>2, <3>4
      <3>6. db.campaign[c] = s.campaign
        BY <2>3, <3>5
      <3> QED
        BY <1>2, <3>1, <3>2, <3>6
    <2>6. p.contract[d] = db.contract[d]
      BY <2>1, <2>5
    <2>7. p.campaign[d].status # "none" /\ p.campaign[d].owner = db.campaign[d].owner
      <3>1. CASE d \in DOMAIN w.campaign
        <4>1. p.campaign[d] = w.campaign[d]
          BY <2>1, <3>1
        <4> QED
          BY <2>4, <3>1, <4>1
      <3>2. CASE d \notin DOMAIN w.campaign
        <4>1. p.campaign[d] = db.campaign[d]
          BY <2>1, <3>2
        <4> QED
          BY <1>2, <4>1
      <3> QED
        BY <3>1, <3>2
    <2> QED
      BY <2>6, <2>7
  <1> QED
    BY <1>2 DEF Kept

\* The work of a tester with what is written about it is sound.
WorkSound(c, t, w, db) ==
    SoundWork(Cell(w.rows, t, db.assignment[c][t]), Cell(w.subs, t, db.submissions[c][t]),
              Cell(w.dispute, t, db.dispute[c][t]))

\* Then the tables are.
LEMMA SoundAfter ==
    ASSUME NEW c \in Campaigns, NEW h, NEW s, NEW w,
           NEW db, Sound(db), Shaped(db), Formed(db), \A t \in Users : WorkSound(c, t, w, db),
           Due(c, h, s, w, db), NEW p, p = Patch(c, w, db)
    PROVE  Sound(p) /\ Shaped(p)
  <1>1. /\ Guarded(c, h, s, w) /\ Fresh(c, h, s, db) /\ Keyed(c, w) /\ Lasting(c, s, w)
        /\ s.campaign.status # "none" => db.campaign[c].status # "none"
    BY DEF Due
  <1>2. Applied(c, s, w, db, p)
    BY <1>1, PatchApplied
  <1>3. /\ \A d \in Campaigns, t \in Users :
             /\ p.assignment[d][t] =
                  IF d = c /\ t \in DOMAIN w.rows THEN w.rows[t] ELSE db.assignment[d][t]
             /\ p.submissions[d][t] =
                  IF d = c /\ t \in DOMAIN w.subs THEN w.subs[t] ELSE db.submissions[d][t]
             /\ p.dispute[d][t] =
                  IF d = c /\ t \in DOMAIN w.dispute THEN w.dispute[t] ELSE db.dispute[d][t]
        /\ Shaped(p)
    BY <1>1, <1>2, AppliedCells
  <1>4. ASSUME NEW d \in Campaigns, NEW x, x = View(d, p)
        PROVE  SoundView(x)
    <2> DEFINE y == View(d, db)
    <2>1. SoundView(y)
      BY DEF Sound
    <2>2. /\ x.campaign = p.campaign[d] /\ x.rows = p.assignment[d] /\ x.subs = p.submissions[d]
          /\ x.dispute = p.dispute[d] /\ x.balance = p.balance
          /\ y.campaign = db.campaign[d] /\ y.rows = db.assignment[d]
          /\ y.subs = db.submissions[d] /\ y.dispute = db.dispute[d] /\ y.balance = db.balance
      BY <1>4, ViewColumns
    <2> HIDE DEF y
    <2>3. Kept(db, p)
      BY <1>1, PatchKept
    <2>4. SoundCampaign(x.campaign, x.rows)
      <3>1. /\ db.campaign[d] \in Campaign
            /\ db.campaign[d].status # "none" => db.campaign[d].reward # 0
            /\ \A t \in Users : db.assignment[d][t].status # "none" => db.campaign[d].status # "none"
        BY <2>1, <2>2 DEF SoundView, SoundCampaign
      <3>2. p.campaign[d] \in Campaign /\ (p.campaign[d].status # "none" => p.campaign[d].reward # 0)
        <4>1. p.campaign[d] = IF d \in DOMAIN w.campaign THEN w.campaign[d] ELSE db.campaign[d]
          BY <1>1, PatchCells
        <4>2. CASE d \in DOMAIN w.campaign
          <5>1. d = c /\ w.campaign # <<>>
            BY <1>1, <4>2, AtMost DEF Guarded
          <5>2. PICK z : w.campaign = At(c, z)
            BY <1>1, <5>1 DEF Lasting
          <5>3. w.campaign[c] = z
            BY <5>2, AtMost
          <5>4. z \in Campaign /\ z.reward # 0
            BY <1>1, <5>2 DEF Lasting
          <5> QED
            BY <4>1, <4>2, <5>1, <5>3, <5>4
        <4>3. CASE d \notin DOMAIN w.campaign
          BY <3>1, <4>1, <4>3
        <4> QED
          BY <4>2, <4>3
      <3>3. ASSUME NEW t \in Users, p.assignment[d][t].status # "none"
            PROVE  p.campaign[d].status # "none"
        <4>1. CASE d = c /\ t \in DOMAIN w.rows
          <5>1. w.rows # <<>>
            BY <4>1, AtMost
          <5>2. db.campaign[d].status # "none"
            BY <1>1, <4>1, <5>1 DEF Lasting
          <5> QED
            BY <2>3, <5>2 DEF Kept
        <4>2. CASE ~(d = c /\ t \in DOMAIN w.rows)
          <5>1. p.assignment[d][t] = db.assignment[d][t]
            BY <1>3, <4>2
          <5>2. db.campaign[d].status # "none"
            BY <3>1, <3>3, <5>1
          <5> QED
            BY <2>3, <5>2 DEF Kept
        <4> QED
          BY <4>1, <4>2
      <3> QED
        BY <2>2, <3>2, <3>3 DEF SoundCampaign
    <2>5. ASSUME NEW t \in Users
          PROVE  SoundWork(x.rows[t], x.subs[t], x.dispute[t])
      <3>1. CASE d = c
        <4> DEFINE row == db.assignment[c][t]
                   subs == db.submissions[c][t]
                   case == db.dispute[c][t]
        <4>1. SoundWork(Cell(w.rows, t, row), Cell(w.subs, t, subs), Cell(w.dispute, t, case))
          BY DEF WorkSound
        <4>2. /\ x.rows[t] = Cell(w.rows, t, row) /\ x.subs[t] = Cell(w.subs, t, subs)
              /\ x.dispute[t] = Cell(w.dispute, t, case)
          BY <1>3, <2>2, <3>1 DEF Cell
        <4> QED
          BY <4>1, <4>2
      <3>2. CASE d # c
        <4>1. /\ x.rows[t] = y.rows[t] /\ x.subs[t] = y.subs[t] /\ x.dispute[t] = y.dispute[t]
          BY <1>3, <2>2, <3>2
        <4> QED
          BY <2>1, <4>1 DEF SoundView
      <3> QED
        BY <3>1, <3>2
    <2>6. ASSUME NEW u \in Users
          PROVE  x.balance[u] \in Nat
      <3>1. db.balance[u] \in Nat
        BY <2>1, <2>2 DEF SoundView
      <3>2. /\ (\A e \in w.entries : e.user # u) => p.balance[u] = db.balance[u]
            /\ \A e \in w.entries : e.user \in Users =>
                 p.balance[e.user] = db.balance[e.user] + e.delta
        BY <1>1, PatchCells
      <3>3. ASSUME NEW e \in w.entries, e.user = u
            PROVE  p.balance[u] \in Nat
        <4>1. db.balance[u] = s.balance[u]
          BY <1>1, <3>3 DEF Guarded, Fresh
        <4>2. s.balance[u] + e.delta \in Nat
          BY <1>1, <3>3 DEF Lasting
        <4> QED
          BY <3>2, <3>3, <4>1, <4>2
      <3> QED
        BY <2>2, <3>1, <3>2, <3>3
    <2> QED
      BY <2>4, <2>5, <2>6 DEF SoundView
  <1> QED
    BY <1>3, <1>4 DEF Sound

\* A commit leaves the tables sound.
LEMMA PatchSound ==
    ASSUME NEW r \in Requests, NEW h, NEW s, NEW terms, NEW clock, Decides(r, h, s, terms, clock),
           NEW db, Sound(db), Shaped(db), Formed(db), NEW w, w = Writes(r, s),
           Due(r.c, h, s, w, db), NEW p, p = Patch(r.c, w, db)
    PROVE  Sound(p) /\ Shaped(p)
  <1>1. Fresh(r.c, h, s, db) /\ r.c \in Campaigns
    BY RequestFields DEF Due
  <1>2. ASSUME NEW t \in Users
        PROVE  WorkSound(r.c, t, w, db)
    BY <1>1, WorkWritten DEF WorkSound
  <1> QED
    BY <1>1, <1>2, SoundAfter

-----------------------------------------------------------------------------
(* The tables with what is ahead of them *)

\* What is ahead of the tables db is due, from requests that hold none of the rows of g.
Backed(ahead, g, db) ==
    /\ Pledges(ahead)
    /\ \A d \in Campaigns : \E h, s : Due(d, h, s, ahead[d], db) /\ h \cap g = {}

\* A cell of a table with what is laid over it.
LEMMA LaidCell ==
    ASSUME NEW table, ByWorker(table), NEW family, Families(family), NEW c \in Campaigns
    PROVE  Laid(family, table)[c] = Over(family[c], table[c])
  BY LaidCells

\* Campaign d in these tables is as the writes ahead of it leave it.
LEMMA MergedCampaign ==
    ASSUME NEW db, Formed(db), NEW ahead, Pledges(ahead), NEW m, m = Merged(db, ahead),
           NEW d \in Campaigns, NEW p, p = Patch(d, ahead[d], db)
    PROVE  /\ m.campaign[d] = p.campaign[d] /\ m.contract[d] = p.contract[d]
           /\ m.assignment[d] = p.assignment[d] /\ m.submissions[d] = p.submissions[d]
           /\ m.sessions[d] = p.sessions[d] /\ m.dispute[d] = p.dispute[d]
  <1> DEFINE w == ahead[d]
  <1>1. /\ p.campaign = Over(w.campaign, db.campaign)
        /\ p.contract = Over(w.contract, db.contract)
        /\ p.assignment = Overwritten(d, db.assignment, w.rows)
        /\ p.submissions = Overwritten(d, db.submissions, w.subs)
        /\ p.sessions = Overwritten(d, db.sessions, w.days)
        /\ p.dispute = Overwritten(d, db.dispute, w.dispute)
    BY PatchTables
  <1>2. /\ m.campaign = OwnLaid(CampaignsAhead(ahead), db.campaign)
        /\ m.contract = OwnLaid(ContractsAhead(ahead), db.contract)
        /\ m.assignment = Laid(RowsAhead(ahead), db.assignment)
        /\ m.submissions = Laid(SubsAhead(ahead), db.submissions)
        /\ m.sessions = Laid(DaysAhead(ahead), db.sessions)
        /\ m.dispute = Laid(DisputesAhead(ahead), db.dispute)
    BY MergedTables
  <1>3. /\ OwnFamilies(CampaignsAhead(ahead)) /\ OwnFamilies(ContractsAhead(ahead))
        /\ Families(RowsAhead(ahead)) /\ Families(SubsAhead(ahead))
        /\ Families(DaysAhead(ahead)) /\ Families(DisputesAhead(ahead))
    BY PledgeFamilies
  <1>4. /\ CampaignsAhead(ahead)[d] = w.campaign /\ ContractsAhead(ahead)[d] = w.contract
        /\ RowsAhead(ahead)[d] = w.rows /\ SubsAhead(ahead)[d] = w.subs
        /\ DaysAhead(ahead)[d] = w.days /\ DisputesAhead(ahead)[d] = w.dispute
    BY DEF CampaignsAhead, ContractsAhead, RowsAhead, SubsAhead, DaysAhead, DisputesAhead
  <1>5. Keyed(d, w)
    BY DEF Pledges
  <1> HIDE DEF w
  <1>6. /\ DOMAIN db.campaign = Campaigns /\ DOMAIN db.contract = Campaigns
        /\ ByWorker(db.assignment) /\ ByWorker(db.submissions) /\ ByWorker(db.sessions)
        /\ ByWorker(db.dispute)
    BY DEF Formed
  <1>7. m.campaign[d] = p.campaign[d]
    <2>1. p.campaign[d] = IF d \in DOMAIN w.campaign THEN w.campaign[d] ELSE db.campaign[d]
      BY <1>1, <1>5, <1>6, OwnOver DEF Keyed
    <2>2. m.campaign[d] = IF d \in DOMAIN w.campaign THEN w.campaign[d] ELSE db.campaign[d]
      BY <1>2, <1>3, <1>4, <1>6, OwnCells
    <2> QED
      BY <2>1, <2>2
  <1>8. m.contract[d] = p.contract[d]
    <2>1. p.contract[d] = IF d \in DOMAIN w.contract THEN w.contract[d] ELSE db.contract[d]
      BY <1>1, <1>5, <1>6, OwnOver DEF Keyed
    <2>2. m.contract[d] = IF d \in DOMAIN w.contract THEN w.contract[d] ELSE db.contract[d]
      BY <1>2, <1>3, <1>4, <1>6, OwnCells
    <2> QED
      BY <2>1, <2>2
  <1>9. m.assignment[d] = p.assignment[d]
    <2>1. p.assignment[d] = Over(w.rows, db.assignment[d])
      BY <1>1, <1>6, OverwrittenCells
    <2>2. Laid(RowsAhead(ahead), db.assignment)[d] = Over(RowsAhead(ahead)[d], db.assignment[d])
      BY <1>3, <1>6, LaidCell
    <2> QED
      BY <1>2, <1>4, <2>1, <2>2
  <1>10. m.submissions[d] = p.submissions[d]
    <2>1. p.submissions[d] = Over(w.subs, db.submissions[d])
      BY <1>1, <1>6, OverwrittenCells
    <2>2. Laid(SubsAhead(ahead), db.submissions)[d] = Over(SubsAhead(ahead)[d], db.submissions[d])
      BY <1>3, <1>6, LaidCell
    <2> QED
      BY <1>2, <1>4, <2>1, <2>2
  <1>11. m.sessions[d] = p.sessions[d]
    <2>1. p.sessions[d] = Over(w.days, db.sessions[d])
      BY <1>1, <1>6, OverwrittenCells
    <2>2. Laid(DaysAhead(ahead), db.sessions)[d] = Over(DaysAhead(ahead)[d], db.sessions[d])
      BY <1>3, <1>6, LaidCell
    <2> QED
      BY <1>2, <1>4, <2>1, <2>2
  <1>12. m.dispute[d] = p.dispute[d]
    <2>1. p.dispute[d] = Over(w.dispute, db.dispute[d])
      BY <1>1, <1>6, OverwrittenCells
    <2>2. Laid(DisputesAhead(ahead), db.dispute)[d] = Over(DisputesAhead(ahead)[d], db.dispute[d])
      BY <1>3, <1>6, LaidCell
    <2> QED
      BY <1>2, <1>4, <2>1, <2>2
  <1> QED
    BY <1>7, <1>8, <1>9, <1>10, <1>11, <1>12

\* Their accounts and their ledger differ where an entry is ahead, their inbox where a message is.
LEMMA MergedEntries ==
    ASSUME NEW db, Formed(db), NEW ahead, Pledges(ahead), NEW m, m = Merged(db, ahead)
    PROVE  /\ \A u \in Users :
                (\A d \in Campaigns : \A e \in ahead[d].entries : e.user # u)
                  => m.balance[u] = db.balance[u]
           /\ \A key : PostedIn(m.ledger, key) =>
                PostedIn(db.ledger, key) \/ \E d \in Campaigns : PostedIn(ahead[d].entries, key)
           /\ \A e \in db.ledger : e \in m.ledger
           /\ \A n \in db.notifications : n \in m.notifications
           /\ \A n \in m.notifications :
                n \in db.notifications
                  \/ \E d \in Campaigns : n.assignment[1] = d /\ n \in ahead[d].notes
  <1>1. /\ m.balance = Paid(EntriesAhead(ahead), db.balance)
        /\ m.ledger = db.ledger \cup EntriesAhead(ahead)
        /\ m.notifications = db.notifications \cup NotesAhead(ahead)
    BY MergedTables
  <1>2. /\ \A e : e \in EntriesAhead(ahead) <=> \E d \in Campaigns : e \in ahead[d].entries
        /\ \A n : n \in NotesAhead(ahead) <=> \E d \in Campaigns : n \in ahead[d].notes
    BY DEF EntriesAhead, NotesAhead
  <1>3. OncePerUser(EntriesAhead(ahead))
    BY PledgeFamilies
  <1>4. \A u \in Users : (\A e \in EntriesAhead(ahead) : e.user # u) => m.balance[u] = db.balance[u]
    BY <1>1, <1>3, PaidCells
  <1>5. \A d \in Campaigns : \A n \in ahead[d].notes : n.assignment[1] = d
    BY DEF Pledges, Keyed
  <1>6. \A key : PostedIn(m.ledger, key) =>
          PostedIn(db.ledger, key) \/ \E d \in Campaigns : PostedIn(ahead[d].entries, key)
    BY <1>1, <1>2 DEF PostedIn
  <1>7. /\ \A e \in db.ledger : e \in m.ledger
        /\ \A n \in db.notifications : n \in m.notifications
    BY <1>1
  <1>8. ASSUME NEW n \in m.notifications, n \notin db.notifications
        PROVE  \E d \in Campaigns : n.assignment[1] = d /\ n \in ahead[d].notes
    <2>1. n \in NotesAhead(ahead)
      BY <1>1, <1>8
    <2>2. PICK d \in Campaigns : n \in ahead[d].notes
      BY <1>2, <2>1
    <2> QED
      BY <1>5, <2>2
  <1>9. \A n \in m.notifications :
          n \in db.notifications \/ \E d \in Campaigns : n.assignment[1] = d /\ n \in ahead[d].notes
    BY <1>8
  <1>10. \A u \in Users : (\A d \in Campaigns : \A e \in ahead[d].entries : e.user # u)
           => m.balance[u] = db.balance[u]
    BY <1>2, <1>4
  <1> QED
    BY <1>6, <1>7, <1>9, <1>10

\* The keys of the ledger name their campaign.
LEMMA LedgerKeys ==
    /\ \A c, d : PostingKey(c) = PostingKey(d) => c = d
    /\ \A c, d, t : PostingKey(c) # RewardKey(d, t)
    /\ \A c, d, t, u : RewardKey(c, t) = RewardKey(d, u) => c = d /\ t = u
  BY DEF PostingKey, RewardKey

\* Where a request holds the rows of g, nobody is ahead of it.
LEMMA BackedUntouched ==
    ASSUME NEW db, Formed(db), Shaped(db), NEW ahead, NEW g, Backed(ahead, g, db),
           NEW m, m = Merged(db, ahead)
    PROVE  Untouched(g, db, m)
  <1>0. Pledges(ahead)
    BY DEF Backed
  <1>1. ASSUME NEW d \in Campaigns
        PROVE  /\ CampaignRow(d) \subseteq g => m.campaign[d] = db.campaign[d]
               /\ CampaignRow(d) \subseteq g => \A t \in Users :
                    /\ db.assignment[d][t].status = "none" => m.assignment[d][t] = db.assignment[d][t]
                    /\ m.assignment[d][t].status = "applied" => db.assignment[d][t].status = "applied"
               /\ \A t \in Users : AssignmentRow(d, t) \subseteq g =>
                    /\ m.submissions[d][t] = db.submissions[d][t]
                    /\ m.sessions[d][t] = db.sessions[d][t]
                    /\ db.assignment[d][t].status # "none" => m.assignment[d][t] = db.assignment[d][t]
                    /\ db.dispute[d][t].status = "none" => m.dispute[d][t] = db.dispute[d][t]
               /\ \A t \in Users : DisputeRow(d, t) \subseteq g =>
                    (db.dispute[d][t].status # "none" => m.dispute[d][t] = db.dispute[d][t])
               /\ \A t \in Users :
                    /\ db.assignment[d][t].status # "none" => m.assignment[d][t].status # "none"
                    /\ db.dispute[d][t].status # "none" => m.dispute[d][t].status # "none"
    <2> DEFINE w == ahead[d]
               p == Patch(d, w, db)
    <2>1. PICK h, s : Due(d, h, s, w, db) /\ h \cap g = {}
      BY DEF Backed
    <2>2. Guarded(d, h, s, w) /\ Fresh(d, h, s, db) /\ Keyed(d, w)
      BY <2>1 DEF Due
    <2>3. /\ m.campaign[d] = p.campaign[d]
          /\ m.assignment[d] = p.assignment[d] /\ m.submissions[d] = p.submissions[d]
          /\ m.sessions[d] = p.sessions[d] /\ m.dispute[d] = p.dispute[d]
      BY <1>0, MergedCampaign
    <2>4. p = Patch(d, w, db)
      OBVIOUS
    <2> HIDE DEF w, p
    <2>5. Applied(d, s, w, db, p)
      BY <2>2, <2>4, PatchApplied
    <2>6. Untouched(g, db, p)
      BY <2>1, <2>2, <2>5, CommitUntouched
    <2> QED
      BY <2>3, <2>6 DEF Untouched
  <1>2. ASSUME NEW d \in Campaigns, NEW e \in ahead[d].entries
        PROVE  /\ e.user \in Users /\ ~(AccountRow(e.user) \subseteq g)
               /\ \A c \in Campaigns : e.key = PostingKey(c) => ~(CampaignRow(c) \subseteq g)
               /\ \A c \in Campaigns, t \in Users : e.key = RewardKey(c, t) =>
                    ~(AssignmentRow(c, t) \subseteq g)
    <2>1. PICK h, s : Due(d, h, s, ahead[d], db) /\ h \cap g = {}
      BY DEF Backed
    <2>2. /\ e.user \in Users /\ AccountRow(e.user) \subseteq h
          /\ \/ CampaignRow(d) \subseteq h /\ e.key = PostingKey(d)
             \/ \E t \in Users : AssignmentRow(d, t) \subseteq h /\ e.key = RewardKey(d, t)
      BY <1>2, <2>1 DEF Due, Guarded
    <2>3. /\ \A c : ~(CampaignRow(c) \subseteq h /\ CampaignRow(c) \subseteq g)
          /\ \A c, t : ~(AssignmentRow(c, t) \subseteq h /\ AssignmentRow(c, t) \subseteq g)
          /\ \A u : ~(AccountRow(u) \subseteq h /\ AccountRow(u) \subseteq g)
      BY <2>1, RowsApart
    <2>4. \A c \in Campaigns : e.key = PostingKey(c) => ~(CampaignRow(c) \subseteq g)
      BY <2>2, <2>3, LedgerKeys
    <2>5. \A c \in Campaigns, t \in Users : e.key = RewardKey(c, t) =>
            ~(AssignmentRow(c, t) \subseteq g)
      BY <2>2, <2>3, LedgerKeys
    <2> QED
      BY <2>2, <2>3, <2>4, <2>5
  <1>3. /\ \A u \in Users :
             (\A d \in Campaigns : \A e \in ahead[d].entries : e.user # u)
               => m.balance[u] = db.balance[u]
        /\ \A key : PostedIn(m.ledger, key) =>
             PostedIn(db.ledger, key) \/ \E d \in Campaigns : PostedIn(ahead[d].entries, key)
    BY <1>0, MergedEntries
  <1>4. \A u \in Users : AccountRow(u) \subseteq g => m.balance[u] = db.balance[u]
    BY <1>2, <1>3
  <1>5. \A c \in Campaigns : CampaignRow(c) \subseteq g =>
          (PostedIn(m.ledger, PostingKey(c)) => PostedIn(db.ledger, PostingKey(c)))
    BY <1>2, <1>3 DEF PostedIn
  <1>6. \A c \in Campaigns, t \in Users : AssignmentRow(c, t) \subseteq g =>
          (PostedIn(m.ledger, RewardKey(c, t)) => PostedIn(db.ledger, RewardKey(c, t)))
    BY <1>2, <1>3 DEF PostedIn
  <1> QED
    BY <1>1, <1>4, <1>5, <1>6 DEF Untouched

\* Nor are campaigns that are there lost ahead of it.
LEMMA BackedKept ==
    ASSUME NEW db, Formed(db), NEW ahead, NEW g, Backed(ahead, g, db), NEW m, m = Merged(db, ahead)
    PROVE  Kept(db, m)
  <1>1. ASSUME NEW d \in Campaigns, db.campaign[d].status # "none"
        PROVE  /\ m.campaign[d].status # "none" /\ m.campaign[d].owner = db.campaign[d].owner
               /\ m.contract[d] = db.contract[d]
    <2> DEFINE w == ahead[d]
               p == Patch(d, w, db)
    <2>1. PICK h, s : Due(d, h, s, w, db)
      BY DEF Backed
    <2>2. m.campaign[d] = p.campaign[d] /\ m.contract[d] = p.contract[d]
      BY MergedCampaign DEF Backed
    <2>3. p = Patch(d, w, db)
      OBVIOUS
    <2> HIDE DEF w, p
    <2>4. Kept(db, p)
      BY <2>1, <2>3, PatchKept
    <2> QED
      BY <1>1, <2>2, <2>4 DEF Kept
  <1> QED
    BY <1>1 DEF Kept

\* What the rows of g allow to write, nobody else has ahead.
LEMMA BackedApart ==
    ASSUME NEW db, NEW ahead, NEW g, Backed(ahead, g, db),
           NEW c \in Campaigns, NEW s, NEW w, Guarded(c, g, s, w), Fresh(c, g, s, db)
    PROVE  /\ DOMAIN w.rows \cap DOMAIN ahead[c].rows = {}
           /\ DOMAIN w.subs \cap DOMAIN ahead[c].subs = {}
           /\ DOMAIN w.days \cap DOMAIN ahead[c].days = {}
           /\ DOMAIN w.dispute \cap DOMAIN ahead[c].dispute = {}
           /\ PaysApart(c, w, ahead)
  <1>1. PICK h, x : Due(c, h, x, ahead[c], db) /\ h \cap g = {}
    BY DEF Backed
  <1> DEFINE v == ahead[c]
  <1>2. Guarded(c, h, x, v) /\ Fresh(c, h, x, db)
    BY <1>1 DEF Due
  <1>3. /\ \A d : ~(CampaignRow(d) \subseteq h /\ CampaignRow(d) \subseteq g)
        /\ \A d, t : ~(AssignmentRow(d, t) \subseteq h /\ AssignmentRow(d, t) \subseteq g)
        /\ \A d, t : ~(DisputeRow(d, t) \subseteq h /\ DisputeRow(d, t) \subseteq g)
    BY <1>1, RowsApart
  <1> HIDE DEF v
  <1>4. ASSUME NEW t \in DOMAIN w.rows, t \in DOMAIN v.rows
        PROVE  FALSE
    <2>1. /\ t \in Users
          /\ \/ AssignmentRow(c, t) \subseteq g /\ s.rows[t].status # "none"
             \/ CampaignRow(c) \subseteq g /\ s.rows[t].status = "none"
          /\ \/ AssignmentRow(c, t) \subseteq h /\ x.rows[t].status # "none"
             \/ CampaignRow(c) \subseteq h /\ x.rows[t].status = "none"
      BY <1>2, <1>4 DEF Guarded
    <2>2. /\ AssignmentRow(c, t) \subseteq g /\ s.rows[t].status # "none" =>
               db.assignment[c][t] = s.rows[t]
          /\ CampaignRow(c) \subseteq g /\ s.rows[t].status = "none" =>
               db.assignment[c][t] = s.rows[t]
      BY <2>1 DEF Fresh
    <2>3. /\ AssignmentRow(c, t) \subseteq h /\ x.rows[t].status # "none" =>
               db.assignment[c][t] = x.rows[t]
          /\ CampaignRow(c) \subseteq h /\ x.rows[t].status = "none" =>
               db.assignment[c][t] = x.rows[t]
      BY <1>2, <2>1 DEF Fresh
    <2> QED
      BY <1>3, <2>1, <2>2, <2>3
  <1>5. ASSUME NEW t \in DOMAIN w.dispute, t \in DOMAIN v.dispute
        PROVE  FALSE
    <2>1. /\ t \in Users
          /\ \/ DisputeRow(c, t) \subseteq g /\ s.dispute[t].status # "none"
             \/ AssignmentRow(c, t) \subseteq g /\ s.dispute[t].status = "none"
          /\ \/ DisputeRow(c, t) \subseteq h /\ x.dispute[t].status # "none"
             \/ AssignmentRow(c, t) \subseteq h /\ x.dispute[t].status = "none"
      BY <1>2, <1>5 DEF Guarded
    <2>2. /\ DisputeRow(c, t) \subseteq g /\ s.dispute[t].status # "none" =>
               db.dispute[c][t] = s.dispute[t]
          /\ AssignmentRow(c, t) \subseteq g /\ s.dispute[t].status = "none" =>
               db.dispute[c][t] = s.dispute[t]
      BY <2>1 DEF Fresh
    <2>3. /\ DisputeRow(c, t) \subseteq h /\ x.dispute[t].status # "none" =>
               db.dispute[c][t] = x.dispute[t]
          /\ AssignmentRow(c, t) \subseteq h /\ x.dispute[t].status = "none" =>
               db.dispute[c][t] = x.dispute[t]
      BY <1>2, <2>1 DEF Fresh
    <2> QED
      BY <1>3, <2>1, <2>2, <2>3
  <1>6. DOMAIN w.subs \cap DOMAIN v.subs = {} /\ DOMAIN w.days \cap DOMAIN v.days = {}
    BY <1>2, <1>3 DEF Guarded
  <1>7. PaysApart(c, w, ahead)
    <2> SUFFICES ASSUME NEW d \in Campaigns \ {c}, NEW e \in w.entries, NEW f \in ahead[d].entries
                 PROVE  e.user # f.user
      BY DEF PaysApart
    <2>1. PICK k, y : Due(d, k, y, ahead[d], db) /\ k \cap g = {}
      BY DEF Backed
    <2>2. AccountRow(e.user) \subseteq g /\ AccountRow(f.user) \subseteq k
      BY <2>1 DEF Due, Guarded
    <2>3. \A u : ~(AccountRow(u) \subseteq k /\ AccountRow(u) \subseteq g)
      BY <2>1, RowsApart
    <2> QED
      BY <2>2, <2>3
  <1> QED
    BY <1>4, <1>5, <1>6, <1>7 DEF v

-----------------------------------------------------------------------------
(* What is ahead of the tables, by thread *)

\* The requests that have taken effect and not committed, told from the threads alone.
Ripe(t) == t # Idle /\ t.done = Len(Order(t.request)) /\ t.request.op \in CampaignOps
RipeFor(threads, c) == {th \in Threads : Ripe(threads[th]) /\ threads[th].request.c = c}
Alone(threads) == \A c \in Campaigns : \A a, b \in RipeFor(threads, c) : a = b
WritesOfThread(t) == Writes(t.request, t.read)
Promising(threads) ==
    [c \in Campaigns |-> IF RipeFor(threads, c) = {} THEN NoWrites
                         ELSE WritesOfThread(threads[CHOOSE th \in RipeFor(threads, c) : TRUE])]

\* The operations that lock no campaign have none in their order.
LEMMA CampaignOrder ==
    ASSUME NEW r \in Requests, r.op \notin CampaignOps, NEW i \in 1..Len(Order(r))
    PROVE  Order(r)[i] # "campaign"
  <1> USE DEF CampaignFirst, Order
  <1>1. CASE r.op = "decline"
    BY <1>1
  <1>2. CASE r.op \in {"session", "submit", "escalate"}
    BY <1>2
  <1>3. CASE r.op = "claim"
    BY <1>3
  <1>4. CASE r.op \in {"reject", "dismiss"}
    BY <1>4
  <1> QED
    BY <1>1, <1>2, <1>3, <1>4, OperationOf DEF Operations, CampaignOps

\* They are those that have decided.
LEMMA DecidedRipe ==
    ASSUME ReadInv, NEW th \in Threads
    PROVE  th \in Decided <=> Ripe(tx[th])
  <1> DEFINE t == tx[th]
             r == t.request
  <1>1. CASE th \notin Busy
    BY <1>1 DEF Decided, Busy, Ripe
  <1>2. CASE th \in Busy
    <2>1. Serving(t) /\ Informed(t, Tables) /\ t # Idle
      BY <1>2 DEF ReadInv, LockInv, Busy
    <2>2. r \in Requests /\ t.done \in 1..Len(Order(r))
      BY <2>1 DEF Serving
    <2>3. Len(Plan(r)) = Len(Order(r)) /\ Len(Order(r)) \in Nat
      BY <2>2, PlanOrder
    <2>4. Selecting(th) <=> t.done # Len(Order(r))
      BY <1>2, <2>2, <2>3 DEF Selecting
    <2>5. ASSUME t.done = Len(Order(r)), r.op \in CampaignOps
          PROVE  CampaignRow(r.c) \subseteq t.held
      <3>1. Done(r, t.held, t.read)
        BY <2>1, <2>5 DEF Informed, Done
      <3> QED
        BY <2>2, <2>5, <3>1, DoneHolds DEF CampaignOps
    <2>6. ASSUME CampaignRow(r.c) \subseteq t.held
          PROVE  r.op \in CampaignOps
      <3>1. <<"campaign", r.c>> \in t.held
        BY <2>6 DEF CampaignRow
      <3>2. PICK i \in 1..t.done : Order(r)[i] # "none" /\ <<"campaign", r.c>>[1] = Order(r)[i]
        BY <2>1, <3>1 DEF Serving
      <3>3. Order(r)[i] = "campaign" /\ i \in 1..Len(Order(r))
        BY <2>2, <2>3, <3>2
      <3> QED
        BY <2>2, <3>3, CampaignOrder
    <2> QED
      BY <1>2, <2>1, <2>4, <2>5, <2>6 DEF Decided, Ripe
  <1> QED
    BY <1>1, <1>2

\* So the threads tell what is ahead, one request at most for each campaign.
AheadPromised == Ahead = Promising(tx) /\ Alone(tx)

\* What is ahead is what the ripe threads write, and each campaign has at most one of them.
LEMMA PromisingHere == ReadInv => AheadPromised
  <1> SUFFICES ASSUME ReadInv
               PROVE  AheadPromised
    OBVIOUS
  <1>1. ASSUME NEW c \in Campaigns
        PROVE  Deciders(c) = RipeFor(tx, c)
    <2>1. Deciders(c) \subseteq Threads
      BY DEF Deciders, Decided, Busy
    <2> QED
      BY <2>1, DecidedRipe DEF Deciders, RipeFor
  <1>2. Ahead = Promising(tx)
    <2>1. ASSUME NEW c \in Campaigns
          PROVE  (IF Deciders(c) = {} THEN NoWrites ELSE Writing(CHOOSE th \in Deciders(c) : TRUE))
                   = IF RipeFor(tx, c) = {} THEN NoWrites
                     ELSE WritesOfThread(tx[CHOOSE th \in RipeFor(tx, c) : TRUE])
      <3>1. Deciders(c) = RipeFor(tx, c)
        BY <1>1
      <3>2. (CHOOSE th \in Deciders(c) : TRUE) = (CHOOSE th \in RipeFor(tx, c) : TRUE)
        BY <3>1
      <3>3. \A th : Writing(th) = WritesOfThread(tx[th])
        BY DEF Writing, WritesOfThread
      <3> QED
        BY <3>1, <3>2, <3>3
    <2> QED
      BY <2>1 DEF Ahead, Promising
  <1>3. ASSUME NEW c \in Campaigns, NEW a \in RipeFor(tx, c), NEW b \in RipeFor(tx, c), a # b
        PROVE  FALSE
    <2>1. /\ a \in Busy /\ CampaignRow(c) \subseteq tx[a].held
          /\ b \in Busy /\ CampaignRow(c) \subseteq tx[b].held
      BY <1>1, <1>3 DEF Deciders, Decided
    <2>2. tx[a].held \cap tx[b].held = {}
      BY <1>3, <2>1 DEF ReadInv, LockInv, OneHolder, Held, Busy
    <2> QED
      BY <2>1, <2>2, RowsApart
  <1>4. Alone(tx)
    BY <1>3 DEF Alone
  <1> QED
    BY <1>2, <1>4 DEF AheadPromised

\* And after a step.
LEMMA PromisingNext == ReadInv' => AheadPromised'
  BY PromisingHere, PTL

\* Who is ripe after one thread has gone on.
LEMMA RipeAfter ==
    ASSUME NEW threads, threads = [th \in Threads |-> threads[th]],
           NEW th \in Threads, NEW t, NEW next, next = [threads EXCEPT ![th] = t], NEW c \in Campaigns
    PROVE  /\ \A other \in Threads \ {th} :
                other \in RipeFor(next, c) <=> other \in RipeFor(threads, c)
           /\ \A other \in Threads \ {th} : next[other] = threads[other]
           /\ next[th] = t
           /\ th \in RipeFor(next, c) <=> Ripe(t) /\ t.request.c = c
           /\ th \in RipeFor(threads, c) <=> Ripe(threads[th]) /\ threads[th].request.c = c
           /\ RipeFor(next, c) \subseteq Threads /\ RipeFor(threads, c) \subseteq Threads
  <1>1. next[th] = t /\ \A other \in Threads \ {th} : next[other] = threads[other]
    OBVIOUS
  <1> QED
    BY <1>1 DEF RipeFor

\* The writes of the one request that is ripe.
LEMMA PromisedBy ==
    ASSUME NEW threads, Alone(threads), NEW c \in Campaigns
    PROVE  /\ RipeFor(threads, c) = {} => Promising(threads)[c] = NoWrites
           /\ \A th \in RipeFor(threads, c) : Promising(threads)[c] = WritesOfThread(threads[th])
  <1>1. ASSUME NEW th \in RipeFor(threads, c)
        PROVE  Promising(threads)[c] = WritesOfThread(threads[th])
    <2>1. (CHOOSE a \in RipeFor(threads, c) : TRUE) = th
      BY DEF Alone
    <2> QED
      BY <2>1 DEF Promising
  <1> QED
    BY <1>1 DEF Promising

\* A campaign that the thread's request is not about, before and after.
LEMMA PromisedAside ==
    ASSUME NEW threads, threads = [th \in Threads |-> threads[th]], Alone(threads),
           NEW th \in Threads, NEW t, NEW next, next = [threads EXCEPT ![th] = t], Alone(next),
           NEW c \in Campaigns, th \notin RipeFor(next, c), th \notin RipeFor(threads, c)
    PROVE  Promising(next)[c] = Promising(threads)[c]
  <1>1. RipeFor(next, c) = RipeFor(threads, c)
    BY RipeAfter
  <1>2. CASE RipeFor(threads, c) = {}
    BY <1>1, <1>2, PromisedBy
  <1>3. ASSUME NEW a \in RipeFor(threads, c)
        PROVE  Promising(next)[c] = Promising(threads)[c]
    <2>1. Promising(threads)[c] = WritesOfThread(threads[a])
      BY PromisedBy
    <2>2. Promising(next)[c] = WritesOfThread(next[a])
      BY <1>1, <1>3, PromisedBy
    <2>3. next[a] = threads[a]
      BY <1>3, RipeAfter
    <2> QED
      BY <2>1, <2>2, <2>3
  <1> QED
    BY <1>2, <1>3

\* What is ahead, as a function.
LEMMA PromisingCells == \A threads : Promising(threads) = [c \in Campaigns |-> Promising(threads)[c]]
  BY DEF Promising

\* A thread that is not ripe, before and after, changes nothing of what is ahead.
LEMMA PromisingSame ==
    ASSUME NEW threads, threads = [th \in Threads |-> threads[th]], Alone(threads),
           NEW th \in Threads, NEW t, NEW next, next = [threads EXCEPT ![th] = t], Alone(next),
           ~Ripe(threads[th]), ~Ripe(t)
    PROVE  Promising(next) = Promising(threads)
  <1>1. ASSUME NEW c \in Campaigns
        PROVE  Promising(next)[c] = Promising(threads)[c]
    <2>1. th \notin RipeFor(next, c) /\ th \notin RipeFor(threads, c)
      BY RipeAfter
    <2> QED
      BY <2>1, PromisedAside
  <1>2. /\ Promising(next) = [c \in Campaigns |-> Promising(next)[c]]
        /\ Promising(threads) = [c \in Campaigns |-> Promising(threads)[c]]
    BY PromisingCells
  <1> QED
    BY <1>1, <1>2

\* One that becomes ripe puts its writes ahead.
LEMMA PromisingFirst ==
    ASSUME NEW threads, threads = [th \in Threads |-> threads[th]], Alone(threads),
           NEW th \in Threads, NEW t, NEW next, next = [threads EXCEPT ![th] = t], Alone(next),
           ~Ripe(threads[th]), Ripe(t), NEW c \in Campaigns, c = t.request.c
    PROVE  /\ Promising(threads)[c] = NoWrites
           /\ Promising(next) = Promised(Promising(threads), c, WritesOfThread(t))
  <1>1. th \in RipeFor(next, c) /\ th \notin RipeFor(threads, c)
    BY RipeAfter
  <1>2. RipeFor(threads, c) = {}
    <2> SUFFICES ASSUME NEW a \in RipeFor(threads, c)
                 PROVE  FALSE
      OBVIOUS
    <2>1. a # th /\ a \in RipeFor(next, c)
      BY <1>1, RipeAfter
    <2> QED
      BY <1>1, <2>1 DEF Alone
  <1>3. Promising(threads)[c] = NoWrites
    BY <1>2, PromisedBy
  <1>4. Promising(next)[c] = WritesOfThread(t)
    <2>1. Promising(next)[c] = WritesOfThread(next[th])
      BY <1>1, PromisedBy
    <2> QED
      BY <2>1, RipeAfter
  <1>5. ASSUME NEW d \in Campaigns \ {c}
        PROVE  Promising(next)[d] = Promising(threads)[d]
    <2>1. th \notin RipeFor(next, d) /\ th \notin RipeFor(threads, d)
      BY <1>5, RipeAfter
    <2> QED
      BY <2>1, PromisedAside
  <1>6. /\ Promising(next) = [d \in Campaigns |-> Promising(next)[d]]
        /\ Promising(threads) = [d \in Campaigns |-> Promising(threads)[d]]
    BY PromisingCells
  <1> QED
    BY <1>3, <1>4, <1>5, <1>6 DEF Promised

\* One that is ripe no more takes them back.
LEMMA PromisingLast ==
    ASSUME NEW threads, threads = [th \in Threads |-> threads[th]], Alone(threads),
           NEW th \in Threads, NEW t, NEW next, next = [threads EXCEPT ![th] = t], Alone(next),
           Ripe(threads[th]), ~Ripe(t), NEW c \in Campaigns, c = threads[th].request.c
    PROVE  /\ Promising(threads)[c] = WritesOfThread(threads[th])
           /\ Promising(next) = Promised(Promising(threads), c, NoWrites)
  <1>1. th \in RipeFor(threads, c) /\ th \notin RipeFor(next, c)
    BY RipeAfter
  <1>2. RipeFor(next, c) = {}
    <2> SUFFICES ASSUME NEW a \in RipeFor(next, c)
                 PROVE  FALSE
      OBVIOUS
    <2>1. a # th /\ a \in RipeFor(threads, c)
      BY <1>1, RipeAfter
    <2> QED
      BY <1>1, <2>1 DEF Alone
  <1>3. Promising(next)[c] = NoWrites
    BY <1>2, PromisedBy
  <1>4. Promising(threads)[c] = WritesOfThread(threads[th])
    BY <1>1, PromisedBy
  <1>5. ASSUME NEW d \in Campaigns \ {c}
        PROVE  Promising(next)[d] = Promising(threads)[d]
    <2>1. th \notin RipeFor(next, d) /\ th \notin RipeFor(threads, d)
      BY <1>5, RipeAfter
    <2> QED
      BY <2>1, PromisedAside
  <1>6. /\ Promising(next) = [d \in Campaigns |-> Promising(next)[d]]
        /\ Promising(threads) = [d \in Campaigns |-> Promising(threads)[d]]
    BY PromisingCells
  <1> QED
    BY <1>3, <1>4, <1>5, <1>6 DEF Promised

-----------------------------------------------------------------------------
(* A start, as the others see it *)

\* What a start writes from the tables as s shows them.
StartWrites(c, t, s) ==
    [NoWrites EXCEPT
       !.rows  = At(t, [s.rows[t] EXCEPT !.status = "in_progress", !.started_at = s.now]),
       !.days  = At(t, s.days[t] \cup {s.now \div TicksPerDay}),
       !.audit = {Audited(t, "assignment.started", <<c, t>>)}]

Starts(c, t, s, w) ==
    /\ w.campaign = <<>> /\ w.contract = <<>>
    /\ w.rows = At(t, [s.rows[t] EXCEPT !.status = "in_progress", !.started_at = s.now])
    /\ w.subs = <<>> /\ w.days = At(t, s.days[t] \cup {s.now \div TicksPerDay})
    /\ w.dispute = <<>> /\ w.entries = {}
    /\ w.audit = {Audited(t, "assignment.started", <<c, t>>)} /\ w.notes = {}

\* That is what a start writes.
LEMMA StartColumns ==
    ASSUME NEW c, NEW t, NEW s, NEW w, w = StartWrites(c, t, s)
    PROVE  Starts(c, t, s, w)
  BY DEF StartWrites, NoWrites, Starts

\* The columns of what a select reads.
LEMMA SnapshotColumns ==
    \A c : /\ Snapshot(c).campaign = campaign[c] /\ Snapshot(c).rows = assignment[c]
           /\ Snapshot(c).subs = submissions[c] /\ Snapshot(c).days = sessions[c]
           /\ Snapshot(c).dispute = dispute[c] /\ Snapshot(c).balance = balance
           /\ Snapshot(c).ledger = ledger /\ Snapshot(c).now = now
           /\ Snapshot(c).withdrawals = {n \in notifications : n.kind = "tester_withdrew"}
  BY DEF Snapshot

\* The one cell of a column.
LEMMA AtCell ==
    ASSUME NEW k, NEW x, NEW column, column = At(k, x)
    PROVE  DOMAIN column = {k} /\ column[k] = x
  BY DEF At

\* It writes under the row of its assignment.
LEMMA StartDue ==
    ASSUME NEW t \in Users, NEW c \in Campaigns, StartAssignment(t, c), now \in Nat,
           Shaped(Tables), Sound(Tables),
           NEW s, s = Snapshot(c), NEW w, w = StartWrites(c, t, s)
    PROVE  Due(c, AssignmentRow(c, t), s, w, Tables) /\ Minor(w)
  <1> DEFINE h == AssignmentRow(c, t)
             row == [s.rows[t] EXCEPT !.status = "in_progress", !.started_at = s.now]
             days == s.days[t] \cup {s.now \div TicksPerDay}
  <1>1. /\ w.campaign = <<>> /\ w.contract = <<>> /\ w.rows = At(t, row) /\ w.subs = <<>>
        /\ w.days = At(t, days) /\ w.dispute = <<>> /\ w.entries = {} /\ w.notes = {}
    <2>1. Starts(c, t, s, w)
      BY StartColumns
    <2> QED
      BY <2>1, Zenon DEF Starts
  <1>2. /\ s.campaign = campaign[c] /\ s.rows = assignment[c] /\ s.now = now
        /\ Tables.campaign = campaign /\ Tables.assignment = assignment
    BY SnapshotColumns DEF Tables
  <1>3. /\ s.rows[t] \in Assignment /\ s.rows[t].status = "accepted"
    BY <1>2 DEF Shaped, StartAssignment, Row
  <1>4. row \in Assignment /\ row.status = "in_progress"
    BY <1>2, <1>3 DEF Assignment, AssignmentStatus
  <1> HIDE DEF row, days
  <1>5. /\ DOMAIN w.rows = {t} /\ w.rows[t] = row /\ DOMAIN w.days = {t}
        /\ DOMAIN w.campaign = {} /\ DOMAIN w.contract = {} /\ DOMAIN w.subs = {}
        /\ DOMAIN w.dispute = {}
    <2>1. DOMAIN w.rows = {t} /\ w.rows[t] = row
      <3>1. w.rows = At(t, row)
        BY <1>1
      <3> QED
        BY <3>1, AtCell
    <2>2. DOMAIN w.days = {t}
      <3>1. w.days = At(t, days)
        BY <1>1
      <3> QED
        BY <3>1, AtCell
    <2>3. /\ DOMAIN w.campaign = {} /\ DOMAIN w.contract = {} /\ DOMAIN w.subs = {}
          /\ DOMAIN w.dispute = {}
      BY <1>1, AtMost
    <2> QED
      BY <2>1, <2>2, <2>3
  <1>6. Guarded(c, h, s, w)
    BY <1>1, <1>3, <1>4, <1>5 DEF Guarded
  <1>7. Keyed(c, w)
    BY <1>1, <1>5 DEF Keyed
  <1>8. Fresh(c, h, s, Tables)
    BY ReadFresh
  <1>9. s.campaign.status # "none"
    <2>1. SoundView(View(c, Tables))
      BY DEF Sound
    <2>2. SoundCampaign(campaign[c], assignment[c])
      BY <1>2, <2>1, ViewColumns DEF SoundView
    <2> QED
      BY <1>2, <1>3, <2>2 DEF SoundCampaign
  <1>10. Lasting(c, s, w)
    <2>1. \A x : w.campaign # At(c, x)
      BY <1>1, AtMost
    <2> QED
      BY <1>1, <1>9, <2>1 DEF Lasting
  <1> QED
    BY <1>1, <1>2, <1>6, <1>7, <1>8, <1>9, <1>10 DEF Due, Minor

\* It patches the tables.
LEMMA StartPatches ==
    ASSUME NEW t \in Users, NEW c \in Campaigns, StartAssignment(t, c), Formed(Tables),
           NEW s, s = Snapshot(c), NEW w, w = StartWrites(c, t, s)
    PROVE  Tables' = Patch(c, w, Tables)
  <1> DEFINE db == Tables
             p == Patch(c, w, db)
             later == Tables'
             row == [s.rows[t] EXCEPT !.status = "in_progress", !.started_at = s.now]
             days == s.days[t] \cup {s.now \div TicksPerDay}
  <1>1. /\ w.campaign = <<>> /\ w.contract = <<>> /\ w.rows = At(t, row) /\ w.subs = <<>>
        /\ w.days = At(t, days) /\ w.dispute = <<>> /\ w.entries = {} /\ w.notes = {}
        /\ w.audit = {Audited(t, "assignment.started", <<c, t>>)}
    <2>1. Starts(c, t, s, w)
      BY StartColumns
    <2> QED
      BY <2>1, Zenon DEF Starts
  <1>2. /\ s.rows = assignment[c] /\ s.days = sessions[c] /\ s.now = now
    BY SnapshotColumns
  <1>3. /\ assignment' = [assignment EXCEPT ![c][t] = row]
        /\ sessions' = [sessions EXCEPT ![c][t] = days]
        /\ audit' = audit \cup w.audit
        /\ campaign' = campaign /\ contract' = contract /\ submissions' = submissions
        /\ dispute' = dispute /\ balance' = balance /\ ledger' = ledger
        /\ notifications' = notifications
    BY <1>1, <1>2 DEF StartAssignment, Put, Row, Today, AddAuditEvents, campaignVars, creditVars
  <1>4. /\ db.campaign = campaign /\ db.contract = contract /\ db.assignment = assignment
        /\ db.submissions = submissions /\ db.sessions = sessions /\ db.dispute = dispute
        /\ db.balance = balance /\ db.ledger = ledger /\ db.audit = audit
        /\ db.notifications = notifications
    BY DEF Tables
  <1>5. /\ later.campaign = campaign' /\ later.contract = contract'
        /\ later.assignment = assignment' /\ later.submissions = submissions'
        /\ later.sessions = sessions' /\ later.dispute = dispute'
        /\ later.balance = balance' /\ later.ledger = ledger' /\ later.audit = audit'
        /\ later.notifications = notifications'
    BY DEF Tables
  <1>6. later = [campaign |-> campaign', contract |-> contract', assignment |-> assignment',
                 submissions |-> submissions', sessions |-> sessions', dispute |-> dispute',
                 balance |-> balance', ledger |-> ledger', audit |-> audit',
                 notifications |-> notifications']
    BY DEF Tables
  <1> HIDE DEF later
  <1>7. AreTables(later)
    BY <1>5, <1>6 DEF AreTables
  <1>8. Formed(db)
    OBVIOUS
  <1> HIDE DEF db, row, days
  <1>9. p = Patch(c, w, db)
    OBVIOUS
  <1> HIDE DEF p
  <1>10. AreTables(p)
    BY <1>9, PatchRecord
  <1>11. /\ p.campaign = db.campaign /\ p.contract = db.contract /\ p.submissions = db.submissions
         /\ p.dispute = db.dispute /\ p.balance = db.balance /\ p.ledger = db.ledger
         /\ p.audit = db.audit \cup w.audit /\ p.notifications = db.notifications \cup w.notes
    <2>1. /\ w.campaign = <<>> => p.campaign = db.campaign
          /\ w.contract = <<>> => p.contract = db.contract
          /\ w.subs = <<>> => p.submissions = db.submissions
          /\ w.dispute = <<>> => p.dispute = db.dispute
          /\ w.entries = {} => p.balance = db.balance /\ p.ledger = db.ledger
          /\ p.audit = db.audit \cup w.audit /\ p.notifications = db.notifications \cup w.notes
      BY <1>8, <1>9, PatchNone
    <2> QED
      BY <1>1, <2>1
  <1>12. /\ p.assignment = [db.assignment EXCEPT ![c][t] = row]
         /\ p.sessions = [db.sessions EXCEPT ![c][t] = days]
    BY <1>1, <1>8, <1>9, PatchOne
  <1>13. p.notifications = db.notifications
    BY <1>1, <1>11
  <1>14. later = p
    BY <1>3, <1>4, <1>5, <1>7, <1>10, <1>11, <1>12, <1>13, SameTables
  <1> QED
    BY <1>14 DEF later, p, db

\* Accepted work that is begun is still sound.
LEMMA StartSound ==
    ASSUME NEW t \in Users, NEW c \in Campaigns, StartAssignment(t, c), now \in Nat,
           Shaped(Tables), Sound(Tables), Formed(Tables)
    PROVE  /\ Sound(Tables') /\ Formed(Tables') /\ Kept(Tables, Tables')
  <1> DEFINE s == Snapshot(c)
             w == StartWrites(c, t, s)
             db == Tables
             p == Patch(c, w, db)
             row == [s.rows[t] EXCEPT !.status = "in_progress", !.started_at = s.now]
  <1>1. Due(c, AssignmentRow(c, t), s, w, db)
    BY StartDue
  <1>2. Tables' = p
    BY StartPatches
  <1>3. /\ w.rows = At(t, row) /\ w.subs = <<>> /\ w.dispute = <<>>
    <2>1. Starts(c, t, s, w)
      BY StartColumns
    <2> QED
      BY <2>1, Zenon DEF Starts
  <1>4. Keyed(c, w)
    BY <1>1 DEF Due
  <1>5. db.assignment = assignment /\ assignment[c][t].status = "accepted"
    BY DEF Tables, StartAssignment, Row
  <1>6. Sound(db) /\ Shaped(db) /\ Formed(db)
    OBVIOUS
  <1> HIDE DEF s, w, db, row
  <1>7. ASSUME NEW u \in Users
        PROVE  WorkSound(c, u, w, db)
    <2> DEFINE work == db.assignment[c][u]
               subs == db.submissions[c][u]
               case == db.dispute[c][u]
               x == View(c, db)
    <2>1. /\ SoundWork(work, subs, case)
      <3>1. SoundView(x)
        BY <1>6 DEF Sound
      <3> QED
        BY <3>1, ViewColumns DEF SoundView
    <2>2. case.status \in DisputeStatus
      BY <1>6 DEF Shaped, Dispute
    <2>3. /\ Cell(w.subs, u, subs) = subs /\ Cell(w.dispute, u, case) = case
          /\ Cell(w.rows, u, work) = IF u = t THEN row ELSE work
      BY <1>3, CellOf
    <2> HIDE DEF work, subs, case
    <2>4. CASE u = t
      <3>1. work.status \notin {"submitted", "approved", "rejected"}
        BY <1>5, <2>4 DEF work
      <3>2. SoundWork(row, subs, case)
        BY <2>1, <2>2, <3>1, NoCase
      <3> QED
        BY <2>3, <2>4, <3>2 DEF WorkSound, work, subs, case
    <2>5. CASE u # t
      BY <2>1, <2>3, <2>5 DEF WorkSound, work, subs, case
    <2> QED
      BY <2>4, <2>5
  <1> DEFINE h == AssignmentRow(c, t)
  <1> HIDE DEF h
  <1>8. Due(c, h, s, w, db) /\ p = Patch(c, w, db)
    BY <1>1 DEF h
  <1> HIDE DEF p
  <1>9. Sound(p)
    BY <1>6, <1>7, <1>8, SoundAfter
  <1>10. Formed(p)
    BY <1>4, <1>6, <1>8, PatchFormed
  <1>11. Kept(db, p)
    BY <1>6, <1>8, PatchKept
  <1> QED
    BY <1>2, <1>9, <1>10, <1>11 DEF db

-----------------------------------------------------------------------------
(* The tables and the requests under way, sound and ready *)

\* The inductive invariant: with ReadInv, that the tables are sound, and that the requests under
\* way know of them what they have tested.
SoundInv ==
    /\ ReadInv
    /\ Formed(Tables) /\ Sound(Tables)
    /\ \A th \in Busy : Ready(tx[th], Tables, now)
    /\ suspended = {}

\* A request that has done its selects decides, and what it writes is due.
LEMMA DoneDue ==
    ASSUME NEW t, NEW db, NEW clock \in Nat, Serving(t), Informed(t, db), Ready(t, db, clock),
           NEW r, r = t.request, t.done = Len(Order(r)), NEW h, h = t.held, NEW s, s = t.read,
           NEW w, w = Writes(r, s)
    PROVE  /\ Decides(r, h, s, db.contract[r.c].terms, clock)
           /\ Due(r.c, h, s, w, db)
           /\ s.campaign.status # "none" => db.campaign[r.c].owner = s.campaign.owner
           /\ r.op \in ModeratorOps => r.by \in Moderators
  <1> DEFINE c == r.c
             terms == db.contract[c].terms
             n == Len(Order(r))
  <1>1. r \in Requests
    BY DEF Serving
  <1>2. Done(r, h, s) /\ Fresh(c, h, s, db)
    BY DEF Informed, Done
  <1>3. /\ Knows(r, n, s, terms, clock) /\ SoundView(s) /\ s.now = clock
        /\ s.campaign.status # "none" => /\ db.campaign[c].status # "none"
                                         /\ db.campaign[c].owner = s.campaign.owner
        /\ r.op \in ModeratorOps => r.by \in Moderators
    BY DEF Ready
  <1> HIDE DEF terms
  <1>4. Knows(r, 6, s, terms, clock)
    BY <1>1, <1>3, KnowsAll
  <1>5. Decides(r, h, s, terms, clock)
    BY <1>2, <1>3, <1>4 DEF Decides
  <1>6. Keyed(c, w) /\ Lasting(c, s, w)
    BY <1>1, <1>5, WritesLasting
  <1>7. Guarded(c, h, s, w)
    BY <1>1, <1>2, WritesGuarded
  <1> QED
    BY <1>2, <1>3, <1>5, <1>6, <1>7 DEF Due, terms

\* One more select leaves a request serving, informed and ready.
LEMMA MoreSelected ==
    ASSUME SoundInv, NEW r \in Requests, NEW d \in 0..(Len(Order(r)) - 1), NEW h, NEW x, NEW u,
           u = [request |-> r, done |-> d, held |-> h, read |-> x],
           \A row \in h : \E i \in 1..d : Order(r)[i] # "none" /\ row[1] = Order(r)[i],
           d = 0 => h = {},
           d # 0 => Informed(u, Tables) /\ Ready(u, Tables, now), Plan(r)[d + 1].ok,
           r.op \in ModeratorOps => r.by \in Moderators,
           NEW t, t = Selected(r, u, Plan(r)[d + 1])
    PROVE  /\ Serving(t) /\ Informed(t, Tables) /\ Ready(t, Tables, now)
           /\ t.request = r /\ t.done = d + 1 /\ t.held = h \cup Plan(r)[d + 1].locks
           /\ d + 1 = Len(Order(r)) => t.read = Snapshot(r.c)
  <1>1. Shaped(Tables) /\ Sound(Tables)
    BY DEF SoundInv, ReadInv
  <1>2. Serving(t)
    BY SelectServes
  <1>3. Informed(t, Tables)
    BY <1>1, SelectInforms
  <1>4. Ready(t, Tables, now)
    BY <1>1, SelectReady
  <1> QED
    BY <1>2, <1>3, <1>4, SelectedFields

\* A thread does the d-th select of its request r after the first, and is then t.
Advances(th, r, d, t) ==
    /\ tx' = [tx EXCEPT ![th] = t] /\ UNCHANGED vars
    /\ r \in Requests /\ d \in 0..(Len(Order(r)) - 1) /\ Plan(r)[d + 1].ok
    /\ t.request = r /\ t.done = d + 1
    /\ d + 1 = Len(Order(r)) => t.read = Snapshot(r.c)
    /\ Serving(t) /\ Informed(t, Tables) /\ Ready(t, Tables, now)
    /\ \A other \in Threads \ {th} : t.held \cap Held(other) = {}
    /\ tx[th] # Idle => tx[th].done # Len(Order(tx[th].request))

\* So it does when it begins.
LEMMA BeginAdvances ==
    ASSUME SoundInv, NEW th \in Threads, NEW r \in Requests, Begin(th, r)
    PROVE  \E t : Advances(th, r, 0, t)
  <1> DEFINE d == 0
             h == {}
             x == Idle
             u == [request |-> r, done |-> d, held |-> h, read |-> x]
             t == Selected(r, u, Plan(r)[d + 1])
  <1>1. d + 1 = 1 /\ d \in 0..(Len(Order(r)) - 1)
    BY PlanOrder
  <1>2. /\ tx' = [tx EXCEPT ![th] = t] /\ UNCHANGED vars /\ Plan(r)[d + 1].ok /\ tx[th] = Idle
    BY <1>1 DEF Begin
  <1>3. \A other \in Threads : Plan(r)[d + 1].locks \cap Held(other) = {}
    BY <1>1 DEF Begin, Held
  <1>4. r.op \in ModeratorOps => r.by \in Moderators
    BY DEF Begin, Moderating
  <1>5. /\ Serving(t) /\ Informed(t, Tables) /\ Ready(t, Tables, now)
        /\ t.request = r /\ t.done = d + 1 /\ t.held = h \cup Plan(r)[d + 1].locks
        /\ d + 1 = Len(Order(r)) => t.read = Snapshot(r.c)
    <2>1. /\ \A row \in h : \E i \in 1..d : Order(r)[i] # "none" /\ row[1] = Order(r)[i]
          /\ d = 0 => h = {}
      OBVIOUS
    <2>3. d # 0 => Informed(u, Tables) /\ Ready(u, Tables, now)
      OBVIOUS
    <2>2. u = [request |-> r, done |-> d, held |-> h, read |-> x]
            /\ t = Selected(r, u, Plan(r)[d + 1])
      OBVIOUS
    <2>4. d \in 0..(Len(Order(r)) - 1) /\ Plan(r)[d + 1].ok
      BY <1>1, <1>2
    <2> HIDE DEF d, h, x, u, t
    <2> QED
      BY <1>4, <2>1, <2>2, <2>3, <2>4, MoreSelected
  <1>6. \A other \in Threads \ {th} : t.held \cap Held(other) = {}
    <2> HIDE DEF t
    <2> QED
      BY <1>3, <1>5
  <1>7. Advances(th, r, d, t)
    <2> HIDE DEF t, d
    <2> QED
      BY <1>1, <1>2, <1>5, <1>6 DEF Advances
  <1> QED
    BY <1>7

\* And when it goes on.
LEMMA SelectAdvances ==
    ASSUME SoundInv, NEW th \in Threads, Select(th), NextSelect(th).ok
    PROVE  \E t : Advances(th, tx[th].request, tx[th].done, t)
  <1> DEFINE r == tx[th].request
             d == tx[th].done
             h == tx[th].held
             x == tx[th].read
             u == [request |-> r, done |-> d, held |-> h, read |-> x]
             t == Selected(r, u, Plan(r)[d + 1])
  <1>1. /\ th \in Busy /\ Serving(tx[th]) /\ Informed(tx[th], Tables) /\ Ready(tx[th], Tables, now)
        /\ d < Len(Plan(r)) /\ tx[th] # Idle
    BY DEF Select, Selecting, SoundInv, ReadInv, LockInv, Busy
  <1>2. /\ r \in Requests /\ d \in 0..(Len(Order(r)) - 1) /\ d # 0 /\ d # Len(Order(r))
        /\ tx[th] = u /\ NextSelect(th) = Plan(r)[d + 1]
    BY <1>1, PlanOrder DEF Serving, NextSelect
  <1>3. tx' = [tx EXCEPT ![th] = t] /\ UNCHANGED vars
    BY <1>2 DEF Select, SoundInv, ReadInv, LockInv
  <1>4. \A row \in h : \E i \in 1..d : Order(r)[i] # "none" /\ row[1] = Order(r)[i]
    BY <1>1 DEF Serving
  <1>5. r.op \in ModeratorOps => r.by \in Moderators
    BY <1>1 DEF Ready
  <1>6. Informed(u, Tables) /\ Ready(u, Tables, now) /\ Plan(r)[d + 1].ok
    BY <1>1, <1>2
  <1>7. /\ Serving(t) /\ Informed(t, Tables) /\ Ready(t, Tables, now)
        /\ t.request = r /\ t.done = d + 1 /\ t.held = h \cup Plan(r)[d + 1].locks
        /\ d + 1 = Len(Order(r)) => t.read = Snapshot(r.c)
    <2>1. u = [request |-> r, done |-> d, held |-> h, read |-> x]
            /\ t = Selected(r, u, Plan(r)[d + 1])
      OBVIOUS
    <2> HIDE DEF r, d, h, x, u, t
    <2> QED
      BY <1>2, <1>4, <1>5, <1>6, <2>1, MoreSelected
  <1>8. \A other \in Threads \ {th} : t.held \cap Held(other) = {}
    <2> SUFFICES ASSUME NEW other \in Threads \ {th}
                 PROVE  t.held \cap Held(other) = {}
      OBVIOUS
    <2>1. h \cap Held(other) = {}
      BY <1>1 DEF SoundInv, ReadInv, LockInv, OneHolder, Held
    <2>2. Plan(r)[d + 1].locks \cap Held(other) = {}
      BY <1>2 DEF Select, Waits
    <2> HIDE DEF t, h
    <2> QED
      BY <1>7, <2>1, <2>2
  <1>9. Advances(th, r, d, t)
    <2> HIDE DEF t
    <2> QED
      BY <1>2, <1>3, <1>6, <1>7, <1>8 DEF Advances
  <1> QED
    BY <1>9

-----------------------------------------------------------------------------
(* What is ahead of the tables is due *)

\* A request that writes nothing about a campaign holds nothing for it.
LEMMA NothingDue ==
    ASSUME NEW c \in Campaigns, NEW db
    PROVE  Keyed(c, NoWrites) /\ \E s : Due(c, {}, s, NoWrites, db)
  <1> DEFINE w == NoWrites
             h == {}
             s == [campaign |-> [status |-> "none"]]
  <1>1. /\ w.campaign = <<>> /\ w.contract = <<>> /\ w.rows = <<>> /\ w.subs = <<>> /\ w.days = <<>>
        /\ w.dispute = <<>> /\ w.entries = {} /\ w.notes = {}
    BY DEF NoWrites
  <1>2. \A x : w.campaign # At(c, x)
    <2> SUFFICES ASSUME NEW x
                 PROVE  w.campaign # At(c, x)
      OBVIOUS
    <2> DEFINE y == At(c, x)
               z == <<>>
    <2>1. DOMAIN y = {c} /\ DOMAIN z = {} /\ w.campaign = z
      BY <1>1, OneKey
    <2> HIDE DEF y, z, w
    <2> QED
      BY <2>1 DEF y
  <1>3. /\ ~(CampaignRow(c) \subseteq h) /\ \A t : ~(AssignmentRow(c, t) \subseteq h)
        /\ \A t : ~(DisputeRow(c, t) \subseteq h) /\ \A u : ~(AccountRow(u) \subseteq h)
    BY DEF CampaignRow, AssignmentRow, DisputeRow, AccountRow
  <1>4. s.campaign.status = "none"
    OBVIOUS
  <1> HIDE DEF w, h, s
  <1>5. Keyed(c, w)
    BY <1>1, OneKey DEF Keyed
  <1>6. Guarded(c, h, s, w)
    BY <1>1, OneKey DEF Guarded
  <1>7. Fresh(c, h, s, db)
    BY <1>3 DEF Fresh
  <1>8. Lasting(c, s, w)
    BY <1>1, <1>2 DEF Lasting
  <1>9. Due(c, h, s, w, db)
    BY <1>4, <1>5, <1>6, <1>7, <1>8 DEF Due
  <1> QED
    BY <1>5, <1>9 DEF w, h

\* What a ripe thread writes is due.
LEMMA RipeDue ==
    ASSUME SoundInv, NEW th \in Threads, Ripe(tx[th]), NEW t, t = tx[th]
    PROVE  /\ th \in Busy /\ t.request.c \in Campaigns
           /\ Due(t.request.c, t.held, t.read, WritesOfThread(t), Tables)
  <1>1. th \in Busy /\ Serving(t) /\ Informed(t, Tables) /\ Ready(t, Tables, now) /\ now \in Nat
    BY DEF SoundInv, ReadInv, LockInv, Busy, Ripe
  <1>2. t.request \in Requests /\ t.done = Len(Order(t.request))
    BY <1>1 DEF Serving, Ripe
  <1>3. Due(t.request.c, t.held, t.read, WritesOfThread(t), Tables)
    BY <1>1, <1>2, DoneDue DEF WritesOfThread
  <1> QED
    BY <1>1, <1>2, <1>3, RequestFields

\* So what is ahead is due to the requests under way, which hold its rows.
LEMMA TablesBacked ==
    ASSUME SoundInv, NEW g, \A th \in Threads : Ripe(tx[th]) => tx[th].held \cap g = {},
           NEW ahead, ahead = Promising(tx)
    PROVE  Backed(ahead, g, Tables)
  <1>1. /\ Alone(tx) /\ ahead = [c \in Campaigns |-> ahead[c]]
    BY PromisingHere, PromisingCells DEF SoundInv, AheadPromised
  <1>2. ASSUME NEW c \in Campaigns
        PROVE  \/ ahead[c] = NoWrites
               \/ \E th \in Threads : /\ Ripe(tx[th]) /\ tx[th].request.c = c
                                      /\ ahead[c] = WritesOfThread(tx[th])
    <2>1. CASE RipeFor(tx, c) = {}
      BY <1>1, <2>1, PromisedBy
    <2>2. CASE RipeFor(tx, c) # {}
      <3>1. PICK th \in RipeFor(tx, c) : TRUE
        BY <2>2
      <3>2. ahead[c] = WritesOfThread(tx[th])
        BY <1>1, <3>1, PromisedBy
      <3> QED
        BY <3>1, <3>2 DEF RipeFor
    <2> QED
      BY <2>1, <2>2
  <1> HIDE DEF Promising
  <1>3. ASSUME NEW c \in Campaigns
        PROVE  Keyed(c, ahead[c]) /\ \E h, s : Due(c, h, s, ahead[c], Tables) /\ h \cap g = {}
    <2>1. CASE ahead[c] = NoWrites
      <3>1. PICK s : Due(c, {}, s, NoWrites, Tables)
        BY NothingDue
      <3>2. {} \cap g = {}
        OBVIOUS
      <3> QED
        BY <2>1, <3>1, <3>2 DEF Due
    <2>2. ASSUME NEW th \in Threads, Ripe(tx[th]), tx[th].request.c = c,
                 ahead[c] = WritesOfThread(tx[th])
          PROVE  Keyed(c, ahead[c]) /\ \E h, s : Due(c, h, s, ahead[c], Tables) /\ h \cap g = {}
      <3>1. Due(c, tx[th].held, tx[th].read, ahead[c], Tables)
        BY <2>2, RipeDue
      <3>2. tx[th].held \cap g = {}
        BY <2>2
      <3> QED
        BY <3>1, <3>2 DEF Due
    <2> QED
      BY <1>2, <2>1, <2>2
  <1>4. ASSUME NEW c \in Campaigns, NEW d \in Campaigns, c # d,
               NEW e \in ahead[c].entries, NEW f \in ahead[d].entries
        PROVE  e.user # f.user
    <2>1. NoWrites.entries = {}
      BY DEF NoWrites
    <2>2. PICK a \in Threads : Ripe(tx[a]) /\ tx[a].request.c = c /\ ahead[c] = WritesOfThread(tx[a])
      BY <1>2, <1>4, <2>1
    <2>3. PICK b \in Threads : Ripe(tx[b]) /\ tx[b].request.c = d /\ ahead[d] = WritesOfThread(tx[b])
      BY <1>2, <1>4, <2>1
    <2>4. a # b
      BY <1>4, <2>2, <2>3
    <2>5. /\ a \in Busy /\ b \in Busy
          /\ Due(c, tx[a].held, tx[a].read, ahead[c], Tables)
          /\ Due(d, tx[b].held, tx[b].read, ahead[d], Tables)
      BY <2>2, <2>3, RipeDue
    <2>6. tx[a].held \cap tx[b].held = {}
      BY <2>4, <2>5 DEF SoundInv, ReadInv, LockInv, OneHolder, Held
    <2>7. AccountRow(e.user) \subseteq tx[a].held /\ AccountRow(f.user) \subseteq tx[b].held
      <3>1. /\ Guarded(c, tx[a].held, tx[a].read, ahead[c])
            /\ Guarded(d, tx[b].held, tx[b].read, ahead[d])
        BY <2>5 DEF Due
      <3> QED
        BY <1>4, <3>1 DEF Guarded
    <2> QED
      BY <2>6, <2>7, RowsApart
  <1>5. Pledges(ahead)
    BY <1>1, <1>3, <1>4 DEF Pledges
  <1> QED
    BY <1>3, <1>5 DEF Backed

-----------------------------------------------------------------------------
(* SoundInv always holds *)

\* It holds at first.
LEMMA SoundInit == TxInit => SoundInv
  <1> SUFFICES ASSUME TxInit
               PROVE  SoundInv
    OBVIOUS
  <1>1. ReadInv /\ Busy = {} /\ suspended = {}
    BY ReadInit DEF TxInit, Init, Busy
  <1>2. /\ campaign = [c \in Campaigns |-> NoCampaign]
        /\ contract = [c \in Campaigns |-> NoContract]
        /\ assignment = [c \in Campaigns |-> [t \in Users |-> NoAssignment]]
        /\ submissions = [c \in Campaigns |-> [t \in Users |-> <<>>]]
        /\ sessions = [c \in Campaigns |-> [t \in Users |-> {}]]
        /\ dispute = [c \in Campaigns |-> [t \in Users |-> NoDispute]]
        /\ balance = [u \in Users |-> SignupGrant]
    BY DEF TxInit, Init
  <1>3. Formed(Tables)
    BY <1>2 DEF Formed, Tables, ByWorker
  <1>4. Sound(Tables)
    <2> SUFFICES ASSUME NEW c \in Campaigns
                 PROVE  SoundView(View(c, Tables))
      BY DEF Sound
    <2> DEFINE x == View(c, Tables)
    <2>1. /\ x.campaign = campaign[c] /\ x.rows = assignment[c] /\ x.subs = submissions[c]
          /\ x.dispute = dispute[c] /\ x.balance = balance
      BY DEF View, Tables
    <2>2. /\ x.campaign = NoCampaign /\ \A t \in Users : x.rows[t] = NoAssignment
          /\ \A t \in Users : x.dispute[t] = NoDispute /\ \A u \in Users : x.balance[u] = SignupGrant
      BY <1>2, <2>1
    <2>3. /\ NoCampaign.status = "none" /\ NoCampaign \in Campaign
          /\ NoAssignment.status = "none" /\ NoDispute.status = "none" /\ SignupGrant \in Nat
      BY BoundAssumption DEF NoCampaign, Campaign, CampaignStatus, NoAssignment, NoDispute
    <2> HIDE DEF x
    <2>4. SoundCampaign(x.campaign, x.rows)
      BY <2>2, <2>3 DEF SoundCampaign
    <2>5. \A t \in Users : SoundWork(x.rows[t], x.subs[t], x.dispute[t])
      BY <2>2, <2>3 DEF SoundWork, ActiveDispute
    <2>6. SoundView(x)
      BY <2>2, <2>3, <2>4, <2>5 DEF SoundView
    <2> QED
      BY <2>6 DEF x
  <1> QED
    BY <1>1, <1>3, <1>4 DEF SoundInv

\* A thread goes on as it was, with its rows untouched, or is ready itself.
Steady(th) ==
    \/ tx'[th] = tx[th] /\ Untouched(tx[th].held, Tables, Tables')
    \/ Ready(tx'[th], Tables', now')

\* A step that leaves the tables sound, and loses nothing they hold, keeps SoundInv if every thread is
\* steady.
LEMMA SoundKept ==
    ASSUME SoundInv, ReadInv', Formed(Tables'), Sound(Tables'), UNCHANGED <<suspended, now>>,
           Kept(Tables, Tables'), \A th \in Threads : tx'[th] # Idle => Steady(th)
    PROVE  SoundInv'
  <1>1. ASSUME NEW th \in Busy'
        PROVE  Ready(tx'[th], Tables', now')
    <2>1. th \in Threads /\ tx'[th] # Idle
      BY <1>1 DEF Busy
    <2>2. CASE tx'[th] = tx[th] /\ Untouched(tx[th].held, Tables, Tables')
      <3>1. th \in Busy
        BY <2>1, <2>2 DEF Busy
      <3>2. Serving(tx[th]) /\ Informed(tx[th], Tables) /\ Ready(tx[th], Tables, now)
        BY <3>1 DEF SoundInv, ReadInv, LockInv
      <3>3. Ready(tx[th], Tables', now)
        BY <2>2, <3>2, ReadyStays
      <3> QED
        BY <2>2, <3>3
    <2> QED
      BY <2>1, <2>2 DEF Steady
  <1>2. suspended' = {}
    BY DEF SoundInv
  <1> QED
    BY <1>1, <1>2 DEF SoundInv

\* The tables as they were.
LEMMA SoundSame ==
    ASSUME SoundInv, UNCHANGED vars
    PROVE  /\ Tables' = Tables /\ Formed(Tables') /\ Sound(Tables') /\ Kept(Tables, Tables')
           /\ UNCHANGED <<suspended, now>> /\ \A h : Untouched(h, Tables, Tables')
  <1>1. Tables' = Tables /\ UNCHANGED <<suspended, now>>
    BY DEF vars, Tables
  <1>2. Kept(Tables, Tables)
    BY DEF Kept
  <1> QED
    BY <1>1, <1>2, UntouchedSame DEF SoundInv

\* What a commit does.
LEMMA CommitDone ==
    ASSUME SoundInv, NEW th \in Threads, Commit(th),
           NEW r, r = tx[th].request, NEW h, h = tx[th].held, NEW s, s = tx[th].read,
           NEW w, w = Writes(r, s)
    PROVE  /\ th \in Busy /\ r \in Requests /\ tx[th].done = Len(Order(r)) /\ tx[th] # Idle
           /\ Decides(r, h, s, contract[r.c].terms, now)
           /\ Due(r.c, h, s, w, Tables)
           /\ s.campaign.status # "none" => Tables.campaign[r.c].owner = s.campaign.owner
           /\ r.op \in ModeratorOps => r.by \in Moderators
           /\ Tables' = Patch(r.c, w, Tables)
           /\ tx' = [tx EXCEPT ![th] = Idle] /\ UNCHANGED <<suspended, now>>
  <1> DEFINE t == tx[th]
  <1>1. /\ th \in Busy /\ Serving(t) /\ Informed(t, Tables) /\ Ready(t, Tables, now) /\ now \in Nat
        /\ ~(t.done < Len(Plan(r))) /\ t # Idle
    BY DEF Commit, Selecting, SoundInv, ReadInv, LockInv, Busy
  <1>2. r \in Requests /\ t.done = Len(Order(r)) /\ r.c \in Campaigns
    BY <1>1, PlanOrder, RequestFields DEF Serving
  <1>3. tx' = [tx EXCEPT ![th] = Idle] /\ UNCHANGED <<suspended, now>>
    BY DEF Commit, Release
  <1>4. Tables.contract = contract
    BY DEF Tables
  <1>5. /\ Decides(r, h, s, Tables.contract[r.c].terms, now)
        /\ Due(r.c, h, s, w, Tables)
        /\ s.campaign.status # "none" => Tables.campaign[r.c].owner = s.campaign.owner
        /\ r.op \in ModeratorOps => r.by \in Moderators
    <2> HIDE DEF t
    <2> QED
      BY <1>1, <1>2, DoneDue DEF t
  <1>6. Tables' = Patch(r.c, w, Tables)
    BY <1>2, <1>5, CommitPatches DEF Due
  <1> QED
    BY <1>1, <1>2, <1>3, <1>4, <1>5, <1>6

\* A commit keeps it,
LEMMA SoundCommit ==
    ASSUME SoundInv, ReadInv', NEW th \in Threads, Commit(th)
    PROVE  SoundInv'
  <1> DEFINE r == tx[th].request
             c == r.c
             h == tx[th].held
             s == tx[th].read
             w == Writes(r, s)
             db == Tables
             p == Patch(c, w, db)
  <1>1. /\ th \in Busy /\ r \in Requests
        /\ Decides(r, h, s, contract[r.c].terms, now)
        /\ Due(c, h, s, w, db)
        /\ Tables' = p
        /\ tx' = [tx EXCEPT ![th] = Idle] /\ UNCHANGED <<suspended, now>>
    BY CommitDone
  <1>2. Formed(db) /\ Sound(db) /\ Shaped(db) /\ tx = [other \in Threads |-> tx[other]]
    BY DEF SoundInv, ReadInv, LockInv
  <1>3. \A other \in Busy \ {th} : h \cap tx[other].held = {}
    BY <1>1 DEF SoundInv, ReadInv, LockInv, OneHolder, Held, Busy
  <1>4. c \in Campaigns
    BY <1>1, RequestFields
  <1>5. \A other \in Threads : tx'[other] # Idle => other \in Busy \ {th} /\ tx'[other] = tx[other]
    BY <1>1, <1>2 DEF Busy
  <1> HIDE DEF w, s, h, c, db, p
  <1>6. Formed(p) /\ Sound(p) /\ Kept(db, p)
    <2>1. Keyed(c, w)
      BY <1>1 DEF Due
    <2>2. Formed(p)
      BY <1>2, <1>4, <2>1, PatchFormed DEF p
    <2>3. Kept(db, p)
      BY <1>1, <1>2, <1>4, PatchKept DEF p
    <2>4. Sound(p)
      BY <1>1, <1>2, PatchSound DEF p, c, w
    <2> QED
      BY <2>2, <2>3, <2>4
  <1>7. ASSUME NEW other \in Busy \ {th}
        PROVE  Untouched(tx[other].held, db, p)
    <2>1. Guarded(c, h, s, w) /\ Fresh(c, h, s, db) /\ Keyed(c, w)
      BY <1>1 DEF Due
    <2>2. Applied(c, s, w, db, p)
      BY <1>4, <2>1, PatchApplied DEF p
    <2> QED
      BY <1>2, <1>3, <1>4, <2>1, <2>2, CommitUntouched
  <1>8. \A other \in Threads : tx'[other] # Idle => Steady(other)
    BY <1>1, <1>5, <1>7 DEF Steady, db
  <1>9. Formed(Tables') /\ Sound(Tables') /\ Kept(Tables, Tables')
    BY <1>1, <1>6 DEF db
  <1> QED
    BY <1>1, <1>8, <1>9, SoundKept

\* so does a select,
LEMMA SoundAdvance ==
    ASSUME SoundInv, ReadInv', NEW th \in Threads, NEW r, NEW d, NEW t, Advances(th, r, d, t)
    PROVE  SoundInv'
  <1>1. /\ tx' = [tx EXCEPT ![th] = t] /\ UNCHANGED vars /\ Ready(t, Tables, now)
        /\ tx = [other \in Threads |-> tx[other]]
    BY DEF Advances, SoundInv, ReadInv, LockInv
  <1>2. /\ Tables' = Tables /\ Formed(Tables') /\ Sound(Tables') /\ Kept(Tables, Tables')
        /\ UNCHANGED <<suspended, now>> /\ \A h : Untouched(h, Tables, Tables')
    BY <1>1, SoundSame
  <1>3. \A other \in Threads : Steady(other)
    BY <1>1, <1>2 DEF Steady
  <1> QED
    BY <1>2, <1>3, SoundKept

\* the end of a request that is refused,
LEMMA SoundRelease ==
    ASSUME SoundInv, ReadInv', NEW th \in Threads, Release(th), UNCHANGED vars
    PROVE  SoundInv'
  <1>1. tx' = [tx EXCEPT ![th] = Idle] /\ tx = [other \in Threads |-> tx[other]]
    BY DEF Release, SoundInv, ReadInv, LockInv
  <1>2. /\ Formed(Tables') /\ Sound(Tables') /\ Kept(Tables, Tables')
        /\ UNCHANGED <<suspended, now>> /\ \A h : Untouched(h, Tables, Tables')
    BY SoundSame
  <1>3. \A other \in Threads : tx'[other] # Idle => Steady(other)
    BY <1>1, <1>2 DEF Steady
  <1> QED
    BY <1>2, <1>3, SoundKept

\* and what happens outside the threads.
LEMMA SoundStart ==
    ASSUME SoundInv, ReadInv', NEW t \in Users, NEW c \in Campaigns, TxStart(t, c), UNCHANGED tx
    PROVE  SoundInv'
  <1>1. /\ StartAssignment(t, c) /\ now \in Nat /\ Shaped(Tables) /\ Sound(Tables) /\ Formed(Tables)
        /\ UNCHANGED <<suspended, now>>
    BY DEF TxStart, StartAssignment, SoundInv, ReadInv
  <1>2. /\ Sound(Tables') /\ Formed(Tables') /\ Kept(Tables, Tables')
        /\ \A g : AssignmentRow(c, t) \cap g = {} => Untouched(g, Tables, Tables')
    BY <1>1, StartSound, StartUntouched
  <1>3. \A other \in Busy : AssignmentRow(c, t) \cap tx[other].held = {}
    BY DEF TxStart, Held
  <1>4. \A other \in Threads : tx'[other] # Idle => Steady(other)
    BY <1>2, <1>3 DEF Steady, Busy
  <1> QED
    BY <1>1, <1>2, <1>4, SoundKept

\* Time passes only between requests, so a tick keeps it too.
LEMMA SoundTick ==
    ASSUME SoundInv, ReadInv', TxTick, UNCHANGED tx
    PROVE  SoundInv'
  <1>1. Tables' = Tables /\ suspended' = suspended /\ Busy' = {}
    BY DEF TxTick, Tick, Tables, campaignVars, creditVars, workVars, Busy
  <1> QED
    BY <1>1 DEF SoundInv

\* Every step keeps SoundInv.
LEMMA SoundStep == SoundInv /\ [TxNext]_txVars => SoundInv'
  <1> SUFFICES ASSUME SoundInv, [TxNext]_txVars
               PROVE  SoundInv'
    OBVIOUS
  <1>0. ReadInv'
    BY ReadStep DEF SoundInv
  <1>1. ASSUME NEW th \in Threads, NEW r \in Requests, Begin(th, r)
        PROVE  SoundInv'
    BY <1>0, <1>1, BeginAdvances, SoundAdvance
  <1>2. ASSUME NEW th \in Threads, Select(th)
        PROVE  SoundInv'
    <2>1. CASE NextSelect(th).ok
      BY <1>0, <1>2, <2>1, SelectAdvances, SoundAdvance
    <2>2. CASE ~NextSelect(th).ok
      <3>1. Release(th) /\ UNCHANGED vars
        BY <1>2, <2>2 DEF Select
      <3> QED
        BY <1>0, <3>1, SoundRelease
    <2> QED
      BY <2>1, <2>2
  <1>3. ASSUME NEW th \in Threads, RollBack(th)
        PROVE  SoundInv'
    <2>1. Release(th) /\ UNCHANGED vars
      BY <1>3 DEF RollBack
    <2> QED
      BY <1>0, <2>1, SoundRelease
  <1>4. ASSUME UNCHANGED txVars
        PROVE  SoundInv'
    <2>1. UNCHANGED tx /\ UNCHANGED vars
      BY <1>4 DEF txVars
    <2>2. /\ Formed(Tables') /\ Sound(Tables') /\ Kept(Tables, Tables')
          /\ UNCHANGED <<suspended, now>> /\ \A h : Untouched(h, Tables, Tables')
      BY <2>1, SoundSame
    <2>3. \A other \in Threads : Steady(other)
      BY <2>1, <2>2 DEF Steady
    <2> QED
      BY <1>0, <2>2, <2>3, SoundKept
  <1> QED
    BY <1>0, <1>1, <1>2, <1>3, <1>4, SoundCommit, SoundStart, SoundTick DEF TxNext
=============================================================================
