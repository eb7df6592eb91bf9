------------------------------ MODULE Credits -------------------------------
(***************************************************************************)
(* app/services/credits.py: accounts and the append-only ledger.           *)
(***************************************************************************)
EXTENDS Common

Posted(key) == \E e \in ledger : e.key = key

\* A change that would overdraw the account raises and rolls the request back.
Covered_Always(u, delta) == TRUE
Covered(u, delta) == balance[u] + delta >= 0

\* The same change applied to the account and told to the ledger.
Booked_Overwritten(u, delta, key) ==
    /\ balance' = [balance EXCEPT ![u] = delta]
    /\ ledger' = ledger \cup {[key |-> key, user |-> u, delta |-> delta]}

Booked(u, delta, key) ==
    /\ balance' = [balance EXCEPT ![u] = @ + delta]
    /\ ledger' = ledger \cup {[key |-> key, user |-> u, delta |-> delta]}

\* record_credit_entry: an entry whose key exists is returned as it is.
RecordCreditEntry(u, delta, key) ==
    \/ /\ Posted(key)
       /\ UNCHANGED creditVars
    \/ /\ ~Posted(key)
       /\ delta # 0
       /\ Covered(u, delta)
       /\ Booked(u, delta, key)

PostingKey(c) == <<"posting", c>>
RewardKey(c, t) == <<"reward", <<c, t>>>>

\* The reward of an approved assignment, from a review or from a dispute award.
PayReward_KeyPerCampaign(c, t) ==
    RecordCreditEntry(t, campaign[c].reward, RewardKey(c, campaign[c].owner))
PayReward(c, t) == RecordCreditEntry(t, campaign[c].reward, RewardKey(c, t))
=============================================================================
