---------------------------- MODULE AtomicLedger ----------------------------
(***************************************************************************)
(* What the ledger engine promises, without threads, queues or locks: a    *)
(* journal of transfers and the balances they produce.  A transfer is      *)
(* journalled and applied in one step; it names accounts that exist, does  *)
(* not overdraw an asset, and its idempotency key was not journalled since *)
(* the last start.  A restart keeps the journal and nothing else.          *)
(*                                                                         *)
(* LedgerEngine implements this specification.                             *)
(***************************************************************************)
EXTENDS Integers, Sequences

CONSTANTS
  Ids,       \* account identifiers
  Names,     \* account names
  Types,     \* account types
  Requests,  \* transaction requests
  NoKey,     \* the empty idempotency key
  Int64(_)   \* the value an integer has once stored in a balance

VARIABLES
  accounts,  \* the open accounts, by identifier
  journal,   \* the transfers made, in order, across restarts
  replayed   \* how many of them were made before the last start

vars == <<accounts, journal, replayed>>

Init ==
  /\ accounts = <<>>
  /\ journal = <<>>
  /\ replayed = 0

Fresh(key) ==
  key # NoKey => \A i \in replayed + 1 .. Len(journal) : journal[i].key # key

Open(id, name, type) ==
  /\ id \notin DOMAIN accounts
  /\ \A other \in DOMAIN accounts : accounts[other].name # name
  /\ accounts' = [i \in DOMAIN accounts \cup {id} |->
                    IF i = id THEN [name |-> name, type |-> type, balance |-> 0]
                    ELSE accounts[i]]
  /\ UNCHANGED <<journal, replayed>>

Plus(accts, id, amount) ==
  [accts EXCEPT ![id].balance = Int64(@ + amount)]

Transfer(r) ==
  /\ {r.debit, r.credit} \subseteq DOMAIN accounts
  /\ r.amount > 0
  /\ accounts[r.debit].type = "Asset" => accounts[r.debit].balance >= r.amount
  /\ Fresh(r.key)
  /\ journal' = Append(journal, r)
  /\ accounts' = Plus(Plus(accounts, r.debit, -r.amount), r.credit, r.amount)
  /\ UNCHANGED replayed

Restart ==
  /\ accounts' = <<>>
  /\ replayed' = Len(journal)
  /\ UNCHANGED journal

Next ==
  \/ \E id \in Ids, name \in Names, type \in Types : Open(id, name, type)
  \/ \E r \in Requests : Transfer(r)
  \/ Restart

Spec == Init /\ [][Next]_vars
==============================================================================
