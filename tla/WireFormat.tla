----------------------------- MODULE WireFormat -----------------------------
(***************************************************************************)
(* The messages between engine/src/server.cpp and gateway/zmq_client.py,   *)
(* as each end lays them out and reads them.  A message is the sequence of *)
(* its fields, each with its width in bytes; a reader asks for a width at  *)
(* an offset and gets the field only if one of that width starts there.    *)
(* A string is a sequence of characters, its bytes are one field.          *)
(***************************************************************************)
EXTENDS Integers, Sequences

CONSTANT Garbage  \* what a reader gets from bytes that are no field

ASSUME GarbageAssumption == Garbage \notin Nat  \* no length

Field(width, value) == <<[width |-> width, value |-> value]>>

write_string(s) == Field(4, Len(s)) \o Field(Len(s), s)

Read(msg, offset, width) ==
  LET start[i \in 1 .. Len(msg)] ==
        IF i = 1 THEN 0 ELSE start[i - 1] + msg[i - 1].width
      found == {i \in 1 .. Len(msg) : start[i] = offset /\ msg[i].width = width}
  IN  IF found = {} THEN Garbage ELSE msg[CHOOSE i \in found : TRUE].value

\* A string, and the offset behind it.
read_string(msg, offset) ==
  LET length == Read(msg, offset, 4)
  IN  IF length = Garbage THEN Garbage ELSE Read(msg, offset + 4, length)
Behind(msg, offset) ==
  LET length == Read(msg, offset, 4)
  IN  IF length = Garbage THEN offset ELSE offset + 4 + length

-----------------------------------------------------------------------------
(* Requests: written by the gateway, read by the engine *)

send_transaction(corr, r) ==
  Field(1, "TX_REQUEST") \o Field(16, corr) \o Field(8, r.amount)
    \o write_string(r.debit) \o write_string(r.credit) \o write_string(r.key)
    \o write_string(r.description) \o write_string(r.currency)
    \o write_string(r.stripe_charge_id)

deserialize_request(msg) ==
  LET at[i \in 1 .. 6] == IF i = 1 THEN 25 ELSE Behind(msg, at[i - 1])
  IN  [corr |-> Read(msg, 1, 16), amount |-> Read(msg, 17, 8),
       debit |-> read_string(msg, at[1]), credit |-> read_string(msg, at[2]),
       key |-> read_string(msg, at[3]), description |-> read_string(msg, at[4]),
       currency |-> read_string(msg, at[5]),
       stripe_charge_id |-> read_string(msg, at[6])]

send_create(corr, name, type) ==
  Field(1, "CREATE_ACCOUNT") \o Field(16, corr) \o write_string(name) \o Field(1, type)

deserialize_create_account(msg) ==
  [corr |-> Read(msg, 1, 16), name |-> read_string(msg, 17),
   type |-> Read(msg, Behind(msg, 17), 1)]

-----------------------------------------------------------------------------
(* Answers: written by the engine, read by the gateway *)

serialize_response(r) ==
  Field(1, "TX_RESPONSE") \o Field(16, r.corr) \o Field(16, r.tx)
    \o Field(1, r.status) \o Field(8, r.latency) \o write_string(r.message)

\* Mutant: the correlation id is skipped twice, as in a message without it.
parse_transaction_unskipped(msg) ==
  [tx |-> Read(msg, 1, 16), status |-> Read(msg, 17, 1),
   latency |-> Read(msg, 18, 8), message |-> read_string(msg, 26)]

parse_transaction(msg) ==
  [tx |-> Read(msg, 17, 16), status |-> Read(msg, 33, 1),
   latency |-> Read(msg, 34, 8), message |-> read_string(msg, 42)]

serialize_create_account_response(r) ==
  Field(1, "CREATE_RESPONSE") \o Field(16, r.corr) \o Field(1, r.status)
    \o write_string(r.account) \o write_string(r.message)

parse_create(msg) ==
  [status |-> Read(msg, 17, 1), account |-> read_string(msg, 18),
   message |-> read_string(msg, Behind(msg, 18))]

serialize_metrics(r) ==
  Field(1, "METRICS_RESPONSE") \o Field(16, r.corr) \o Field(8, r.tps)
    \o Field(8, r.latency) \o Field(8, r.count) \o Field(1, r.ok)

\* The reader starts right behind the type byte.
parse_metrics(msg) ==
  [tps |-> Read(msg, 1, 8), latency |-> Read(msg, 9, 8),
   count |-> Read(msg, 17, 8), ok |-> Read(msg, 25, 1)]

\* The accounts of a snapshot, each two strings, a balance and a type.
write_accounts(accounts) ==
  LET upto[i \in 0 .. Len(accounts)] ==
        IF i = 0 THEN <<>>
        ELSE upto[i - 1] \o write_string(accounts[i].id) \o write_string(accounts[i].name)
               \o Field(8, accounts[i].balance) \o Field(1, accounts[i].type)
  IN  upto[Len(accounts)]

serialize_balance_snapshot(r) ==
  Field(1, "BALANCE_RESPONSE") \o Field(16, r.corr) \o Field(1, r.ok)
    \o Field(8, r.assets) \o Field(8, r.liabilities) \o Field(8, r.equity)
    \o Field(4, Len(r.accounts)) \o write_accounts(r.accounts)

\* The reader starts right behind the type byte here, too.
parse_balances(msg) ==
  [ok |-> Read(msg, 1, 1), assets |-> Read(msg, 2, 8),
   liabilities |-> Read(msg, 10, 8), equity |-> Read(msg, 18, 8),
   count |-> Read(msg, 26, 4)]
==============================================================================
