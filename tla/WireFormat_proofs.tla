-------------------------- MODULE WireFormat_proofs --------------------------
(***************************************************************************)
(* Proofs about the messages between the gateway and the engine: what is   *)
(* read from a request, and from the answer to a transaction or to a new   *)
(* account, is what was written into it, for strings of any length.  What  *)
(* a reader gets depends on where every field before starts, so the first  *)
(* part is about the offsets, the second lays out each message, and the    *)
(* third reads it.                                                         *)
(***************************************************************************)
EXTENDS WireFormat, DataInduction, SequenceTheorems, TLAPS

-----------------------------------------------------------------------------
(* Reading a message *)

\* What a reader does is defined on anything that has fields with widths.
IsMessage(msg) == Len(msg) \in Nat /\ \A i \in 1 .. Len(msg) : msg[i].width \in Nat

Starts(msg) ==
  CHOOSE start : start = [i \in 1 .. Len(msg) |->
                            IF i = 1 THEN 0 ELSE start[i - 1] + msg[i - 1].width]

LEMMA ReadUnfolds ==
  ASSUME NEW msg, NEW offset, NEW width
  PROVE  LET found == {i \in 1 .. Len(msg) :
                         Starts(msg)[i] = offset /\ msg[i].width = width}
         IN  Read(msg, offset, width) =
               IF found = {} THEN Garbage ELSE msg[CHOOSE i \in found : TRUE].value
BY DEF Read, Starts

\* Where the fields start: there is such a function, since a sum is one.
LEMMA StartsRecursion ==
  ASSUME NEW msg, IsMessage(msg)
  PROVE  \A i \in 1 .. Len(msg) :
           Starts(msg)[i] = IF i = 1 THEN 0 ELSE Starts(msg)[i - 1] + msg[i - 1].width
<1> DEFINE N == Len(msg)
           w == [i \in 1 .. N |-> msg[i].width]
           f == [i \in 1 .. N |-> SumFunctionOnSet(w, 1 .. i - 1)]
           g == [i \in 1 .. N |-> IF i = 1 THEN 0 ELSE f[i - 1] + msg[i - 1].width]
<1>1. N \in Nat /\ \A i \in 1 .. N : w[i] = msg[i].width /\ w[i] \in Int
  BY DEF IsMessage
<1> HIDE DEF N, w
<1>2. ASSUME NEW i \in 1 .. N PROVE f[i] = g[i]
  <2>1. CASE i = 1
    <3>1. 1 .. i - 1 = {}
      BY <2>1
    <3>2. SumFunctionOnSet(w, 1 .. i - 1) = 0
      BY <3>1, FS_EmptySet, SumRecursion
    <3> QED
      BY <2>1, <3>2
  <2>2. CASE i # 1
    <3> DEFINE S == 1 .. i - 1
    <3>1. i - 1 \in S /\ S \ {i - 1} = 1 .. i - 2 /\ (i - 1) - 1 = i - 2
      BY <1>1, <2>2
    <3>2. IsFiniteSet(S)
      BY <1>1, FS_Interval
    <3>3. \A j \in S : w[j] \in Int
      BY <1>1
    <3>4. SumFunctionOnSet(w, S) = w[i - 1] + SumFunctionOnSet(w, S \ {i - 1})
      <4> HIDE DEF S
      <4> DEFINE k == i - 1
      <4>1. k \in S
        BY <3>1
      <4> HIDE DEF k
      <4>2. SumFunctionOnSet(w, S) = w[k] + SumFunctionOnSet(w, S \ {k})
        BY <3>2, <3>3, <4>1, SumSplit
      <4> QED
        BY <4>2 DEF k
    <3>5. SumFunctionOnSet(w, 1 .. i - 2) \in Int
      <4>1. IsFiniteSet(1 .. i - 2) /\ \A j \in 1 .. i - 2 : w[j] \in Int
        BY <1>1, FS_Interval
      <4> QED
        BY <4>1, SumInteger
    <3>6. i - 1 \in 1 .. N
      BY <1>1, <2>2
    <3>7. f[i - 1] = SumFunctionOnSet(w, 1 .. i - 2)
      BY <3>1, <3>6
    <3>8. f[i] = w[i - 1] + f[i - 1]
      BY <3>1, <3>4, <3>7
    <3>9. w[i - 1] = msg[i - 1].width /\ w[i - 1] \in Int /\ f[i - 1] \in Int
      BY <1>1, <3>5, <3>6, <3>7
    <3>10. g[i] = f[i - 1] + msg[i - 1].width
      BY <2>2
    <3> HIDE DEF f, g
    <3> QED
      BY <3>8, <3>9, <3>10
  <2> QED
    BY <2>1, <2>2
<1>3. f = g
  BY <1>2
<1>4. \E start : start = [i \in 1 .. Len(msg) |->
                            IF i = 1 THEN 0 ELSE start[i - 1] + msg[i - 1].width]
  <2> HIDE DEF f
  <2> QED
    BY <1>3 DEF N
<1>5. Starts(msg) = [i \in 1 .. Len(msg) |->
                       IF i = 1 THEN 0 ELSE Starts(msg)[i - 1] + msg[i - 1].width]
  BY <1>4 DEF Starts
<1> QED
  BY <1>5

\* A field starts no earlier than the one before it ends.
LEMMA StartsGrow ==
  ASSUME NEW msg, IsMessage(msg)
  PROVE  /\ \A i \in 1 .. Len(msg) : Starts(msg)[i] \in Nat
         /\ \A i, j \in 1 .. Len(msg) :
              i < j => Starts(msg)[i] + msg[i].width <= Starts(msg)[j]
<1> DEFINE N == Len(msg)
           s == Starts(msg)
           w(i) == msg[i].width
           Grows(j) == /\ s[j] \in Nat
                       /\ \A i \in 1 .. N : i < j => s[i] \in Nat /\ s[i] + w(i) <= s[j]
           T == {j \in 1 .. N : ~Grows(j)}
<1>1. N \in Nat /\ \A i \in 1 .. N : w(i) \in Nat
  BY DEF IsMessage
<1>2. \A i \in 1 .. N : s[i] = IF i = 1 THEN 0 ELSE s[i - 1] + w(i - 1)
  BY StartsRecursion
<1> HIDE DEF N, s, w
<1>3. ASSUME T # {} PROVE FALSE
  <2>1. T \subseteq Nat
    BY <1>1
  <2> HIDE DEF T
  <2>2. PICK j \in T : \A y \in T : j <= y
    BY <1>3, <2>1, LeastNumber
  <2> USE DEF T
  <2>3. j \in 1 .. N /\ ~Grows(j)
    BY <2>2
  <2>4. j # 1
    BY <1>1, <1>2, <2>3
  <2>5. j - 1 \in 1 .. N /\ j - 1 \notin T
    BY <1>1, <2>2, <2>3, <2>4
  <2>6. Grows(j - 1)
    BY <2>5
  <2>7. s[j] = s[j - 1] + w(j - 1) /\ w(j - 1) \in Nat
    BY <1>1, <1>2, <2>3, <2>4, <2>5
  <2>8. s[j] \in Nat
    BY <2>6, <2>7
  <2>9. ASSUME NEW i \in 1 .. N, i < j PROVE s[i] \in Nat /\ s[i] + w(i) <= s[j]
    <3>1. CASE i = j - 1
      BY <2>6, <2>7, <3>1
    <3>2. CASE i # j - 1
      <4>1. i < j - 1
        BY <1>1, <2>3, <2>9, <3>2
      <4>2. s[i] \in Nat /\ s[i] + w(i) <= s[j - 1] /\ w(i) \in Nat
        BY <1>1, <2>6, <4>1
      <4> QED
        BY <2>6, <2>7, <4>2
    <3> QED
      BY <3>1, <3>2
  <2> QED
    BY <2>3, <2>8, <2>9
<1>4. \A j \in 1 .. N : Grows(j)
  BY <1>3
<1> QED
  BY <1>4 DEF N, s, w

\* A reader that asks for a field where it is gets it: no other field of that
\* width starts there, unless both are empty and nothing is between them.
LEMMA ReadField ==
  ASSUME NEW msg, IsMessage(msg), NEW i \in 1 .. Len(msg),
         \/ msg[i].width > 0
         \/ \A j \in 1 .. Len(msg) : j \in {i - 1, i + 1} => msg[j].width > 0
  PROVE  Read(msg, Starts(msg)[i], msg[i].width) = msg[i].value
<1> DEFINE s == Starts(msg)
           found == {j \in 1 .. Len(msg) : s[j] = s[i] /\ msg[j].width = msg[i].width}
<1>1. /\ \A j \in 1 .. Len(msg) : s[j] \in Nat /\ msg[j].width \in Nat
      /\ \A j, k \in 1 .. Len(msg) : j < k => s[j] + msg[j].width <= s[k]
      /\ Len(msg) \in Nat
  BY StartsGrow DEF IsMessage
<1>2. ASSUME NEW j \in found, j # i PROVE FALSE
  <2>1. j \in 1 .. Len(msg) /\ s[j] = s[i] /\ msg[j].width = msg[i].width
    OBVIOUS
  <2>2. msg[i].width = 0
    <3>1. CASE j < i
      BY <1>1, <2>1, <3>1
    <3>2. CASE i < j
      BY <1>1, <2>1, <3>2
    <3> QED
      BY <1>1, <1>2, <2>1, <3>1, <3>2
  <2>3. \A k \in 1 .. Len(msg) : k \in {i - 1, i + 1} => msg[k].width > 0
    BY <2>2
  <2>4. CASE j < i
    <3>1. j # i - 1
      BY <2>1, <2>2, <2>3
    <3>2. i - 1 \in 1 .. Len(msg) /\ j < i - 1
      BY <1>1, <2>1, <2>4, <3>1
    <3>3. s[j] <= s[i - 1] /\ s[i - 1] + msg[i - 1].width <= s[i]
      BY <1>1, <2>1, <2>2, <3>2
    <3>4. msg[i - 1].width > 0
      BY <2>3, <3>2
    <3> QED
      BY <1>1, <2>1, <3>2, <3>3, <3>4
  <2>5. CASE i < j
    <3>1. j # i + 1
      BY <2>1, <2>2, <2>3
    <3>2. i + 1 \in 1 .. Len(msg) /\ i + 1 < j
      BY <1>1, <2>1, <2>5, <3>1
    <3>3. s[i] <= s[i + 1] /\ s[i + 1] + msg[i + 1].width <= s[j]
      BY <1>1, <2>1, <2>2, <3>2
    <3>4. msg[i + 1].width > 0
      BY <2>3, <3>2
    <3> QED
      BY <1>1, <2>1, <3>2, <3>3, <3>4
  <2> QED
    BY <1>1, <1>2, <2>1, <2>4, <2>5
<1>3. found = {i}
  BY <1>2
<1>4. (CHOOSE j \in found : TRUE) = i
  BY <1>3
<1> QED
  BY <1>3, <1>4, ReadUnfolds

\* Where a message has a field, and a string: its length, then its bytes.
FieldAt(msg, i, width, value) ==
  /\ i \in 1 .. Len(msg) /\ width > 0
  /\ msg[i] = [width |-> width, value |-> value]

StringAt(msg, i, str) ==
  /\ i \in 1 .. Len(msg) /\ i + 1 \in 1 .. Len(msg) /\ Len(str) \in Nat
  /\ msg[i] = [width |-> 4, value |-> Len(str)]
  /\ msg[i + 1] = [width |-> Len(str), value |-> str]
  /\ i + 2 \in 1 .. Len(msg) => msg[i + 2].width > 0

\* Where the fields of a message begin, one after the other.
Begins(msg, i, offset) == Starts(msg)[i] = offset

LEMMA FirstBegins ==
  ASSUME NEW msg, IsMessage(msg), 1 \in 1 .. Len(msg)
  PROVE  Begins(msg, 1, 0)
BY StartsRecursion DEF Begins

LEMMA FieldEnds ==
  ASSUME NEW msg, NEW i, NEW width, NEW value, NEW offset,
         IsMessage(msg), FieldAt(msg, i, width, value), Begins(msg, i, offset),
         i + 1 \in 1 .. Len(msg)
  PROVE  Begins(msg, i + 1, offset + width)
<1>1. i \in 1 .. Len(msg) /\ msg[i].width = width
  BY DEF FieldAt
<1>2. i + 1 # 1 /\ (i + 1) - 1 = i
  BY <1>1 DEF IsMessage
<1> QED
  BY <1>1, <1>2, StartsRecursion DEF Begins

LEMMA ReadFieldAt ==
  ASSUME NEW msg, NEW i, NEW width, NEW value, NEW offset,
         IsMessage(msg), FieldAt(msg, i, width, value), Begins(msg, i, offset)
  PROVE  Read(msg, offset, width) = value
<1>1. /\ i \in 1 .. Len(msg)
      /\ msg[i].width = width /\ msg[i].value = value /\ msg[i].width > 0
  BY DEF FieldAt
<1>2. Read(msg, Starts(msg)[i], msg[i].width) = msg[i].value
  BY <1>1, ReadField
<1> QED
  BY <1>1, <1>2 DEF Begins

LEMMA ReadStringAt ==
  ASSUME NEW msg, NEW i, NEW str, NEW offset,
         IsMessage(msg), StringAt(msg, i, str), Begins(msg, i, offset)
  PROVE  read_string(msg, offset) = str
<1> DEFINE s == Starts(msg)
           j == i + 1
<1>1. /\ i \in 1 .. Len(msg) /\ j \in 1 .. Len(msg) /\ Len(str) \in Nat
      /\ msg[i].width = 4 /\ msg[i].value = Len(str)
      /\ msg[j].width = Len(str) /\ msg[j].value = str
  BY DEF StringAt
<1>2. Len(msg) \in Nat /\ s[i] \in Nat
  BY <1>1, StartsGrow DEF IsMessage
<1>3. Read(msg, s[i], 4) = Len(str)
  <2>1. Read(msg, s[i], msg[i].width) = msg[i].value
    BY <1>1, ReadField
  <2> QED
    BY <1>1, <2>1
<1>4. s[j] = s[i] + 4
  <2>1. j # 1 /\ j - 1 = i
    BY <1>1, <1>2
  <2> QED
    BY <1>1, <2>1, StartsRecursion
<1>5. Read(msg, s[i] + 4, Len(str)) = str
  <2>1. \A n \in 1 .. Len(msg) : n \in {j - 1, j + 1} => msg[n].width > 0
    <3>1. j - 1 = i /\ j + 1 = i + 2
      BY <1>1, <1>2
    <3> QED
      BY <1>1, <3>1 DEF StringAt
  <2> HIDE DEF j
  <2>2. Read(msg, s[j], msg[j].width) = msg[j].value
    BY <1>1, <2>1, ReadField
  <2> QED
    BY <1>1, <1>4, <2>2
<1>6. Len(str) # Garbage
  BY <1>1, GarbageAssumption
<1> HIDE DEF s
<1>7. read_string(msg, s[i]) = str
  BY <1>3, <1>5, <1>6 DEF read_string
<1> QED
  BY <1>7 DEF s, Begins

LEMMA StringEnds ==
  ASSUME NEW msg, NEW i, NEW str, NEW offset,
         IsMessage(msg), StringAt(msg, i, str), Begins(msg, i, offset),
         i + 2 \in 1 .. Len(msg)
  PROVE  Begins(msg, i + 2, Behind(msg, offset))
<1> DEFINE s == Starts(msg)
           j == i + 1
<1>1. /\ i \in 1 .. Len(msg) /\ j \in 1 .. Len(msg) /\ Len(str) \in Nat
      /\ msg[i].width = 4 /\ msg[i].value = Len(str)
      /\ msg[j].width = Len(str) /\ msg[j].value = str
  BY DEF StringAt
<1>2. Len(msg) \in Nat /\ s[i] \in Nat
  BY <1>1, StartsGrow DEF IsMessage
<1>3. Read(msg, s[i], 4) = Len(str)
  <2>1. Read(msg, s[i], msg[i].width) = msg[i].value
    BY <1>1, ReadField
  <2> QED
    BY <1>1, <2>1
<1>4. s[j] = s[i] + 4
  <2>1. j # 1 /\ j - 1 = i
    BY <1>1, <1>2
  <2> QED
    BY <1>1, <2>1, StartsRecursion
<1>5. Len(str) # Garbage
  BY <1>1, GarbageAssumption
<1>6. s[i + 2] = s[i] + 4 + Len(str)
  <2>1. i + 2 # 1 /\ (i + 2) - 1 = j
    BY <1>1, <1>2
  <2>2. s[i + 2] = s[j] + msg[j].width
    BY <2>1, StartsRecursion
  <2> QED
    BY <1>1, <1>2, <1>4, <2>2
<1> HIDE DEF s
<1>7. Behind(msg, s[i]) = s[i] + 4 + Len(str)
  BY <1>3, <1>5 DEF Behind
<1> QED
  BY <1>6, <1>7 DEF s, Begins


\* A request on the wire: from the fourth field on, six strings.
LEMMA RequestLayout ==
  ASSUME NEW corr, NEW r,
         Len(r.debit) \in Nat, Len(r.credit) \in Nat, Len(r.key) \in Nat,
         Len(r.description) \in Nat, Len(r.currency) \in Nat, Len(r.stripe_charge_id) \in Nat,
         NEW msg, msg = send_transaction(corr, r)
  PROVE  /\ IsMessage(msg) /\ Len(msg) = 15
         /\ FieldAt(msg, 1, 1, "TX_REQUEST")
         /\ FieldAt(msg, 2, 16, corr)
         /\ FieldAt(msg, 3, 8, r.amount)
         /\ StringAt(msg, 4, r.debit)
         /\ StringAt(msg, 6, r.credit)
         /\ StringAt(msg, 8, r.key)
         /\ StringAt(msg, 10, r.description)
         /\ StringAt(msg, 12, r.currency)
         /\ StringAt(msg, 14, r.stripe_charge_id)
<1> DEFINE f1 == [width |-> 1, value |-> "TX_REQUEST"]
           f2 == [width |-> 16, value |-> corr]
           f3 == [width |-> 8, value |-> r.amount]
           f4 == [width |-> 4, value |-> Len(r.debit)]
           f5 == [width |-> Len(r.debit), value |-> r.debit]
           f6 == [width |-> 4, value |-> Len(r.credit)]
           f7 == [width |-> Len(r.credit), value |-> r.credit]
           f8 == [width |-> 4, value |-> Len(r.key)]
           f9 == [width |-> Len(r.key), value |-> r.key]
           f10 == [width |-> 4, value |-> Len(r.description)]
           f11 == [width |-> Len(r.description), value |-> r.description]
           f12 == [width |-> 4, value |-> Len(r.currency)]
           f13 == [width |-> Len(r.currency), value |-> r.currency]
           f14 == [width |-> 4, value |-> Len(r.stripe_charge_id)]
           f15 == [width |-> Len(r.stripe_charge_id), value |-> r.stripe_charge_id]
           F == {f1, f2, f3, f4, f5, f6, f7, f8, f9, f10, f11, f12, f13,
                 f14, f15}
           m == <<f1>> \o <<f2>> \o <<f3>> \o (<<f4>> \o <<f5>>) \o
                (<<f6>> \o <<f7>>) \o (<<f8>> \o <<f9>>) \o
                (<<f10>> \o <<f11>>) \o (<<f12>> \o <<f13>>) \o
                (<<f14>> \o <<f15>>)
<1>1. msg = m
  BY DEF send_transaction, Field, write_string
<1>2. \A f \in F : f.width \in Nat
  OBVIOUS
<1>3. f1 \in F /\ f2 \in F /\ f3 \in F /\ f4 \in F /\ f5 \in F /\
      f6 \in F /\ f7 \in F /\ f8 \in F /\ f9 \in F /\ f10 \in F /\
      f11 \in F /\ f12 \in F /\ f13 \in F /\ f14 \in F /\ f15 \in F
  OBVIOUS
<1> HIDE DEF F, f1, f2, f3, f4, f5, f6, f7, f8, f9, f10, f11, f12, f13, f14, f15
<1>4. m \in Seq(F) /\ Len(m) = 15
  BY <1>3
<1>5. m[1] = f1 /\ m[2] = f2 /\ m[3] = f3 /\ m[4] = f4 /\ m[5] = f5 /\
      m[6] = f6 /\ m[7] = f7 /\ m[8] = f8 /\ m[9] = f9 /\ m[10] = f10 /\
      m[11] = f11 /\ m[12] = f12 /\ m[13] = f13 /\ m[14] = f14 /\
      m[15] = f15
  BY <1>3
<1> HIDE DEF m
<1>6. IsMessage(m)
  <2>1. \A i \in 1 .. Len(m) : m[i] \in F
    BY <1>4, ElementOfSeq
  <2> QED
    BY <1>2, <1>4, <2>1 DEF IsMessage
<1>7. FieldAt(m, 1, 1, "TX_REQUEST")
  BY <1>4, <1>5 DEF FieldAt, f1
<1>8. FieldAt(m, 2, 16, corr)
  BY <1>4, <1>5 DEF FieldAt, f2
<1>9. FieldAt(m, 3, 8, r.amount)
  BY <1>4, <1>5 DEF FieldAt, f3
<1>10. StringAt(m, 4, r.debit)
  BY <1>4, <1>5 DEF StringAt, f4, f5, f6
<1>11. StringAt(m, 6, r.credit)
  BY <1>4, <1>5 DEF StringAt, f6, f7, f8
<1>12. StringAt(m, 8, r.key)
  BY <1>4, <1>5 DEF StringAt, f8, f9, f10
<1>13. StringAt(m, 10, r.description)
  BY <1>4, <1>5 DEF StringAt, f10, f11, f12
<1>14. StringAt(m, 12, r.currency)
  BY <1>4, <1>5 DEF StringAt, f12, f13, f14
<1>15. StringAt(m, 14, r.stripe_charge_id)
  BY <1>4, <1>5 DEF StringAt, f14, f15
<1> QED
  BY <1>1, <1>4, <1>6, <1>7, <1>8, <1>9, <1>10, <1>11, <1>12, <1>13, <1>14, <1>15

\* A response.
LEMMA ResponseLayout ==
  ASSUME NEW r, Len(r.message) \in Nat,
         NEW msg, msg = serialize_response(r)
  PROVE  /\ IsMessage(msg) /\ Len(msg) = 7
         /\ FieldAt(msg, 1, 1, "TX_RESPONSE")
         /\ FieldAt(msg, 2, 16, r.corr)
         /\ FieldAt(msg, 3, 16, r.tx)
         /\ FieldAt(msg, 4, 1, r.status)
         /\ FieldAt(msg, 5, 8, r.latency)
         /\ StringAt(msg, 6, r.message)
<1> DEFINE f1 == [width |-> 1, value |-> "TX_RESPONSE"]
           f2 == [width |-> 16, value |-> r.corr]
           f3 == [width |-> 16, value |-> r.tx]
           f4 == [width |-> 1, value |-> r.status]
           f5 == [width |-> 8, value |-> r.latency]
           f6 == [width |-> 4, value |-> Len(r.message)]
           f7 == [width |-> Len(r.message), value |-> r.message]
           F == {f1, f2, f3, f4, f5, f6, f7}
           m == <<f1>> \o <<f2>> \o <<f3>> \o <<f4>> \o <<f5>> \o
                (<<f6>> \o <<f7>>)
<1>1. msg = m
  BY DEF serialize_response, Field, write_string
<1>2. \A f \in F : f.width \in Nat
  OBVIOUS
<1>3. f1 \in F /\ f2 \in F /\ f3 \in F /\ f4 \in F /\ f5 \in F /\
      f6 \in F /\ f7 \in F
  OBVIOUS
<1> HIDE DEF F, f1, f2, f3, f4, f5, f6, f7
<1>4. m \in Seq(F) /\ Len(m) = 7
  BY <1>3
<1>5. m[1] = f1 /\ m[2] = f2 /\ m[3] = f3 /\ m[4] = f4 /\ m[5] = f5 /\
      m[6] = f6 /\ m[7] = f7
  BY <1>3
<1> HIDE DEF m
<1>6. IsMessage(m)
  <2>1. \A i \in 1 .. Len(m) : m[i] \in F
    BY <1>4, ElementOfSeq
  <2> QED
    BY <1>2, <1>4, <2>1 DEF IsMessage
<1>7. FieldAt(m, 1, 1, "TX_RESPONSE")
  BY <1>4, <1>5 DEF FieldAt, f1
<1>8. FieldAt(m, 2, 16, r.corr)
  BY <1>4, <1>5 DEF FieldAt, f2
<1>9. FieldAt(m, 3, 16, r.tx)
  BY <1>4, <1>5 DEF FieldAt, f3
<1>10. FieldAt(m, 4, 1, r.status)
  BY <1>4, <1>5 DEF FieldAt, f4
<1>11. FieldAt(m, 5, 8, r.latency)
  BY <1>4, <1>5 DEF FieldAt, f5
<1>12. StringAt(m, 6, r.message)
  BY <1>4, <1>5 DEF StringAt, f6, f7
<1> QED
  BY <1>1, <1>4, <1>6, <1>7, <1>8, <1>9, <1>10, <1>11, <1>12

\* A request for an account ...
LEMMA CreateLayout ==
  ASSUME NEW corr, NEW name, NEW type, Len(name) \in Nat,
         NEW msg, msg = send_create(corr, name, type)
  PROVE  /\ IsMessage(msg) /\ Len(msg) = 5
         /\ FieldAt(msg, 1, 1, "CREATE_ACCOUNT")
         /\ FieldAt(msg, 2, 16, corr)
         /\ StringAt(msg, 3, name)
         /\ FieldAt(msg, 5, 1, type)
<1> DEFINE f1 == [width |-> 1, value |-> "CREATE_ACCOUNT"]
           f2 == [width |-> 16, value |-> corr]
           f3 == [width |-> 4, value |-> Len(name)]
           f4 == [width |-> Len(name), value |-> name]
           f5 == [width |-> 1, value |-> type]
           F == {f1, f2, f3, f4, f5}
           m == <<f1>> \o <<f2>> \o (<<f3>> \o <<f4>>) \o <<f5>>
<1>1. msg = m
  BY DEF send_create, Field, write_string
<1>2. \A f \in F : f.width \in Nat
  OBVIOUS
<1>3. f1 \in F /\ f2 \in F /\ f3 \in F /\ f4 \in F /\ f5 \in F
  OBVIOUS
<1> HIDE DEF F, f1, f2, f3, f4, f5
<1>4. m \in Seq(F) /\ Len(m) = 5
  BY <1>3
<1>5. m[1] = f1 /\ m[2] = f2 /\ m[3] = f3 /\ m[4] = f4 /\ m[5] = f5
  BY <1>3
<1> HIDE DEF m
<1>6. IsMessage(m)
  <2>1. \A i \in 1 .. Len(m) : m[i] \in F
    BY <1>4, ElementOfSeq
  <2> QED
    BY <1>2, <1>4, <2>1 DEF IsMessage
<1>7. FieldAt(m, 1, 1, "CREATE_ACCOUNT")
  BY <1>4, <1>5 DEF FieldAt, f1
<1>8. FieldAt(m, 2, 16, corr)
  BY <1>4, <1>5 DEF FieldAt, f2
<1>9. StringAt(m, 3, name)
  BY <1>4, <1>5 DEF StringAt, f3, f4, f5
<1>10. FieldAt(m, 5, 1, type)
  BY <1>4, <1>5 DEF FieldAt, f5
<1> QED
  BY <1>1, <1>4, <1>6, <1>7, <1>8, <1>9, <1>10

\* ... and its answer.
LEMMA CreatedLayout ==
  ASSUME NEW r, Len(r.account) \in Nat, Len(r.message) \in Nat,
         NEW msg, msg = serialize_create_account_response(r)
  PROVE  /\ IsMessage(msg) /\ Len(msg) = 7
         /\ FieldAt(msg, 1, 1, "CREATE_RESPONSE")
         /\ FieldAt(msg, 2, 16, r.corr)
         /\ FieldAt(msg, 3, 1, r.status)
         /\ StringAt(msg, 4, r.account)
         /\ StringAt(msg, 6, r.message)
<1> DEFINE f1 == [width |-> 1, value |-> "CREATE_RESPONSE"]
           f2 == [width |-> 16, value |-> r.corr]
           f3 == [width |-> 1, value |-> r.status]
           f4 == [width |-> 4, value |-> Len(r.account)]
           f5 == [width |-> Len(r.account), value |-> r.account]
           f6 == [width |-> 4, value |-> Len(r.message)]
           f7 == [width |-> Len(r.message), value |-> r.message]
           F == {f1, f2, f3, f4, f5, f6, f7}
           m == <<f1>> \o <<f2>> \o <<f3>> \o (<<f4>> \o <<f5>>) \o
                (<<f6>> \o <<f7>>)
<1>1. msg = m
  BY DEF serialize_create_account_response, Field, write_string
<1>2. \A f \in F : f.width \in Nat
  OBVIOUS
<1>3. f1 \in F /\ f2 \in F /\ f3 \in F /\ f4 \in F /\ f5 \in F /\
      f6 \in F /\ f7 \in F
  OBVIOUS
<1> HIDE DEF F, f1, f2, f3, f4, f5, f6, f7
<1>4. m \in Seq(F) /\ Len(m) = 7
  BY <1>3
<1>5. m[1] = f1 /\ m[2] = f2 /\ m[3] = f3 /\ m[4] = f4 /\ m[5] = f5 /\
      m[6] = f6 /\ m[7] = f7
  BY <1>3
<1> HIDE DEF m
<1>6. IsMessage(m)
  <2>1. \A i \in 1 .. Len(m) : m[i] \in F
    BY <1>4, ElementOfSeq
  <2> QED
    BY <1>2, <1>4, <2>1 DEF IsMessage
<1>7. FieldAt(m, 1, 1, "CREATE_RESPONSE")
  BY <1>4, <1>5 DEF FieldAt, f1
<1>8. FieldAt(m, 2, 16, r.corr)
  BY <1>4, <1>5 DEF FieldAt, f2
<1>9. FieldAt(m, 3, 1, r.status)
  BY <1>4, <1>5 DEF FieldAt, f3
<1>10. StringAt(m, 4, r.account)
  BY <1>4, <1>5 DEF StringAt, f4, f5, f6
<1>11. StringAt(m, 6, r.message)
  BY <1>4, <1>5 DEF StringAt, f6, f7
<1> QED
  BY <1>1, <1>4, <1>6, <1>7, <1>8, <1>9, <1>10, <1>11

\* A metrics sample.
LEMMA MetricsLayout ==
  ASSUME NEW r,
         NEW msg, msg = serialize_metrics(r)
  PROVE  /\ IsMessage(msg) /\ Len(msg) = 6
         /\ FieldAt(msg, 1, 1, "METRICS_RESPONSE")
         /\ FieldAt(msg, 2, 16, r.corr)
         /\ FieldAt(msg, 3, 8, r.tps)
         /\ FieldAt(msg, 4, 8, r.latency)
         /\ FieldAt(msg, 5, 8, r.count)
         /\ FieldAt(msg, 6, 1, r.ok)
<1> DEFINE f1 == [width |-> 1, value |-> "METRICS_RESPONSE"]
           f2 == [width |-> 16, value |-> r.corr]
           f3 == [width |-> 8, value |-> r.tps]
           f4 == [width |-> 8, value |-> r.latency]
           f5 == [width |-> 8, value |-> r.count]
           f6 == [width |-> 1, value |-> r.ok]
           F == {f1, f2, f3, f4, f5, f6}
           m == <<f1>> \o <<f2>> \o <<f3>> \o <<f4>> \o <<f5>> \o <<f6>>
<1>1. msg = m
  BY DEF serialize_metrics, Field, write_string
<1>2. \A f \in F : f.width \in Nat
  OBVIOUS
<1>3. f1 \in F /\ f2 \in F /\ f3 \in F /\ f4 \in F /\ f5 \in F /\ f6 \in F
  OBVIOUS
<1> HIDE DEF F, f1, f2, f3, f4, f5, f6
<1>4. m \in Seq(F) /\ Len(m) = 6
  BY <1>3
<1>5. m[1] = f1 /\ m[2] = f2 /\ m[3] = f3 /\ m[4] = f4 /\ m[5] = f5 /\
      m[6] = f6
  BY <1>3
<1> HIDE DEF m
<1>6. IsMessage(m)
  <2>1. \A i \in 1 .. Len(m) : m[i] \in F
    BY <1>4, ElementOfSeq
  <2> QED
    BY <1>2, <1>4, <2>1 DEF IsMessage
<1>7. FieldAt(m, 1, 1, "METRICS_RESPONSE")
  BY <1>4, <1>5 DEF FieldAt, f1
<1>8. FieldAt(m, 2, 16, r.corr)
  BY <1>4, <1>5 DEF FieldAt, f2
<1>9. FieldAt(m, 3, 8, r.tps)
  BY <1>4, <1>5 DEF FieldAt, f3
<1>10. FieldAt(m, 4, 8, r.latency)
  BY <1>4, <1>5 DEF FieldAt, f4
<1>11. FieldAt(m, 5, 8, r.count)
  BY <1>4, <1>5 DEF FieldAt, f5
<1>12. FieldAt(m, 6, 1, r.ok)
  BY <1>4, <1>5 DEF FieldAt, f6
<1> QED
  BY <1>1, <1>4, <1>6, <1>7, <1>8, <1>9, <1>10, <1>11, <1>12

\* Nothing is written for no accounts.
LEMMA NoAccounts == write_accounts(<<>>) = <<>>
<1> DEFINE accounts == <<>>
           More(s, a) == s \o write_string(a.id) \o write_string(a.name)
                           \o Field(8, a.balance) \o Field(1, a.type)
           U == CHOOSE upto : upto = [i \in 0 .. Len(accounts) |->
                  IF i = 0 THEN <<>> ELSE More(upto[i - 1], accounts[i])]
           f == [i \in 0 .. 0 |-> <<>>]
<1>1. 0 .. Len(accounts) = 0 .. 0
  OBVIOUS
<1>2. write_accounts(<<>>) = U[Len(accounts)]
  BY DEF write_accounts
<1> HIDE DEF More, accounts
<1>3. f = [i \in 0 .. Len(accounts) |-> IF i = 0 THEN <<>> ELSE More(f[i - 1], accounts[i])]
  BY <1>1
<1> HIDE DEF f
<1>4. U = [i \in 0 .. Len(accounts) |-> IF i = 0 THEN <<>> ELSE More(U[i - 1], accounts[i])]
  BY <1>3
<1>5. Len(accounts) = 0
  BY DEF accounts
<1> HIDE DEF U
<1> QED
  BY <1>2, <1>4, <1>5

\* A snapshot of no accounts.
LEMMA BalancesLayout ==
  ASSUME NEW r, r.accounts = <<>>,
         NEW msg, msg = serialize_balance_snapshot(r)
  PROVE  /\ IsMessage(msg) /\ Len(msg) = 7
         /\ FieldAt(msg, 1, 1, "BALANCE_RESPONSE")
         /\ FieldAt(msg, 2, 16, r.corr)
         /\ FieldAt(msg, 3, 1, r.ok)
         /\ FieldAt(msg, 4, 8, r.assets)
         /\ FieldAt(msg, 5, 8, r.liabilities)
         /\ FieldAt(msg, 6, 8, r.equity)
         /\ FieldAt(msg, 7, 4, 0)
<1> DEFINE f1 == [width |-> 1, value |-> "BALANCE_RESPONSE"]
           f2 == [width |-> 16, value |-> r.corr]
           f3 == [width |-> 1, value |-> r.ok]
           f4 == [width |-> 8, value |-> r.assets]
           f5 == [width |-> 8, value |-> r.liabilities]
           f6 == [width |-> 8, value |-> r.equity]
           f7 == [width |-> 4, value |-> 0]
           F == {f1, f2, f3, f4, f5, f6, f7}
           m == <<f1>> \o <<f2>> \o <<f3>> \o <<f4>> \o <<f5>> \o <<f6>> \o
                <<f7>> \o <<>>
<1>1. msg = m
  <2>1. Len(r.accounts) = 0 /\ write_accounts(r.accounts) = <<>>
    BY NoAccounts
  <2> QED
    BY <2>1 DEF serialize_balance_snapshot, Field
<1>2. \A f \in F : f.width \in Nat
  OBVIOUS
<1>3. f1 \in F /\ f2 \in F /\ f3 \in F /\ f4 \in F /\ f5 \in F /\
      f6 \in F /\ f7 \in F
  OBVIOUS
<1> HIDE DEF F, f1, f2, f3, f4, f5, f6, f7
<1>4. m \in Seq(F) /\ Len(m) = 7
  BY <1>3
<1>5. m[1] = f1 /\ m[2] = f2 /\ m[3] = f3 /\ m[4] = f4 /\ m[5] = f5 /\
      m[6] = f6 /\ m[7] = f7
  BY <1>3
<1> HIDE DEF m
<1>6. IsMessage(m)
  <2>1. \A i \in 1 .. Len(m) : m[i] \in F
    BY <1>4, ElementOfSeq
  <2> QED
    BY <1>2, <1>4, <2>1 DEF IsMessage
<1>7. FieldAt(m, 1, 1, "BALANCE_RESPONSE")
  BY <1>4, <1>5 DEF FieldAt, f1
<1>8. FieldAt(m, 2, 16, r.corr)
  BY <1>4, <1>5 DEF FieldAt, f2
<1>9. FieldAt(m, 3, 1, r.ok)
  BY <1>4, <1>5 DEF FieldAt, f3
<1>10. FieldAt(m, 4, 8, r.assets)
  BY <1>4, <1>5 DEF FieldAt, f4
<1>11. FieldAt(m, 5, 8, r.liabilities)
  BY <1>4, <1>5 DEF FieldAt, f5
<1>12. FieldAt(m, 6, 8, r.equity)
  BY <1>4, <1>5 DEF FieldAt, f6
<1>13. FieldAt(m, 7, 4, 0)
  BY <1>4, <1>5 DEF FieldAt, f7
<1> QED
  BY <1>1, <1>4, <1>6, <1>7, <1>8, <1>9, <1>10, <1>11, <1>12, <1>13

-----------------------------------------------------------------------------
(* What is written is what is read *)

\* Where the reader of a request looks for its strings.
Ats(msg) == CHOOSE at : at = [i \in 1 .. 6 |-> IF i = 1 THEN 25 ELSE Behind(msg, at[i - 1])]

LEMMA AtsRecursion ==
  ASSUME NEW msg
  PROVE  /\ Ats(msg)[1] = 25 /\ Ats(msg)[2] = Behind(msg, Ats(msg)[1])
         /\ Ats(msg)[3] = Behind(msg, Ats(msg)[2]) /\ Ats(msg)[4] = Behind(msg, Ats(msg)[3])
         /\ Ats(msg)[5] = Behind(msg, Ats(msg)[4]) /\ Ats(msg)[6] = Behind(msg, Ats(msg)[5])
<1> DEFINE B(o) == Behind(msg, o)
           f == [i \in 1 .. 6 |-> IF i = 1 THEN 25 ELSE IF i = 2 THEN B(25)
                                  ELSE IF i = 3 THEN B(B(25)) ELSE IF i = 4 THEN B(B(B(25)))
                                  ELSE IF i = 5 THEN B(B(B(B(25)))) ELSE B(B(B(B(B(25)))))]
<1> HIDE DEF B
<1>1. ASSUME NEW i \in 1 .. 6
      PROVE  f[i] = IF i = 1 THEN 25 ELSE B(f[i - 1])
  <2>1. f[1] = 25 /\ f[2] = B(f[1]) /\ f[3] = B(f[2])
    OBVIOUS
  <2>2. f[4] = B(f[3]) /\ f[5] = B(f[4]) /\ f[6] = B(f[5])
    OBVIOUS
  <2> HIDE DEF f
  <2>3. CASE i = 1
    BY <2>1, <2>3
  <2>4. CASE i = 2
    BY <2>1, <2>4
  <2>5. CASE i = 3
    BY <2>1, <2>5
  <2>6. CASE i = 4
    BY <2>2, <2>6
  <2>7. CASE i = 5
    BY <2>2, <2>7
  <2>8. CASE i = 6
    BY <2>2, <2>8
  <2> QED
    BY <2>3, <2>4, <2>5, <2>6, <2>7, <2>8
<1>2. f = [i \in 1 .. 6 |-> IF i = 1 THEN 25 ELSE B(f[i - 1])]
  <2>1. f = [i \in 1 .. 6 |-> f[i]]
    OBVIOUS
  <2> HIDE DEF f
  <2> QED
    BY <1>1, <2>1
<1>3. \E at : at = [i \in 1 .. 6 |-> IF i = 1 THEN 25 ELSE B(at[i - 1])]
  <2> HIDE DEF f
  <2> QED
    BY <1>2
<1>4. Ats(msg) = [i \in 1 .. 6 |-> IF i = 1 THEN 25 ELSE Behind(msg, Ats(msg)[i - 1])]
  BY <1>3 DEF Ats, B
<1> QED
  BY <1>4

\* The engine reads from a request what the gateway wrote into it, whatever the
\* lengths of its six strings (zmq_client.py:67-89, server.cpp:77-98).
THEOREM RequestRoundTrip ==
  ASSUME NEW corr, NEW r,
         Len(r.debit) \in Nat, Len(r.credit) \in Nat, Len(r.key) \in Nat,
         Len(r.description) \in Nat, Len(r.currency) \in Nat,
         Len(r.stripe_charge_id) \in Nat
  PROVE  deserialize_request(send_transaction(corr, r)) =
           [corr |-> corr, amount |-> r.amount, debit |-> r.debit, credit |-> r.credit,
            key |-> r.key, description |-> r.description, currency |-> r.currency,
            stripe_charge_id |-> r.stripe_charge_id]
<1> DEFINE m == send_transaction(corr, r)
<1>0. m = send_transaction(corr, r)
  OBVIOUS
<1> HIDE DEF m
<1>1. IsMessage(m) /\ Len(m) = 15
  BY <1>0, RequestLayout
<1>2. /\ FieldAt(m, 1, 1, "TX_REQUEST") /\ FieldAt(m, 2, 16, corr)
      /\ FieldAt(m, 3, 8, r.amount) /\ StringAt(m, 4, r.debit)
      /\ StringAt(m, 6, r.credit) /\ StringAt(m, 8, r.key)
      /\ StringAt(m, 10, r.description) /\ StringAt(m, 12, r.currency)
      /\ StringAt(m, 14, r.stripe_charge_id)
  BY <1>0, RequestLayout
<1>3. Begins(m, 1, 0)
  <2>1. 1 \in 1 .. Len(m)
    BY <1>1
  <2> QED
    BY <1>1, <2>1, FirstBegins
<1>4. Begins(m, 2, 1)
  <2>1. 1 + 1 \in 1 .. Len(m)
    BY <1>1
  <2>2. Begins(m, 1 + 1, 0 + 1)
    BY <1>1, <1>2, <1>3, <2>1, FieldEnds
  <2> QED
    BY <2>2
<1>5. Read(m, 1, 16) = corr
  BY <1>1, <1>2, <1>4, ReadFieldAt
<1>6. Begins(m, 3, 17)
  <2>1. 2 + 1 \in 1 .. Len(m)
    BY <1>1
  <2>2. Begins(m, 2 + 1, 1 + 16)
    BY <1>1, <1>2, <1>4, <2>1, FieldEnds
  <2> QED
    BY <2>2
<1>7. Read(m, 17, 8) = r.amount
  BY <1>1, <1>2, <1>6, ReadFieldAt
<1>8. Begins(m, 4, Ats(m)[1])
  <2>1. 3 + 1 \in 1 .. Len(m)
    BY <1>1
  <2>2. Begins(m, 3 + 1, 17 + 8)
    BY <1>1, <1>2, <1>6, <2>1, FieldEnds
  <2>3. 17 + 8 = 25 /\ Ats(m)[1] = 25
    BY AtsRecursion
  <2> QED
    BY <2>2, <2>3
<1>9. read_string(m, Ats(m)[1]) = r.debit /\ Begins(m, 6, Ats(m)[2])
  <2>1. 4 + 2 \in 1 .. Len(m)
    BY <1>1
  <2>2. read_string(m, Ats(m)[1]) = r.debit
    BY <1>1, <1>2, <1>8, ReadStringAt
  <2>3. Begins(m, 4 + 2, Behind(m, Ats(m)[1]))
    BY <1>1, <1>2, <1>8, <2>1, StringEnds
  <2> QED
    BY <2>2, <2>3, AtsRecursion
<1>10. read_string(m, Ats(m)[2]) = r.credit /\ Begins(m, 8, Ats(m)[3])
  <2>1. 6 + 2 \in 1 .. Len(m)
    BY <1>1
  <2>2. read_string(m, Ats(m)[2]) = r.credit
    BY <1>1, <1>2, <1>9, ReadStringAt
  <2>3. Begins(m, 6 + 2, Behind(m, Ats(m)[2]))
    BY <1>1, <1>2, <1>9, <2>1, StringEnds
  <2> QED
    BY <2>2, <2>3, AtsRecursion
<1>11. read_string(m, Ats(m)[3]) = r.key /\ Begins(m, 10, Ats(m)[4])
  <2>1. 8 + 2 \in 1 .. Len(m)
    BY <1>1
  <2>2. read_string(m, Ats(m)[3]) = r.key
    BY <1>1, <1>2, <1>10, ReadStringAt
  <2>3. Begins(m, 8 + 2, Behind(m, Ats(m)[3]))
    BY <1>1, <1>2, <1>10, <2>1, StringEnds
  <2> QED
    BY <2>2, <2>3, AtsRecursion
<1>12. read_string(m, Ats(m)[4]) = r.description /\ Begins(m, 12, Ats(m)[5])
  <2>1. 10 + 2 \in 1 .. Len(m)
    BY <1>1
  <2>2. read_string(m, Ats(m)[4]) = r.description
    BY <1>1, <1>2, <1>11, ReadStringAt
  <2>3. Begins(m, 10 + 2, Behind(m, Ats(m)[4]))
    BY <1>1, <1>2, <1>11, <2>1, StringEnds
  <2> QED
    BY <2>2, <2>3, AtsRecursion
<1>13. read_string(m, Ats(m)[5]) = r.currency /\ Begins(m, 14, Ats(m)[6])
  <2>1. 12 + 2 \in 1 .. Len(m)
    BY <1>1
  <2>2. read_string(m, Ats(m)[5]) = r.currency
    BY <1>1, <1>2, <1>12, ReadStringAt
  <2>3. Begins(m, 12 + 2, Behind(m, Ats(m)[5]))
    BY <1>1, <1>2, <1>12, <2>1, StringEnds
  <2> QED
    BY <2>2, <2>3, AtsRecursion
<1>14. read_string(m, Ats(m)[6]) = r.stripe_charge_id
  BY <1>1, <1>2, <1>13, ReadStringAt
<1>15. deserialize_request(m) =
         [corr |-> Read(m, 1, 16), amount |-> Read(m, 17, 8),
          debit |-> read_string(m, Ats(m)[1]), credit |-> read_string(m, Ats(m)[2]),
          key |-> read_string(m, Ats(m)[3]), description |-> read_string(m, Ats(m)[4]),
          currency |-> read_string(m, Ats(m)[5]),
          stripe_charge_id |-> read_string(m, Ats(m)[6])]
  BY DEF deserialize_request, Ats
<1> QED
  BY <1>0, <1>5, <1>7, <1>9, <1>10, <1>11, <1>12, <1>13, <1>14, <1>15

\* The gateway reads from the answer to a transaction what the engine wrote into
\* it (server.cpp:102-117, zmq_client.py:91-112).
THEOREM ResponseRoundTrip ==
  ASSUME NEW r, Len(r.message) \in Nat
  PROVE  LET msg == serialize_response(r)
         IN  /\ Read(msg, 1, 16) = r.corr
             /\ parse_transaction(msg) = [tx |-> r.tx, status |-> r.status,
                                          latency |-> r.latency, message |-> r.message]
<1> DEFINE m == serialize_response(r)
<1>0. m = serialize_response(r)
  OBVIOUS
<1> HIDE DEF m
<1>1. IsMessage(m) /\ Len(m) = 7
  BY <1>0, ResponseLayout
<1>2. /\ FieldAt(m, 1, 1, "TX_RESPONSE") /\ FieldAt(m, 2, 16, r.corr)
      /\ FieldAt(m, 3, 16, r.tx) /\ FieldAt(m, 4, 1, r.status)
      /\ FieldAt(m, 5, 8, r.latency) /\ StringAt(m, 6, r.message)
  BY <1>0, ResponseLayout
<1>3. Begins(m, 1, 0)
  <2>1. 1 \in 1 .. Len(m)
    BY <1>1
  <2> QED
    BY <1>1, <2>1, FirstBegins
<1>4. Begins(m, 2, 1)
  <2>1. 1 + 1 \in 1 .. Len(m)
    BY <1>1
  <2>2. Begins(m, 1 + 1, 0 + 1)
    BY <1>1, <1>2, <1>3, <2>1, FieldEnds
  <2> QED
    BY <2>2
<1>5. Read(m, 1, 16) = r.corr
  BY <1>1, <1>2, <1>4, ReadFieldAt
<1>6. Begins(m, 3, 17)
  <2>1. 2 + 1 \in 1 .. Len(m)
    BY <1>1
  <2>2. Begins(m, 2 + 1, 1 + 16)
    BY <1>1, <1>2, <1>4, <2>1, FieldEnds
  <2> QED
    BY <2>2
<1>7. Read(m, 17, 16) = r.tx
  BY <1>1, <1>2, <1>6, ReadFieldAt
<1>8. Begins(m, 4, 33)
  <2>1. 3 + 1 \in 1 .. Len(m)
    BY <1>1
  <2>2. Begins(m, 3 + 1, 17 + 16)
    BY <1>1, <1>2, <1>6, <2>1, FieldEnds
  <2> QED
    BY <2>2
<1>9. Read(m, 33, 1) = r.status
  BY <1>1, <1>2, <1>8, ReadFieldAt
<1>10. Begins(m, 5, 34)
  <2>1. 4 + 1 \in 1 .. Len(m)
    BY <1>1
  <2>2. Begins(m, 4 + 1, 33 + 1)
    BY <1>1, <1>2, <1>8, <2>1, FieldEnds
  <2> QED
    BY <2>2
<1>11. Read(m, 34, 8) = r.latency
  BY <1>1, <1>2, <1>10, ReadFieldAt
<1>12. Begins(m, 6, 42)
  <2>1. 5 + 1 \in 1 .. Len(m)
    BY <1>1
  <2>2. Begins(m, 5 + 1, 34 + 8)
    BY <1>1, <1>2, <1>10, <2>1, FieldEnds
  <2> QED
    BY <2>2
<1>13. read_string(m, 42) = r.message
  BY <1>1, <1>2, <1>12, ReadStringAt
<1> QED
  BY <1>0, <1>5, <1>7, <1>9, <1>11, <1>13 DEF parse_transaction

\* The engine reads from an account request what the gateway wrote into it
\* (zmq_client.py:114-121, server.cpp:121-134).
THEOREM CreateRoundTrip ==
  ASSUME NEW corr, NEW name, NEW type, Len(name) \in Nat
  PROVE  deserialize_create_account(send_create(corr, name, type)) =
           [corr |-> corr, name |-> name, type |-> type]
<1> DEFINE m == send_create(corr, name, type)
<1>0. m = send_create(corr, name, type)
  OBVIOUS
<1> HIDE DEF m
<1>1. IsMessage(m) /\ Len(m) = 5
  BY <1>0, CreateLayout
<1>2. /\ FieldAt(m, 1, 1, "CREATE_ACCOUNT") /\ FieldAt(m, 2, 16, corr)
      /\ StringAt(m, 3, name) /\ FieldAt(m, 5, 1, type)
  BY <1>0, CreateLayout
<1>3. Begins(m, 1, 0)
  <2>1. 1 \in 1 .. Len(m)
    BY <1>1
  <2> QED
    BY <1>1, <2>1, FirstBegins
<1>4. Begins(m, 2, 1)
  <2>1. 1 + 1 \in 1 .. Len(m)
    BY <1>1
  <2>2. Begins(m, 1 + 1, 0 + 1)
    BY <1>1, <1>2, <1>3, <2>1, FieldEnds
  <2> QED
    BY <2>2
<1>5. Read(m, 1, 16) = corr
  BY <1>1, <1>2, <1>4, ReadFieldAt
<1>6. Begins(m, 3, 17)
  <2>1. 2 + 1 \in 1 .. Len(m)
    BY <1>1
  <2>2. Begins(m, 2 + 1, 1 + 16)
    BY <1>1, <1>2, <1>4, <2>1, FieldEnds
  <2> QED
    BY <2>2
<1>7. read_string(m, 17) = name /\ Begins(m, 5, Behind(m, 17))
  <2>1. 3 + 2 \in 1 .. Len(m)
    BY <1>1
  <2>2. read_string(m, 17) = name
    BY <1>1, <1>2, <1>6, ReadStringAt
  <2>3. Begins(m, 3 + 2, Behind(m, 17))
    BY <1>1, <1>2, <1>6, <2>1, StringEnds
  <2> QED
    BY <2>2, <2>3
<1>8. Read(m, Behind(m, 17), 1) = type
  BY <1>1, <1>2, <1>7, ReadFieldAt
<1> QED
  BY <1>0, <1>5, <1>7, <1>8 DEF deserialize_create_account

\* The gateway reads from the answer to an account request what the engine wrote
\* (server.cpp:138-152, zmq_client.py:121-137).
THEOREM CreatedRoundTrip ==
  ASSUME NEW r, Len(r.account) \in Nat, Len(r.message) \in Nat
  PROVE  LET msg == serialize_create_account_response(r)
         IN  /\ Read(msg, 1, 16) = r.corr
             /\ parse_create(msg) = [status |-> r.status, account |-> r.account,
                                     message |-> r.message]
<1> DEFINE m == serialize_create_account_response(r)
<1>0. m = serialize_create_account_response(r)
  OBVIOUS
<1> HIDE DEF m
<1>1. IsMessage(m) /\ Len(m) = 7
  BY <1>0, CreatedLayout
<1>2. /\ FieldAt(m, 1, 1, "CREATE_RESPONSE") /\ FieldAt(m, 2, 16, r.corr)
      /\ FieldAt(m, 3, 1, r.status) /\ StringAt(m, 4, r.account)
      /\ StringAt(m, 6, r.message)
  BY <1>0, CreatedLayout
<1>3. Begins(m, 1, 0)
  <2>1. 1 \in 1 .. Len(m)
    BY <1>1
  <2> QED
    BY <1>1, <2>1, FirstBegins
<1>4. Begins(m, 2, 1)
  <2>1. 1 + 1 \in 1 .. Len(m)
    BY <1>1
  <2>2. Begins(m, 1 + 1, 0 + 1)
    BY <1>1, <1>2, <1>3, <2>1, FieldEnds
  <2> QED
    BY <2>2
<1>5. Read(m, 1, 16) = r.corr
  BY <1>1, <1>2, <1>4, ReadFieldAt
<1>6. Begins(m, 3, 17)
  <2>1. 2 + 1 \in 1 .. Len(m)
    BY <1>1
  <2>2. Begins(m, 2 + 1, 1 + 16)
    BY <1>1, <1>2, <1>4, <2>1, FieldEnds
  <2> QED
    BY <2>2
<1>7. Read(m, 17, 1) = r.status
  BY <1>1, <1>2, <1>6, ReadFieldAt
<1>8. Begins(m, 4, 18)
  <2>1. 3 + 1 \in 1 .. Len(m)
    BY <1>1
  <2>2. Begins(m, 3 + 1, 17 + 1)
    BY <1>1, <1>2, <1>6, <2>1, FieldEnds
  <2> QED
    BY <2>2
<1>9. read_string(m, 18) = r.account /\ Begins(m, 6, Behind(m, 18))
  <2>1. 4 + 2 \in 1 .. Len(m)
    BY <1>1
  <2>2. read_string(m, 18) = r.account
    BY <1>1, <1>2, <1>8, ReadStringAt
  <2>3. Begins(m, 4 + 2, Behind(m, 18))
    BY <1>1, <1>2, <1>8, <2>1, StringEnds
  <2> QED
    BY <2>2, <2>3
<1>10. read_string(m, Behind(m, 18)) = r.message
  BY <1>1, <1>2, <1>9, ReadStringAt
<1> QED
  BY <1>0, <1>5, <1>7, <1>9, <1>10 DEF parse_create

\* The receiver finds the correlation id of a sample ...
LEMMA MetricsCorr ==
  ASSUME NEW r
  PROVE  Read(serialize_metrics(r), 1, 16) = r.corr
<1> DEFINE m == serialize_metrics(r)
<1>0. m = serialize_metrics(r)
  OBVIOUS
<1> HIDE DEF m
<1>1. IsMessage(m) /\ Len(m) = 6
  BY <1>0, MetricsLayout
<1>2. FieldAt(m, 1, 1, "METRICS_RESPONSE") /\ FieldAt(m, 2, 16, r.corr)
  BY <1>0, MetricsLayout
<1>3. Begins(m, 1, 0)
  <2>1. 1 \in 1 .. Len(m)
    BY <1>1
  <2> QED
    BY <1>1, <2>1, FirstBegins
<1>4. Begins(m, 2, 1)
  <2>1. 1 + 1 \in 1 .. Len(m)
    BY <1>1
  <2>2. Begins(m, 1 + 1, 0 + 1)
    BY <1>1, <1>2, <1>3, <2>1, FieldEnds
  <2> QED
    BY <2>2
<1>5. Read(m, 1, 16) = r.corr
  BY <1>1, <1>2, <1>4, ReadFieldAt
<1> QED
  BY <1>0, <1>5

\* ... and of a snapshot, where it looks for it in every answer.
LEMMA BalancesCorr ==
  ASSUME NEW r, r.accounts = <<>>
  PROVE  Read(serialize_balance_snapshot(r), 1, 16) = r.corr
<1> DEFINE m == serialize_balance_snapshot(r)
<1>0. m = serialize_balance_snapshot(r)
  OBVIOUS
<1> HIDE DEF m
<1>1. IsMessage(m) /\ Len(m) = 7
  BY <1>0, BalancesLayout
<1>2. FieldAt(m, 1, 1, "BALANCE_RESPONSE") /\ FieldAt(m, 2, 16, r.corr)
  BY <1>0, BalancesLayout
<1>3. Begins(m, 1, 0)
  <2>1. 1 \in 1 .. Len(m)
    BY <1>1
  <2> QED
    BY <1>1, <2>1, FirstBegins
<1>4. Begins(m, 2, 1)
  <2>1. 1 + 1 \in 1 .. Len(m)
    BY <1>1
  <2>2. Begins(m, 1 + 1, 0 + 1)
    BY <1>1, <1>2, <1>3, <2>1, FieldEnds
  <2> QED
    BY <2>2
<1>5. Read(m, 1, 16) = r.corr
  BY <1>1, <1>2, <1>4, ReadFieldAt
<1> QED
  BY <1>0, <1>5
==============================================================================
