---------------------------- MODULE Keeper_proofs ------------------------------
(***************************************************************************)
(* Proofs about the checkout session, the keeper and the sweep, for every  *)
(* number of rows, wallets, requests at once, transactions and failures:   *)
(* a stream is bound to the row that paid for it, unless a start of the    *)
(* row was doubled or its hash was lost; one permit pays for one stream;   *)
(* and a row's cap parts from the one paid for in one way only.            *)
(***************************************************************************)
EXTENDS Keeper, TLAPS, FiniteSetTheorems, SequenceTheorems

-----------------------------------------------------------------------------
(* Types.                                                                  *)

Txs == [kind : {"create", "start", "pause", "resume", "cancel", "cancelFor"},
        id : Nat, stream : Nat, row : Rows, cap : Nat, wallet : Wallets \cup {None}, nonce : Nat]

Logs == [event : {"StreamCreated", "Deposited", "StreamStarted", "StreamPaused",
                  "StreamResumed", "StreamCanceled"},
         stream : Nat, tx : Nat]

StreamTypes ==
  [status : {"created", "active", "paused", "canceled"}, row : Rows, cap : Nat, nonce : Nat]

RowTypes ==
  [status : {"none", "incomplete", "active", "paused", "canceled"},
   wallet : Wallets \cup {None}, cap : Nat, nonce : Nat, permits : SUBSET (Nat \X Nat),
   pendingTx : Nat, stream : Nat, funded : BOOLEAN,
   startSubmitted : BOOLEAN, cancelSubmitted : {"never", "lately", "before"}]

-----------------------------------------------------------------------------
(* The inductive invariant. What is on its way is seen as sets: a step     *)
(* that takes, loses or executes a transaction makes them smaller, and the *)
(* order in which they wait matters to nothing that is proved here.        *)

Waiting  == ToSet(mempool)
Arriving == ToSet(logs)

(* A payment is a create that waits or a stream there is; a stream keeps   *)
(* the number of the transaction that paid for it, so that no step but the *)
(* broadcast of a create makes a payment.                                  *)
Payment(id, row, cap) == [id |-> id, row |-> row, cap |-> cap]

Payments ==
  {Payment(tx.id, tx.row, tx.cap) : tx \in {x \in Waiting : x.kind = "create"}}
    \cup {Payment(s, streams[s].row, streams[s].cap) : s \in Made}

ChainTrue ==
  /\ sent \in Nat /\ mempool \in Seq(Txs) /\ logs \in Seq(Logs)
  /\ Made \subseteq 1 .. sent /\ streams \in [Made -> StreamTypes]
  /\ nonces \in [Wallets -> Nat]
  /\ \A tx \in Waiting : tx.id \in 1 .. sent /\ (tx.kind # "create" => tx.stream \in Made)
  /\ \A l \in Arriving : l.stream \in Made /\ l.tx \in 0 .. sent

(* The hash t is that of a create for the row r: what ingest finds by it   *)
(* is r's.                                                                 *)
Owned(t, r) ==
  /\ t \in 1 .. sent
  /\ \A tx \in Waiting : tx.id = t => tx.kind = "create"
  /\ \A p \in Payments : p.id = t => p.row = r
  /\ \A l \in Arriving : l.tx = t => l.stream = t

RowTrue(r) ==
  /\ rows[r].status = "none" => rows[r] = NoRow
  /\ rows[r].status # "none" => rows[r].wallet \in Wallets
  /\ rows[r].startSubmitted \/ rows[r].cancelSubmitted # "never" => rows[r].stream # None
  /\ rows[r].stream # None => rows[r].stream \in Made /\ streams[rows[r].stream].row = r
  /\ rows[r].stream = None /\ rows[r].pendingTx # None => Owned(rows[r].pendingTx, r)

RowsTrue == rows \in [Rows -> RowTypes] /\ \A r \in Rows : RowTrue(r)

InUse(r) == r \in Rows /\ rows[r].status # "none"

SubscriberCall(call) ==
  /\ call.op = "prepare" =>
       /\ call.step \in {"row", "permit"} /\ call.cap \in Nat
       /\ call.row # None => InUse(call.row)
       /\ IF call.step = "row"
          THEN call.wallet \in Wallets /\ (Reuses(call.wallet, call.row) => call.pendingTx = None)
          ELSE call.row # None
  /\ call.op = "start" =>
       /\ call.step \in {"send", "record"} /\ InUse(call.row)
       /\ IF call.step = "send" THEN call.tx \in Txs /\ call.tx.kind = "create" /\ call.tx.row = call.row
          ELSE Owned(call.tx, call.row)

(* A call that acts on a stream.                                           *)
ActsOnStream(tx) == tx \in Txs /\ tx.kind # "create" /\ tx.stream \in Made

KeeperCall(call) ==
  /\ call.op = "cancelFor" => call.step = "send" /\ InUse(call.row) /\ ActsOnStream(call.tx)
  /\ call.op = "keeper" =>
       /\ call.step \in {"send", "stamp"}
       /\ InUse(call.row) /\ rows[call.row].stream # None
       /\ IF call.step = "send" THEN ActsOnStream(call.tx) ELSE call.tx \in Nat \ {0}

CallTrue(call) ==
  /\ call = Idle \/ call.op \in {"prepare", "start", "cancelFor", "keeper"}
  /\ SubscriberCall(call) /\ KeeperCall(call)

CallsTrue == DOMAIN calls = Callers /\ \A c \in Callers : CallTrue(calls[c])

HasStream(r) == InUse(r) /\ rows[r].stream # None

OthersTrue ==
  /\ session \in [status : {"open", "complete"}, subscription : {None} \cup Rows]
  /\ session.subscription # None => InUse(session.subscription)
  /\ sweep \in [due : SUBSET Rows, row : {None} \cup Rows]
  /\ \A r \in sweep.due : HasStream(r)
  /\ sweep.row # None => HasStream(sweep.row)
  /\ faults \in 0 .. MaxFaults /\ troubled \subseteq Rows

StartOf(c, r) == calls[c].op = "start" /\ calls[c].row = r

NoneFor(r) == \A p \in Payments : p.row # r

(* A start on its way is the row's only one.                               *)
StartIsAlone(c, r) ==
  /\ \A d \in Callers : StartOf(d, r) => d = c
  /\ rows[r].pendingTx = None /\ rows[r].stream = None
  /\ calls[c].step = "send" => NoneFor(r)
  /\ calls[c].step = "record" => \A p \in Payments : p.row = r => p.id = calls[c].tx

(* What a row has paid for, where no start was doubled or cut short: one   *)
(* create, whose hash is in its start's hands and then in the row.         *)
OneStart(r) ==
  /\ \A p, q \in Payments : p.row = r /\ q.row = r => p.id = q.id
  /\ \A c \in Callers : StartOf(c, r) => StartIsAlone(c, r)
  /\ (\A c \in Callers : ~StartOf(c, r)) /\ rows[r].pendingTx = None => NoneFor(r)
  /\ rows[r].stream = None /\ rows[r].pendingTx # None =>
       \A p \in Payments : p.row = r => p.id = rows[r].pendingTx

(* A stream is its row's, or the log that says so has yet to arrive.       *)
BoundOrHeard(s) ==
  \/ streams[s].row \in troubled
  \/ rows[streams[s].row].stream = s
  \/ Log("StreamCreated", s, s) \in Arriving

KeeperInv ==
  /\ ChainTrue /\ RowsTrue /\ CallsTrue /\ OthersTrue
  /\ \A r \in Rows \ troubled : OneStart(r)
  /\ \A s \in Made : BoundOrHeard(s)

-----------------------------------------------------------------------------
(* Sequences as sets.                                                      *)

LEMMA SetOfAppend ==
  ASSUME NEW S, NEW s \in Seq(S), NEW e \in S
  PROVE  Append(s, e) \in Seq(S) /\ ToSet(Append(s, e)) = ToSet(s) \cup {e}
  <1>1. /\ Append(s, e) \in Seq(S) /\ DOMAIN Append(s, e) = 1 .. Len(s) + 1
        /\ DOMAIN s = 1 .. Len(s) /\ Len(s) \in Nat
        /\ \A i \in 1 .. Len(s) : Append(s, e)[i] = s[i]
        /\ Append(s, e)[Len(s) + 1] = e
    OBVIOUS
  <1>2. QED
    BY <1>1 DEF ToSet

LEMMA SetOfTail ==
  ASSUME NEW S, NEW s \in Seq(S), s # <<>>
  PROVE  /\ Tail(s) \in Seq(S) /\ Head(s) \in ToSet(s)
         /\ ToSet(s) = {Head(s)} \cup ToSet(Tail(s))
  <1>1. /\ Tail(s) \in Seq(S) /\ DOMAIN Tail(s) = 1 .. Len(s) - 1
        /\ DOMAIN s = 1 .. Len(s) /\ Len(s) \in Nat \ {0} /\ Head(s) = s[1]
        /\ \A i \in 1 .. Len(s) - 1 : Tail(s)[i] = s[i + 1]
    OBVIOUS
  <1>2. ASSUME NEW i \in 1 .. Len(s), i # 1
        PROVE  i - 1 \in 1 .. Len(s) - 1 /\ s[i] = Tail(s)[i - 1]
    <2>1. i - 1 \in 1 .. Len(s) - 1 /\ (i - 1) + 1 = i
      BY <1>1, <1>2
    <2>2. QED
      BY <1>1, <2>1
  <1>3. \A i \in 1 .. Len(s) - 1 : i + 1 \in 1 .. Len(s)
    BY <1>1
  <1>4. 1 \in 1 .. Len(s)
    BY <1>1
  <1> DEFINE t == Tail(s)
             n == Len(s) - 1
             m == Len(s)
             h == Head(s)
  <1>5. /\ DOMAIN t = 1 .. n /\ DOMAIN s = 1 .. m /\ h = s[1] /\ 1 \in 1 .. m
        /\ \A i \in 1 .. n : t[i] = s[i + 1] /\ i + 1 \in 1 .. m
        /\ \A i \in 1 .. m : i = 1 \/ (i - 1 \in 1 .. n /\ s[i] = t[i - 1])
    BY <1>1, <1>2, <1>3, <1>4
  <1> HIDE DEF t, n, m, h
  <1>6. ToSet(s) = {h} \cup ToSet(t) /\ h \in ToSet(s)
    BY <1>5 DEF ToSet
  <1>7. QED
    BY <1>1, <1>6 DEF t, h

LEMMA SetOfRest ==
  ASSUME NEW S, NEW s \in Seq(S), NEW i \in 1 .. Len(s)
  PROVE  RemoveAt(s, i) \in Seq(S) /\ ToSet(RemoveAt(s, i)) \subseteq ToSet(s)
  <1> DEFINE a == SubSeq(s, 1, i - 1)
             b == SubSeq(s, i + 1, Len(s))
  <1>1. /\ a \in Seq(S) /\ Len(a) = i - 1
        /\ \A j \in 1 .. i - 1 : a[j] = s[j]
    BY SubSeqProperties
  <1>2. /\ b \in Seq(S) /\ Len(b) = Len(s) - i
        /\ \A j \in 1 .. Len(s) - i : b[j] = s[i + j]
    BY SubSeqProperties
  <1>3. RemoveAt(s, i) = a \o b
    BY DEF RemoveAt
  <1> HIDE DEF a, b
  <1>4. /\ a \o b \in Seq(S) /\ DOMAIN (a \o b) = 1 .. Len(s) - 1
        /\ \A j \in 1 .. Len(s) - 1 : (a \o b)[j] \in {s[j], s[j + 1]}
    BY <1>1, <1>2
  <1>5. \A j \in 1 .. Len(s) - 1 : j \in DOMAIN s /\ j + 1 \in DOMAIN s
    OBVIOUS
  <1>6. \A j \in DOMAIN (a \o b) : (a \o b)[j] \in ToSet(s)
    BY <1>4, <1>5 DEF ToSet
  <1>7. QED
    BY <1>3, <1>4, <1>6 DEF ToSet

LEMMA SetOfBoth ==
  ASSUME NEW S, NEW s \in Seq(S), NEW t \in Seq(S)
  PROVE  s \o t \in Seq(S) /\ ToSet(s \o t) = ToSet(s) \cup ToSet(t)
  <1>1. /\ s \o t \in Seq(S) /\ DOMAIN (s \o t) = 1 .. Len(s) + Len(t)
        /\ DOMAIN s = 1 .. Len(s) /\ DOMAIN t = 1 .. Len(t) /\ Len(s) \in Nat /\ Len(t) \in Nat
        /\ \A i \in 1 .. Len(s) + Len(t) :
             (s \o t)[i] = IF i <= Len(s) THEN s[i] ELSE t[i - Len(s)]
    OBVIOUS
  <1>2. \A j \in 1 .. Len(t) : Len(s) + j \in 1 .. Len(s) + Len(t) /\ (s \o t)[Len(s) + j] = t[j]
    BY <1>1
  <1>3. \A i \in 1 .. Len(s) + Len(t) :
          \/ i \in 1 .. Len(s) /\ (s \o t)[i] = s[i]
          \/ i - Len(s) \in 1 .. Len(t) /\ (s \o t)[i] = t[i - Len(s)]
    BY <1>1
  <1>4. \A i \in 1 .. Len(s) : i \in 1 .. Len(s) + Len(t) /\ (s \o t)[i] = s[i]
    BY <1>1
  <1> DEFINE u == s \o t
             n == Len(s)
             m == Len(t)
  <1>5. /\ DOMAIN u = 1 .. n + m /\ DOMAIN s = 1 .. n /\ DOMAIN t = 1 .. m
        /\ \A j \in 1 .. m : n + j \in 1 .. n + m /\ u[n + j] = t[j]
        /\ \A i \in 1 .. n : i \in 1 .. n + m /\ u[i] = s[i]
        /\ \A i \in 1 .. n + m :
             (i \in 1 .. n /\ u[i] = s[i]) \/ (i - n \in 1 .. m /\ u[i] = t[i - n])
    BY <1>1, <1>2, <1>3, <1>4
  <1> HIDE DEF u, n, m
  <1>6. /\ ToSet(u) = {u[i] : i \in 1 .. n + m}
        /\ ToSet(s) = {s[i] : i \in 1 .. n} /\ ToSet(t) = {t[i] : i \in 1 .. m}
    BY <1>5 DEF ToSet
  <1>8. ToSet(u) \subseteq ToSet(s) \cup ToSet(t)
    BY <1>5, <1>6
  <1>9. ToSet(s) \cup ToSet(t) \subseteq ToSet(u)
    BY <1>5, <1>6
  <1>7. QED
    BY <1>1, <1>8, <1>9 DEF u

-----------------------------------------------------------------------------
(* Payments.                                                               *)

LEMMA PaymentIs ==
  ASSUME NEW p
  PROVE  p \in Payments <=>
           \/ \E tx \in Waiting : tx.kind = "create" /\ p = Payment(tx.id, tx.row, tx.cap)
           \/ \E s \in Made : p = Payment(s, streams[s].row, streams[s].cap)
  BY DEF Payments

LEMMA PaymentType ==
  ASSUME ChainTrue, NEW p \in Payments
  PROVE  p.id \in 1 .. sent /\ p.row \in Rows /\ p.cap \in Nat
  <1>1. ASSUME NEW tx \in Waiting
        PROVE  tx \in Txs /\ tx.id \in 1 .. sent
    <2>1. \A i \in DOMAIN mempool : mempool[i] \in Txs
      BY DEF ChainTrue
    <2>2. QED
      BY <2>1 DEF ChainTrue, Waiting, ToSet
  <1>2. ASSUME NEW s \in Made
        PROVE  s \in 1 .. sent /\ streams[s] \in StreamTypes
    BY DEF ChainTrue
  <1>3. CASE \E tx \in Waiting : tx.kind = "create" /\ p = Payment(tx.id, tx.row, tx.cap)
    BY <1>1, <1>3 DEF Payment, Txs
  <1>4. CASE \E s \in Made : p = Payment(s, streams[s].row, streams[s].cap)
    BY <1>2, <1>4 DEF Payment, StreamTypes
  <1>5. QED
    BY <1>3, <1>4, PaymentIs

LEMMA WaitingType ==
  ASSUME ChainTrue
  PROVE  /\ \A tx \in Waiting : tx \in Txs /\ tx.id \in 1 .. sent
         /\ \A l \in Arriving : l \in Logs /\ l.stream \in Made /\ l.tx \in 0 .. sent
  <1>1. /\ \A i \in DOMAIN mempool : mempool[i] \in Txs
        /\ \A i \in DOMAIN logs : logs[i] \in Logs
    BY DEF ChainTrue
  <1>2. QED
    BY <1>1 DEF ChainTrue, Waiting, Arriving, ToSet

-----------------------------------------------------------------------------
(* What every step does to the chain.                                      *)

StreamsStay == Made \subseteq Made' /\ \A s \in Made : streams'[s].row = streams[s].row

ChainMoves ==
  /\ ChainTrue' /\ sent' \in Nat /\ sent <= sent'
  /\ StreamsStay
  /\ \A tx \in Waiting' : tx \in Waiting \/ tx.id = sent + 1
  /\ \A p \in Payments' : p \in Payments \/ p.id = sent + 1
  /\ \A l \in Arriving' :
       \/ l \in Arriving \/ l.tx = None \/ l.tx = l.stream
       \/ \E tx \in Waiting : tx.kind # "create" /\ tx.id = l.tx

LEMMA ChainRests ==
  ASSUME ChainTrue, UNCHANGED chain
  PROVE  ChainMoves /\ Payments' = Payments /\ Arriving' = Arriving
  <1>1. UNCHANGED <<Payments, Waiting, Arriving, Made>> /\ sent' = sent /\ streams' = streams
    BY DEF chain, Payments, Waiting, Arriving, Made
  <1>2. ChainTrue'
    BY <1>1 DEF ChainTrue, chain
  <1>3. sent \in Nat
    BY DEF ChainTrue
  <1>4. QED
    BY <1>1, <1>2, <1>3 DEF ChainMoves, StreamsStay

LEMMA OwnedStays ==
  ASSUME ChainTrue, ChainMoves, NEW t, NEW r, Owned(t, r)
  PROVE  Owned(t, r)'
  <1>1. sent \in Nat /\ sent' \in Nat /\ sent <= sent' /\ t \in 1 .. sent
    BY DEF ChainTrue, ChainMoves, Owned
  <1>2. t \in 1 .. sent' /\ t # sent + 1 /\ t # None
    BY <1>1 DEF None
  <1>3. \A tx \in Waiting' : tx.id = t => tx.kind = "create"
    BY <1>2 DEF ChainMoves, Owned
  <1>4. \A p \in Payments' : p.id = t => p.row = r
    BY <1>2 DEF ChainMoves, Owned
  <1>5. \A l \in Arriving' : l.tx = t => l.stream = t
    BY <1>2 DEF ChainMoves, Owned
  <1>6. QED
    BY <1>2, <1>3, <1>4, <1>5 DEF Owned

-----------------------------------------------------------------------------
(* What stays true of a row, a request or a stream no step touches.        *)

LEMMA RowStays ==
  ASSUME ChainTrue, ChainMoves, NEW r \in Rows, RowTrue(r), rows'[r] = rows[r]
  PROVE  RowTrue(r)'
  <1>1. PICK row : row = rows[r]
    OBVIOUS
  <1>2. row.stream # None => row.stream \in Made' /\ streams'[row.stream].row = r
    BY <1>1 DEF RowTrue, ChainMoves, StreamsStay
  <1>3. row.stream = None /\ row.pendingTx # None => Owned(row.pendingTx, r)'
    <2>1. PICK t : t = row.pendingTx
      OBVIOUS
    <2>2. Owned(t, r) => Owned(t, r)'
      BY OwnedStays
    <2>3. row.stream = None /\ t # None => Owned(t, r)
      BY <1>1, <2>1 DEF RowTrue
    <2>4. QED
      BY <2>1, <2>2, <2>3
  <1>4. /\ row.status = "none" => row = NoRow
        /\ row.status # "none" => row.wallet \in Wallets
        /\ row.startSubmitted \/ row.cancelSubmitted # "never" => row.stream # None
    BY <1>1 DEF RowTrue
  <1>5. rows'[r] = row
    BY <1>1
  <1>6. QED
    BY <1>2, <1>3, <1>4, <1>5 DEF RowTrue

RowsLast ==
  \A q \in Rows : /\ rows[q].status # "none" =>
                       rows'[q].status # "none" /\ rows'[q].wallet = rows[q].wallet
                  /\ rows[q].stream # None => rows'[q].stream # None

LEMMA CallStays ==
  ASSUME ChainTrue, ChainMoves, RowsLast, NEW call, CallTrue(call)
  PROVE  CallTrue(call)'
  <1>1. \A q : InUse(q) => InUse(q)'
    BY DEF RowsLast, InUse
  <1>2. \A q : InUse(q) /\ rows[q].stream # None => rows'[q].stream # None
    BY DEF RowsLast, InUse
  <1>3. \A tx : ActsOnStream(tx) => ActsOnStream(tx)'
    BY DEF ActsOnStream, ChainMoves, StreamsStay
  <1>4. call.op = "start" /\ call.step # "send" => Owned(call.tx, call.row)'
    <2>1. call.op = "start" /\ call.step # "send" => Owned(call.tx, call.row)
      BY DEF CallTrue, SubscriberCall
    <2>2. QED
      BY <2>1, OwnedStays
  <1>8. call.op = "prepare" /\ Reuses(call.wallet, call.row)' => Reuses(call.wallet, call.row)
    BY DEF CallTrue, SubscriberCall, RowsLast, InUse, Reuses
  <1>5. SubscriberCall(call)'
    BY <1>1, <1>4, <1>8 DEF CallTrue, SubscriberCall
  <1>6. KeeperCall(call)'
    BY <1>1, <1>2, <1>3 DEF CallTrue, KeeperCall
  <1>7. QED
    BY <1>5, <1>6 DEF CallTrue

LEMMA OthersStay ==
  ASSUME OthersTrue, RowsLast, UNCHANGED <<session, sweep>>,
         faults' \in 0 .. MaxFaults, troubled' \subseteq Rows
  PROVE  OthersTrue'
  <1>1. \A q : InUse(q) => InUse(q)'
    BY DEF RowsLast, InUse
  <1>2. \A q : HasStream(q) => HasStream(q)'
    BY <1>1 DEF RowsLast, InUse, HasStream
  <1>3. QED
    BY <1>1, <1>2 DEF OthersTrue

LEMMA OneStartStays ==
  ASSUME NEW r \in Rows, OneStart(r), DOMAIN calls = Callers,
         \A p \in Payments' : p \in Payments \/ p.row # r,
         rows'[r].pendingTx = rows[r].pendingTx, rows'[r].stream = rows[r].stream,
         \A c \in Callers : \/ calls'[c] = calls[c]
                            \/ ~StartOf(c, r) /\ ~StartOf(c, r)'
  PROVE  OneStart(r)'
  <1>1. NoneFor(r) => NoneFor(r)'
    BY DEF NoneFor
  <1>2. \A c \in Callers : StartOf(c, r)' <=> StartOf(c, r)
    BY DEF StartOf
  <1>3. ASSUME NEW c \in Callers, StartOf(c, r)'
        PROVE  StartIsAlone(c, r)'
    <2>1. StartIsAlone(c, r) /\ calls'[c] = calls[c]
      BY <1>2, <1>3 DEF OneStart
    <2>2. QED
      BY <1>1, <1>2, <2>1 DEF StartIsAlone
  <1>4. QED
    BY <1>1, <1>2, <1>3 DEF OneStart

LEMMA BoundStays ==
  ASSUME NEW s \in Made, BoundOrHeard(s), streams'[s].row = streams[s].row,
         streams[s].row \in Rows, troubled \subseteq troubled',
         \A q \in Rows : rows[q].stream # None => rows'[q].stream = rows[q].stream,
         s # None,
         Log("StreamCreated", s, s) \in Arriving => Log("StreamCreated", s, s) \in Arriving'
  PROVE  BoundOrHeard(s)'
  BY DEF BoundOrHeard

(* What a step has to show: of the rows and requests it changes, that they *)
(* are true, of every row, that it still pays once, and of a stream it     *)
(* makes or a log it takes, that the stream is bound.                      *)
LEMMA StepKeepsInv ==
  ASSUME KeeperInv, ChainMoves, OthersTrue', RowsLast, rows' \in [Rows -> RowTypes],
         \A q \in Rows : rows'[q] = rows[q] \/ RowTrue(q)',
         DOMAIN calls' = Callers,
         \A c \in Callers : calls'[c] = calls[c] \/ CallTrue(calls[c])',
         \A r \in Rows \ troubled' : OneStart(r)',
         troubled \subseteq troubled',
         \A q \in Rows : rows[q].stream # None => rows'[q].stream = rows[q].stream,
         \A s \in Made' :
           \/ /\ s \in Made
              /\ Log("StreamCreated", s, s) \in Arriving => Log("StreamCreated", s, s) \in Arriving'
           \/ BoundOrHeard(s)'
  PROVE  KeeperInv'
  <1>1. ChainTrue' /\ ChainTrue
    BY DEF KeeperInv, ChainMoves
  <1>2. ASSUME NEW q \in Rows
        PROVE  RowTrue(q)'
    BY <1>1, RowStays DEF KeeperInv, RowsTrue
  <1>3. ASSUME NEW c \in Callers
        PROVE  CallTrue(calls[c])'
    <2>1. PICK call : call = calls[c]
      OBVIOUS
    <2>2. CallTrue(call)
      BY <2>1 DEF KeeperInv, CallsTrue
    <2>3. CallTrue(call)'
      BY <1>1, <2>2, CallStays
    <2>4. CASE calls'[c] = calls[c]
      <3>1. calls'[c] = call
        BY <2>1, <2>4
      <3>2. QED
        BY <2>3, <3>1 DEF CallTrue
    <2>5. QED
      BY <2>4
  <1>4. ASSUME NEW s \in Made'
        PROVE  BoundOrHeard(s)'
    <2>1. CASE /\ s \in Made
               /\ Log("StreamCreated", s, s) \in Arriving => Log("StreamCreated", s, s) \in Arriving'
      <3>1. streams'[s].row = streams[s].row /\ BoundOrHeard(s)
        BY <2>1 DEF ChainMoves, StreamsStay, KeeperInv
      <3>2. streams[s] \in StreamTypes /\ s \in 1 .. sent /\ sent \in Nat
        BY <1>1, <2>1 DEF ChainTrue
      <3>3. streams[s].row \in Rows /\ s # None
        BY <3>2 DEF StreamTypes, None
      <3>4. QED
        BY <2>1, <3>1, <3>3, BoundStays
    <2>2. QED
      BY <2>1
  <1>5. RowsTrue' /\ CallsTrue'
    BY <1>2, <1>3 DEF RowsTrue, CallsTrue
  <1>6. QED
    BY <1>1, <1>4, <1>5 DEF KeeperInv

(* The same for a step that leaves the rows and their payments alone.      *)
LEMMA RequestKeepsInv ==
  ASSUME KeeperInv, ChainMoves, OthersTrue', UNCHANGED rows, Payments' \subseteq Payments,
         DOMAIN calls' = Callers, troubled \subseteq troubled',
         \A c \in Callers : \/ calls'[c] = calls[c]
                            \/ CallTrue(calls[c])' /\ calls[c].op # "start" /\ calls'[c].op # "start",
         Arriving \subseteq Arriving',
         \A s \in Made' : s \in Made \/ Log("StreamCreated", s, s) \in Arriving'
  PROVE  KeeperInv'
  <1>1. RowsLast /\ rows' \in [Rows -> RowTypes]
    BY DEF RowsLast, KeeperInv, RowsTrue
  <1>2. ASSUME NEW r \in Rows \ troubled'
        PROVE  OneStart(r)'
    <2>1. OneStart(r) /\ DOMAIN calls = Callers
      BY DEF KeeperInv, CallsTrue
    <2>2. \A c \in Callers : calls'[c] = calls[c] \/ (~StartOf(c, r) /\ ~StartOf(c, r)')
      BY DEF StartOf
    <2>3. QED
      BY <2>1, <2>2, OneStartStays
  <1>3. \A s \in Made' :
           \/ /\ s \in Made
              /\ Log("StreamCreated", s, s) \in Arriving => Log("StreamCreated", s, s) \in Arriving'
           \/ BoundOrHeard(s)'
    BY DEF BoundOrHeard
  <1>4. QED
    BY <1>1, <1>2, <1>3, StepKeepsInv

-----------------------------------------------------------------------------
(* Steps of the chain.                                                     *)

LEMMA ChainStepKeepsInv ==
  ASSUME KeeperInv, ChainMoves, UNCHANGED <<requestVars, sweep>>, sent' = sent,
         faults' \in 0 .. MaxFaults, Payments' \subseteq Payments, Arriving \subseteq Arriving',
         \A s \in Made' : s \in Made \/ Log("StreamCreated", s, s) \in Arriving'
  PROVE  KeeperInv'
  <1>1. UNCHANGED <<session, rows, calls, troubled, sweep>>
    BY DEF requestVars
  <1>2. RowsLast /\ OthersTrue /\ DOMAIN calls' = Callers /\ troubled' \subseteq Rows
    BY <1>1 DEF KeeperInv, RowsLast, CallsTrue, OthersTrue
  <1>3. OthersTrue'
    BY <1>1, <1>2, OthersStay
  <1>4. QED
    BY <1>1, <1>2, <1>3, RequestKeepsInv

(* The chain goes on: nothing is broadcast and no payment is made.         *)
GoesOn ==
  /\ ChainMoves /\ Payments' \subseteq Payments /\ sent' = sent /\ Arriving \subseteq Arriving'
  /\ \A s \in Made' : s \in Made \/ Log("StreamCreated", s, s) \in Arriving'

(* The mempool loses some of what waits.                                   *)
LEMMA WaitingShrinks ==
  ASSUME ChainTrue, mempool' \in Seq(Txs), Waiting' \subseteq Waiting, sent' = sent,
         logs' \in Seq(Logs), nonces' \in [Wallets -> Nat],
         Made \subseteq Made', streams' \in [Made' -> StreamTypes],
         \A s \in Made : streams'[s].row = streams[s].row /\ streams'[s].cap = streams[s].cap,
         \A s \in Made' : \/ s \in Made
                          \/ \E tx \in Waiting : /\ tx.kind = "create" /\ tx.id = s
                                                 /\ streams'[s].row = tx.row /\ streams'[s].cap = tx.cap,
         \A l \in Arriving' :
           \/ l \in Arriving
           \/ l.stream \in Made' /\ l.tx = None
           \/ l.stream \in Made' /\ l.tx = l.stream
           \/ /\ l.stream \in Made'
              /\ \E tx \in Waiting : tx.kind # "create" /\ tx.id = l.tx
  PROVE  ChainMoves /\ Payments' \subseteq Payments
  <1>1. sent \in Nat /\ \A tx \in Waiting : tx.id \in 1 .. sent
    BY DEF ChainTrue
  <1>2. ASSUME NEW s \in Made'
        PROVE  s \in 1 .. sent
    <2>1. s \in Made => s \in 1 .. sent
      BY DEF ChainTrue
    <2>2. (\E tx \in Waiting : tx.id = s) => s \in 1 .. sent
      BY <1>1
    <2>3. QED
      BY <2>1, <2>2
  <1>3. \A l \in Arriving' : l.stream \in Made' /\ l.tx \in 0 .. sent
    <2>1. ASSUME NEW l \in Arriving'
          PROVE  l.stream \in Made' /\ l.tx \in 0 .. sent
      <3>1. l \in Arriving => l.stream \in Made' /\ l.tx \in 0 .. sent
        BY DEF ChainTrue
      <3>2. ASSUME l.stream \in Made', l.tx = l.stream
            PROVE  l.tx \in 0 .. sent
        <4>1. l.stream \in 1 .. sent /\ sent \in Nat
          BY <1>1, <1>2, <3>2
        <4>2. QED
          BY <3>2, <4>1
      <3>3. l.tx = None => l.tx \in 0 .. sent
        BY <1>1 DEF None
      <3>4. (\E tx \in Waiting : tx.kind # "create" /\ tx.id = l.tx) => l.tx \in 0 .. sent
        BY <1>1
      <3>5. QED
        BY <3>1, <3>2, <3>3, <3>4
    <2>2. QED
      BY <2>1
  <1>4. \A tx \in Waiting' : tx.id \in 1 .. sent /\ (tx.kind # "create" => tx.stream \in Made')
    BY DEF ChainTrue
  <1>5. ChainTrue'
    BY <1>1, <1>2, <1>3, <1>4 DEF ChainTrue
  <1>6. ASSUME NEW p \in Payments'
        PROVE  p \in Payments
    <2>1. CASE \E tx \in Waiting' : tx.kind = "create" /\ p = Payment(tx.id, tx.row, tx.cap)
      BY <2>1, PaymentIs
    <2>2. CASE \E s \in Made' : p = Payment(s, streams'[s].row, streams'[s].cap)
      <3>1. PICK s \in Made' : p = Payment(s, streams'[s].row, streams'[s].cap)
        BY <2>2
      <3>2. CASE s \in Made
        BY <3>1, <3>2, PaymentIs
      <3>3. CASE s \notin Made
        <4>1. PICK tx \in Waiting : /\ tx.kind = "create" /\ tx.id = s
                                    /\ streams'[s].row = tx.row /\ streams'[s].cap = tx.cap
          BY <3>3
        <4>2. QED
          BY <3>1, <4>1, PaymentIs
      <3>4. QED
        BY <3>2, <3>3
    <2>3. \/ \E tx \in Waiting' : tx.kind = "create" /\ p = Payment(tx.id, tx.row, tx.cap)
          \/ \E s \in Made' : p = Payment(s, streams'[s].row, streams'[s].cap)
      BY DEF Payments
    <2>4. QED
      BY <2>1, <2>2, <2>3
  <1>7. StreamsStay
    BY DEF StreamsStay
  <1>8. QED
    BY <1>1, <1>5, <1>6, <1>7 DEF ChainMoves

LEMMA ChainType ==
  ASSUME ChainTrue
  PROVE  /\ sent \in Nat /\ mempool \in Seq(Txs) /\ logs \in Seq(Logs)
         /\ streams \in [Made -> StreamTypes] /\ nonces \in [Wallets -> Nat]
         /\ \A s \in Made : s \in 1 .. sent
  BY DEF ChainTrue

LEMMA DropGoesOn ==
  ASSUME KeeperInv, NEW i \in 1 .. Len(mempool), Drop(i)
  PROVE  GoesOn
  <1>1. ChainTrue
    BY DEF KeeperInv
  <1>2. mempool' \in Seq(Txs) /\ Waiting' \subseteq Waiting
    <2>1. PICK pool : pool = mempool
      OBVIOUS
    <2>2. pool \in Seq(Txs) /\ i \in 1 .. Len(pool) /\ mempool' = RemoveAt(pool, i)
      BY <1>1, <2>1, ChainType DEF Drop
    <2>3. RemoveAt(pool, i) \in Seq(Txs) /\ ToSet(RemoveAt(pool, i)) \subseteq ToSet(pool)
      BY <2>2, SetOfRest
    <2>4. QED
      BY <2>1, <2>2, <2>3 DEF Waiting
  <1>3. UNCHANGED <<sent, streams, nonces, logs>> /\ UNCHANGED <<Made, Arriving>>
    BY DEF Drop, Made, Arriving
  <1>4. ChainMoves /\ Payments' \subseteq Payments
    BY <1>1, <1>2, <1>3, WaitingShrinks, ChainType
  <1>5. QED
    BY <1>3, <1>4 DEF GoesOn

(* A log is added for a stream; the streams keep what they were made for.  *)
LEMMA StatusMoves ==
  ASSUME ChainTrue, NEW s \in Made, NEW status \in {"created", "active", "paused", "canceled"},
         NEW l \in Logs, l.stream = s,
         \/ l.tx = None
         \/ \E tx \in Waiting : tx.kind # "create" /\ tx.id = l.tx,
         streams' = [streams EXCEPT ![s].status = status], logs' = Append(logs, l),
         mempool' \in Seq(Txs), Waiting' \subseteq Waiting, UNCHANGED <<sent, nonces>>
  PROVE  /\ ChainMoves /\ Payments' \subseteq Payments
         /\ Arriving \subseteq Arriving' /\ Made' = Made
  <1>1. streams \in [Made -> StreamTypes] /\ logs \in Seq(Logs) /\ nonces \in [Wallets -> Nat]
    BY ChainType
  <1> DEFINE it == [streams[s] EXCEPT !.status = status]
  <1>2. streams[s] \in StreamTypes
    BY <1>1
  <1>3. it \in StreamTypes /\ it.row = streams[s].row /\ it.cap = streams[s].cap
    BY <1>2 DEF StreamTypes
  <1>4. streams' = [streams EXCEPT ![s] = it]
    BY <1>1
  <1> HIDE DEF it
  <1>5. /\ Made' = Made /\ streams' \in [Made' -> StreamTypes]
        /\ \A q \in Made : streams'[q] = IF q = s THEN it ELSE streams[q]
    BY <1>1, <1>3, <1>4 DEF Made
  <1>6. logs' \in Seq(Logs) /\ Arriving' = Arriving \cup {l}
    <2>1. PICK old : old = logs
      OBVIOUS
    <2>2. Append(old, l) \in Seq(Logs) /\ ToSet(Append(old, l)) = ToSet(old) \cup {l}
      BY <1>1, <2>1, SetOfAppend
    <2>3. QED
      BY <2>1, <2>2 DEF Arriving
  <1>7. \A q \in Made : streams'[q].row = streams[q].row /\ streams'[q].cap = streams[q].cap
    BY <1>3, <1>5
  <1>8. QED
    BY <1>1, <1>5, <1>6, <1>7, WaitingShrinks

LEMMA EndGoesOn ==
  ASSUME KeeperInv, NEW s \in Made, EndAtCap(s)
  PROVE  GoesOn
  <1>1. ChainTrue /\ s \in Nat
    BY ChainType DEF KeeperInv
  <1> DEFINE l == Log("StreamCanceled", s, None)
  <1>2. l \in Logs /\ l.stream = s /\ l.tx = None
    BY <1>1 DEF Log, Logs, None
  <1>3. /\ UNCHANGED <<sent, nonces, mempool, faults>> /\ Waiting' = Waiting
        /\ logs' = Append(logs, l) /\ streams' = [streams EXCEPT ![s].status = "canceled"]
    BY DEF EndAtCap, Waiting
  <1> HIDE DEF l
  <1>4. mempool' \in Seq(Txs)
    BY <1>1, <1>3, ChainType
  <1>5. /\ ChainMoves /\ Payments' \subseteq Payments
        /\ Arriving \subseteq Arriving' /\ Made' = Made
    BY <1>1, <1>2, <1>3, <1>4, StatusMoves
  <1>6. QED
    BY <1>3, <1>5 DEF GoesOn

(* What a block takes from the mempool.                                    *)
LEMMA MineTakes ==
  ASSUME ChainTrue, Mine, NEW tx, tx = Head(mempool)
  PROVE  /\ tx \in Waiting /\ tx \in Txs /\ tx.id \in 1 .. sent
         /\ tx.kind # "create" => tx.stream \in Made
         /\ mempool' \in Seq(Txs) /\ Waiting' \subseteq Waiting
         /\ UNCHANGED <<sent, faults>>
  <1>1. mempool \in Seq(Txs) /\ mempool # <<>> /\ mempool' = Tail(mempool)
    BY ChainType DEF Mine
  <1>2. /\ Tail(mempool) \in Seq(Txs) /\ tx \in Waiting
        /\ Waiting = {tx} \cup ToSet(Tail(mempool))
    <2>1. PICK pool : pool = mempool
      OBVIOUS
    <2>2. /\ Tail(pool) \in Seq(Txs) /\ Head(pool) \in ToSet(pool)
          /\ ToSet(pool) = {Head(pool)} \cup ToSet(Tail(pool))
      BY <1>1, <2>1, SetOfTail
    <2>3. QED
      BY <2>1, <2>2 DEF Waiting
  <1>3. Waiting' \subseteq Waiting
    BY <1>1, <1>2 DEF Waiting
  <1>4. tx \in Txs /\ tx.id \in 1 .. sent /\ (tx.kind # "create" => tx.stream \in Made)
    BY <1>2, WaitingType DEF ChainTrue
  <1>5. QED
    BY <1>1, <1>2, <1>3, <1>4 DEF Mine

LEMMA RevertGoesOn ==
  ASSUME KeeperInv, Mine, UNCHANGED <<streams, nonces, logs>>
  PROVE  GoesOn
  <1>1. ChainTrue
    BY DEF KeeperInv
  <1>2. PICK tx : tx = Head(mempool)
    OBVIOUS
  <1>3. mempool' \in Seq(Txs) /\ Waiting' \subseteq Waiting /\ UNCHANGED <<sent, faults>>
    BY <1>1, <1>2, MineTakes
  <1>4. UNCHANGED <<Made, Arriving>>
    BY DEF Made, Arriving
  <1>5. ChainMoves /\ Payments' \subseteq Payments
    BY <1>1, <1>3, <1>4, WaitingShrinks, ChainType
  <1>6. QED
    BY <1>3, <1>4, <1>5 DEF GoesOn

LEMMA ActGoesOn ==
  ASSUME KeeperInv, Mine, Accepts(Head(mempool)), Head(mempool).kind # "create"
  PROVE  GoesOn
  <1>1. ChainTrue
    BY DEF KeeperInv
  <1>2. PICK tx : tx = Head(mempool)
    OBVIOUS
  <1>3. /\ tx \in Waiting /\ tx \in Txs /\ tx.id \in 1 .. sent /\ tx.stream \in Made
        /\ tx.kind # "create"
        /\ mempool' \in Seq(Txs) /\ Waiting' \subseteq Waiting /\ UNCHANGED <<sent, faults>>
    BY <1>1, <1>2, MineTakes
  <1>4. ActOnStream(tx)
    BY <1>2 DEF Mine
  <1> DEFINE l == Log(EventOf(tx.kind), tx.stream, tx.id)
             status == StatusAfter(tx.kind)
  <1>5. l \in Logs /\ l.stream = tx.stream /\ l.tx = tx.id
    BY <1>3 DEF Log, Logs, EventOf, Txs
  <1>6. status \in {"created", "active", "paused", "canceled"}
    BY DEF StatusAfter
  <1>7. /\ streams' = [streams EXCEPT ![tx.stream].status = status]
        /\ logs' = Append(logs, l) /\ UNCHANGED nonces
    BY <1>4 DEF ActOnStream
  <1> HIDE DEF l, status
  <1>8. /\ ChainMoves /\ Payments' \subseteq Payments
        /\ Arriving \subseteq Arriving' /\ Made' = Made
    BY <1>1, <1>3, <1>5, <1>6, <1>7, StatusMoves
  <1>9. QED
    BY <1>3, <1>8 DEF GoesOn

(* The logs of a new stream, in both modes.                                *)
Born(t) ==
  {Log("StreamCreated", t, t), Log("Deposited", t, t), Log("StreamStarted", t, t)}

LEMMA BornLogs ==
  ASSUME ChainTrue, NEW tx \in Txs, MakeStream(tx)
  PROVE  /\ logs' \in Seq(Logs) /\ Arriving \subseteq Arriving'
         /\ Arriving' \subseteq Arriving \cup Born(tx.id)
         /\ Log("StreamCreated", tx.id, tx.id) \in Arriving'
  <1> DEFINE born == <<Log("StreamCreated", tx.id, tx.id), Log("Deposited", tx.id, tx.id)>>
             last == IF startMode = "merchant" THEN <<>> ELSE <<Log("StreamStarted", tx.id, tx.id)>>
  <1>1. PICK old : old = logs
    OBVIOUS
  <1>2. logs' = old \o born \o last
    BY <1>1 DEF MakeStream
  <1>3. tx.id \in Nat /\ Born(tx.id) \subseteq Logs
    BY DEF Txs, Born, Log, Logs
  <1>4. /\ born \in Seq(Logs)
        /\ ToSet(born) = {Log("StreamCreated", tx.id, tx.id), Log("Deposited", tx.id, tx.id)}
    BY <1>3 DEF ToSet, Born
  <1>5. last \in Seq(Logs) /\ ToSet(last) \subseteq {Log("StreamStarted", tx.id, tx.id)}
    BY <1>3 DEF ToSet, Born
  <1> HIDE DEF born, last
  <1>6. old \in Seq(Logs)
    BY <1>1, ChainType
  <1>7. old \o born \in Seq(Logs) /\ ToSet(old \o born) = ToSet(old) \cup ToSet(born)
    BY <1>4, <1>6, SetOfBoth
  <1>8. /\ (old \o born) \o last \in Seq(Logs)
        /\ ToSet((old \o born) \o last) = ToSet(old \o born) \cup ToSet(last)
    <2>1. PICK mid : mid = old \o born
      OBVIOUS
    <2>2. mid \in Seq(Logs)
      BY <1>7, <2>1
    <2>3. last \in Seq(Logs)
      BY <1>5
    <2>4. mid \o last \in Seq(Logs) /\ ToSet(mid \o last) = ToSet(mid) \cup ToSet(last)
      BY <2>2, <2>3, SetOfBoth
    <2>5. QED
      BY <2>1, <2>4
  <1>9. Arriving' = ToSet(old) \cup ToSet(born) \cup ToSet(last) /\ Arriving = ToSet(old)
    BY <1>1, <1>2, <1>7, <1>8 DEF Arriving
  <1>10. QED
    BY <1>2, <1>4, <1>5, <1>8, <1>9 DEF Born

LEMMA MakeGoesOn ==
  ASSUME KeeperInv, Mine, Accepts(Head(mempool)), Head(mempool).kind = "create"
  PROVE  GoesOn
  <1>1. ChainTrue
    BY DEF KeeperInv
  <1>2. PICK tx : tx = Head(mempool)
    OBVIOUS
  <1>3. /\ tx \in Waiting /\ tx \in Txs /\ tx.id \in 1 .. sent /\ tx.kind = "create"
        /\ mempool' \in Seq(Txs) /\ Waiting' \subseteq Waiting /\ UNCHANGED <<sent, faults>>
    BY <1>1, <1>2, MineTakes
  <1>4. MakeStream(tx)
    BY <1>2 DEF Mine
  <1> DEFINE it == [status |-> IF startMode = "merchant" THEN "created" ELSE "active",
                    row |-> tx.row, cap |-> tx.cap, nonce |-> tx.nonce]
  <1>5. it \in StreamTypes /\ it.row = tx.row /\ it.cap = tx.cap
    BY <1>3 DEF StreamTypes, Txs
  <1>6. streams' = [s \in Made \cup {tx.id} |-> IF s \in Made THEN streams[s] ELSE it]
    BY <1>4 DEF MakeStream
  <1> HIDE DEF it
  <1>7. streams \in [Made -> StreamTypes] /\ nonces \in [Wallets -> Nat] /\ sent \in Nat
    BY <1>1, ChainType
  <1>8. /\ Made' = Made \cup {tx.id} /\ streams' \in [Made' -> StreamTypes]
        /\ \A s \in Made : streams'[s] = streams[s]
        /\ tx.id \notin Made => streams'[tx.id] = it
    BY <1>5, <1>6, <1>7 DEF Made
  <1>9. nonces' \in [Wallets -> Nat]
    <2>1. nonces' = [nonces EXCEPT ![tx.wallet] = @ + 1]
      BY <1>4 DEF MakeStream
    <2>2. QED
      <3>1. CASE tx.wallet \in Wallets
        BY <1>7, <2>1, <3>1
      <3>2. CASE tx.wallet \notin Wallets
        BY <1>7, <2>1, <3>2
      <3>3. QED
        BY <3>1, <3>2
  <1>10. /\ logs' \in Seq(Logs) /\ Arriving \subseteq Arriving'
         /\ Arriving' \subseteq Arriving \cup Born(tx.id)
         /\ Log("StreamCreated", tx.id, tx.id) \in Arriving'
    BY <1>1, <1>3, <1>4, BornLogs
  <1>11. \A l \in Born(tx.id) : l.stream \in Made' /\ l.tx = l.stream
    BY <1>8 DEF Born, Log
  <1>12. /\ Made \subseteq Made'
         /\ \A s \in Made : streams'[s].row = streams[s].row /\ streams'[s].cap = streams[s].cap
         /\ \A s \in Made' : s \in Made \/ (s = tx.id /\ streams'[s].row = tx.row /\ streams'[s].cap = tx.cap)
    BY <1>5, <1>8
  <1>13. ChainMoves /\ Payments' \subseteq Payments
    BY <1>1, <1>3, <1>8, <1>9, <1>10, <1>11, <1>12, WaitingShrinks
  <1>14. QED
    BY <1>3, <1>10, <1>12, <1>13 DEF GoesOn

LEMMA ChainGoesOn ==
  ASSUME KeeperInv, ChainStep
  PROVE  GoesOn
  <1>1. CASE Mine
    <2>1. \/ UNCHANGED <<streams, nonces, logs>>
          \/ Accepts(Head(mempool)) /\ Head(mempool).kind = "create"
          \/ Accepts(Head(mempool)) /\ Head(mempool).kind # "create"
      BY <1>1 DEF Mine
    <2>2. QED
      BY <1>1, <2>1, RevertGoesOn, MakeGoesOn, ActGoesOn
  <1>2. CASE \E i \in 1 .. Len(mempool) : Drop(i)
    BY <1>2, DropGoesOn
  <1>3. CASE \E s \in Made : EndAtCap(s)
    BY <1>3, EndGoesOn
  <1>4. QED
    BY <1>1, <1>2, <1>3 DEF ChainStep

LEMMA ChainKeepsInv ==
  ASSUME KeeperInv, ChainStep
  PROVE  KeeperInv'
  <1>1. UNCHANGED <<requestVars, sweep>>
    BY DEF ChainStep
  <1>2. faults' \in 0 .. MaxFaults
    BY RelayAssumption DEF ChainStep, Mine, Drop, EndAtCap, Fault, KeeperInv, OthersTrue
  <1>3. QED
    BY <1>1, <1>2, ChainGoesOn, ChainStepKeepsInv DEF GoesOn

-----------------------------------------------------------------------------
(* Broadcasts.                                                             *)

LEMMA BroadcastMoves ==
  ASSUME ChainTrue, NEW tx \in Txs, Broadcast(tx), tx.kind # "create" => tx.stream \in Made
  PROVE  /\ ChainMoves /\ sent' = sent + 1 /\ faults' = faults
         /\ Made' = Made /\ streams' = streams /\ Arriving' = Arriving
         /\ \A t \in Waiting' : t \in Waiting \/ t.kind = tx.kind
         /\ \A p \in Payments' : \/ p \in Payments
                                 \/ tx.kind = "create" /\ p = Payment(sent + 1, tx.row, tx.cap)
  <1>1. /\ sent \in Nat /\ mempool \in Seq(Txs) /\ logs \in Seq(Logs)
        /\ streams \in [Made -> StreamTypes] /\ nonces \in [Wallets -> Nat]
    BY ChainType
  <1> DEFINE new == [tx EXCEPT !.id = sent + 1]
  <1>2. /\ new \in Txs /\ new.id = sent + 1 /\ new.kind = tx.kind /\ new.stream = tx.stream
        /\ new.row = tx.row /\ new.cap = tx.cap
    <2>1. PICK n : n = sent + 1 /\ n \in Nat
      BY <1>1
    <2>2. new = [tx EXCEPT !.id = n]
      BY <2>1
    <2> HIDE DEF new
    <2>3. new \in Txs
      BY <2>1, <2>2 DEF Txs
    <2>4. new.id = n /\ new.kind = tx.kind /\ new.stream = tx.stream
      BY <2>2 DEF Txs
    <2>5. new.row = tx.row /\ new.cap = tx.cap
      BY <2>2 DEF Txs
    <2>6. QED
      BY <2>1, <2>3, <2>4, <2>5
  <1>3. /\ sent' = sent + 1 /\ mempool' = Append(mempool, new)
        /\ UNCHANGED <<streams, nonces, logs, faults>> /\ UNCHANGED <<Made, Arriving>>
    BY DEF Broadcast, Made, Arriving
  <1> HIDE DEF new
  <1>4. mempool' \in Seq(Txs) /\ Waiting' = Waiting \cup {new}
    <2>1. PICK pool : pool = mempool
      OBVIOUS
    <2>2. Append(pool, new) \in Seq(Txs) /\ ToSet(Append(pool, new)) = ToSet(pool) \cup {new}
      BY <1>1, <1>2, <2>1, SetOfAppend
    <2>3. QED
      BY <1>3, <2>1, <2>2 DEF Waiting
  <1>5. \A n : n \in 1 .. sent => n \in 1 .. sent'
    BY <1>1, <1>3
  <1>6. sent' \in Nat /\ sent <= sent' /\ sent + 1 \in 1 .. sent' /\ 0 .. sent \subseteq 0 .. sent'
    BY <1>1, <1>3
  <1>7. \A t \in Waiting' : t.id \in 1 .. sent' /\ (t.kind # "create" => t.stream \in Made')
    BY <1>2, <1>3, <1>4, <1>5, <1>6 DEF ChainTrue
  <1>8. \A l \in Arriving' : l.stream \in Made' /\ l.tx \in 0 .. sent'
    BY <1>3, <1>6 DEF ChainTrue
  <1>9. Made' \subseteq 1 .. sent'
    <2>1. \A s \in Made : s \in 1 .. sent
      BY ChainType
    <2>2. QED
      BY <1>3, <1>5, <2>1
  <1>10. ChainTrue'
    BY <1>1, <1>3, <1>4, <1>6, <1>7, <1>8, <1>9 DEF ChainTrue
  <1>11. ASSUME NEW p \in Payments'
         PROVE  \/ p \in Payments
                \/ tx.kind = "create" /\ p = Payment(sent + 1, tx.row, tx.cap)
    <2>1. \/ \E t \in Waiting' : t.kind = "create" /\ p = Payment(t.id, t.row, t.cap)
          \/ \E s \in Made' : p = Payment(s, streams'[s].row, streams'[s].cap)
      BY DEF Payments
    <2>2. CASE \E s \in Made' : p = Payment(s, streams'[s].row, streams'[s].cap)
      BY <1>3, <2>2, PaymentIs
    <2>3. CASE \E t \in Waiting' : t.kind = "create" /\ p = Payment(t.id, t.row, t.cap)
      <3>1. PICK t \in Waiting' : t.kind = "create" /\ p = Payment(t.id, t.row, t.cap)
        BY <2>3
      <3>2. CASE t \in Waiting
        BY <3>1, <3>2, PaymentIs
      <3>3. CASE t = new
        BY <1>2, <3>1, <3>3
      <3>4. QED
        BY <1>4, <3>2, <3>3
    <2>4. QED
      BY <2>1, <2>2, <2>3
  <1>12. \A p \in Payments' : p \in Payments \/ p.id = sent + 1
    BY <1>11 DEF Payment
  <1>13. StreamsStay
    BY <1>3 DEF StreamsStay
  <1>14. ChainMoves
    BY <1>2, <1>3, <1>4, <1>6, <1>10, <1>12, <1>13 DEF ChainMoves
  <1>15. QED
    BY <1>2, <1>3, <1>4, <1>11, <1>14

(* A call on a stream pays for nothing.                                    *)
LEMMA CallMoves ==
  ASSUME ChainTrue, NEW tx, ActsOnStream(tx), Broadcast(tx)
  PROVE  /\ ChainMoves /\ sent' = sent + 1 /\ faults' = faults /\ Payments' \subseteq Payments
         /\ Made' = Made /\ Arriving' = Arriving
  <1>1. tx \in Txs /\ tx.kind # "create" /\ tx.stream \in Made
    BY DEF ActsOnStream
  <1>2. QED
    BY <1>1, BroadcastMoves

LEMMA CallOfRow ==
  ASSUME KeeperInv, NEW r \in Rows, rows[r].stream # None,
         NEW kind \in {"start", "pause", "resume", "cancel", "cancelFor"}
  PROVE  ActsOnStream(Call(kind, r, rows[r].stream))
  <1>1. rows[r] \in RowTypes /\ rows[r].stream \in Made
    BY DEF KeeperInv, RowsTrue, RowTrue
  <1>2. rows[r].stream \in Nat
    BY <1>1 DEF RowTypes
  <1>3. QED
    BY <1>1, <1>2 DEF ActsOnStream, Call, Txs, None

LEMMA OthersRest ==
  ASSUME KeeperInv, UNCHANGED <<session, rows, sweep>>,
         faults' \in 0 .. MaxFaults, troubled' \subseteq Rows
  PROVE  OthersTrue'
  <1>1. RowsLast
    BY DEF RowsLast
  <1>2. QED
    BY <1>1, OthersStay DEF KeeperInv

LEMMA KeeperSendKeepsInv ==
  ASSUME KeeperInv, NEW c \in Callers, KeeperSend(c) \/ CancelSend(c), UNCHANGED sweep
  PROVE  KeeperInv'
  <1>1. PICK call : call = calls[c]
    OBVIOUS
  <1>2. ChainTrue /\ CallTrue(call) /\ DOMAIN calls = Callers
    BY <1>1 DEF KeeperInv, CallsTrue
  <1>3. call.op \in {"keeper", "cancelFor"} /\ call.step = "send"
    BY <1>1, <1>2 DEF KeeperSend, CancelSend, CallTrue, KeeperCall
  <1>4. /\ ActsOnStream(call.tx) /\ InUse(call.row)
        /\ call.op = "keeper" => rows[call.row].stream # None
    BY <1>2, <1>3 DEF CallTrue, KeeperCall
  <1>5. Broadcast(call.tx) /\ UNCHANGED <<session, rows, troubled>>
    BY <1>1 DEF KeeperSend, CancelSend
  <1>6. /\ ChainMoves /\ sent' = sent + 1 /\ faults' = faults /\ Payments' \subseteq Payments
        /\ Made' = Made /\ Arriving' = Arriving
    <2>1. PICK tx : tx = call.tx
      OBVIOUS
    <2>2. QED
      BY <1>2, <1>4, <1>5, <2>1, CallMoves
  <1>7. PICK next : /\ calls' = [calls EXCEPT ![c] = next]
                    /\ \/ next = Idle
                       \/ /\ call.op = "keeper"
                          /\ next = [op |-> "keeper", step |-> "stamp", row |-> call.row,
                                     kind |-> call.tx.kind, tx |-> sent + 1]
    BY <1>1 DEF KeeperSend, CancelSend, Becomes
  <1>8. InUse(call.row)' /\ (call.op = "keeper" => rows'[call.row].stream # None)
    BY <1>4, <1>5 DEF InUse
  <1>9. sent + 1 \in Nat \ {0}
    BY <1>2, ChainType
  <1>10. CallTrue(next)' /\ next.op # "start"
    BY <1>7, <1>8, <1>9 DEF CallTrue, SubscriberCall, KeeperCall, Idle
  <1>11. /\ DOMAIN calls' = Callers /\ calls'[c] = next
         /\ \A d \in Callers : d # c => calls'[d] = calls[d]
    BY <1>2, <1>7
  <1>12. \A d \in Callers : \/ calls'[d] = calls[d]
                            \/ CallTrue(calls[d])' /\ calls[d].op # "start" /\ calls'[d].op # "start"
    <2>1. CallTrue(calls[c])'
      BY <1>10, <1>11 DEF CallTrue
    <2>2. QED
      BY <1>1, <1>3, <1>10, <1>11, <2>1
  <1>13. OthersTrue'
    BY <1>5, <1>6, OthersRest DEF KeeperInv, OthersTrue
  <1>14. QED
    BY <1>5, <1>6, <1>11, <1>12, <1>13, RequestKeepsInv

(* The hash of a create that was just broadcast.                           *)
LEMMA NewHashOwned ==
  ASSUME ChainTrue, NEW tx \in Txs, tx.kind = "create", Broadcast(tx), NEW n, n = sent + 1
  PROVE  Owned(n, tx.row)'
  <1>1. /\ ChainMoves /\ sent' = n /\ Arriving' = Arriving
        /\ \A t \in Waiting' : t \in Waiting \/ t.kind = "create"
        /\ \A p \in Payments' : p \in Payments \/ p = Payment(n, tx.row, tx.cap)
    BY BroadcastMoves
  <1>2. sent \in Nat
    BY ChainType
  <1>3. \A m \in 0 .. sent : m # n
    BY <1>2
  <1>4. \A m \in 1 .. sent : m # n
    BY <1>2
  <1>5. \A t \in Waiting' : t.id = n => t.kind = "create"
    BY <1>1, <1>4, WaitingType
  <1>6. \A p \in Payments' : p.id = n => p.row = tx.row
    BY <1>1, <1>4, PaymentType DEF Payment
  <1>7. \A l \in Arriving' : l.tx # n
    BY <1>1, <1>3, WaitingType
  <1>8. n \in 1 .. sent'
    BY <1>1, <1>2
  <1>9. QED
    BY <1>5, <1>6, <1>7, <1>8 DEF Owned

LEMMA StartSendKeepsInv ==
  ASSUME KeeperInv, NEW c \in Callers, StartSend(c), UNCHANGED sweep
  PROVE  KeeperInv'
  <1>1. PICK call : call = calls[c]
    OBVIOUS
  <1>2. PICK tx : tx = call.tx
    OBVIOUS
  <1>3. PICK n : n = sent + 1
    OBVIOUS
  <1>4. ChainTrue /\ CallTrue(call) /\ DOMAIN calls = Callers
    BY <1>1 DEF KeeperInv, CallsTrue
  <1>5. call.op = "start" /\ call.step = "send"
    BY <1>1 DEF StartSend
  <1>6. InUse(call.row) /\ tx \in Txs /\ tx.kind = "create" /\ tx.row = call.row
    BY <1>2, <1>4, <1>5 DEF CallTrue, SubscriberCall
  <1>7. Broadcast(tx) /\ UNCHANGED <<session, rows, troubled>>
    BY <1>1, <1>2 DEF StartSend
  <1>8. /\ ChainMoves /\ sent' = n /\ faults' = faults /\ Made' = Made /\ Arriving' = Arriving
        /\ \A p \in Payments' : p \in Payments \/ p = Payment(n, tx.row, tx.cap)
    BY <1>3, <1>4, <1>6, <1>7, BroadcastMoves
  <1> DEFINE next == [op |-> "start", step |-> "record", row |-> tx.row, tx |-> n]
  <1>9. calls' = [calls EXCEPT ![c] = next]
    BY <1>1, <1>3, <1>6 DEF StartSend, Becomes
  <1>10. Owned(n, tx.row)' /\ InUse(tx.row)'
    BY <1>3, <1>4, <1>6, <1>7, NewHashOwned DEF InUse
  <1>11. CallTrue(next)'
    BY <1>10 DEF CallTrue, SubscriberCall, KeeperCall, Idle
  <1>12. next.op = "start" /\ next.step = "record" /\ next.row = tx.row /\ next.tx = n
    OBVIOUS
  <1> HIDE DEF next
  <1>13. /\ DOMAIN calls' = Callers /\ calls'[c] = next
         /\ \A d \in Callers : d # c => calls'[d] = calls[d]
    BY <1>4, <1>9
  <1>14. \A d \in Callers : calls'[d] = calls[d] \/ CallTrue(calls[d])'
    <2>1. CallTrue(calls[c])'
      BY <1>11, <1>13 DEF CallTrue
    <2>2. QED
      BY <1>13, <2>1
  <1>15. ASSUME NEW r \in Rows \ troubled'
         PROVE  OneStart(r)'
    <2>1. OneStart(r)
      BY <1>7 DEF KeeperInv
    <2>2. CASE r # tx.row
      <3>1. \A p \in Payments' : p \in Payments \/ p.row # r
        BY <1>8, <2>2 DEF Payment
      <3>2. ~StartOf(c, r) /\ ~StartOf(c, r)'
        BY <1>1, <1>6, <1>12, <1>13, <2>2 DEF StartOf
      <3>3. QED
        BY <1>4, <1>7, <1>13, <2>1, <3>1, <3>2, OneStartStays
    <2>3. CASE r = tx.row
      <3>1. StartOf(c, r)
        BY <1>1, <1>5, <1>6, <2>3 DEF StartOf
      <3>2. StartIsAlone(c, r)
        BY <2>1, <3>1 DEF OneStart
      <3>3. /\ \A d \in Callers : StartOf(d, r) => d = c
            /\ rows[r].pendingTx = None /\ rows[r].stream = None
            /\ NoneFor(r)
        BY <1>1, <1>2, <1>5, <3>2 DEF StartIsAlone
      <3>4. \A p \in Payments' : p.row = r => p = Payment(n, tx.row, tx.cap)
        BY <1>8, <3>3 DEF NoneFor
      <3>5. \A p \in Payments' : p.row = r => p.id = n
        BY <1>7, <3>3, <3>4 DEF Payment
      <3>6. \A d \in Callers : StartOf(d, r)' => d = c
        BY <1>13, <3>3 DEF StartOf
      <3>7. StartOf(c, r)' /\ StartIsAlone(c, r)'
        BY <1>7, <1>12, <1>13, <2>3, <3>3, <3>5, <3>6 DEF StartIsAlone, StartOf
      <3>8. rows'[r].pendingTx = None
        BY <1>7, <3>3
      <3>9. QED
        BY <3>5, <3>6, <3>7, <3>8 DEF OneStart
    <2>4. QED
      BY <2>2, <2>3
  <1>16. OthersTrue'
    BY <1>7, <1>8, OthersRest DEF KeeperInv, OthersTrue
  <1>17. RowsLast /\ rows' \in [Rows -> RowTypes]
    BY <1>7 DEF RowsLast, KeeperInv, RowsTrue
  <1>18. QED
    BY <1>7, <1>8, <1>13, <1>14, <1>15, <1>16, <1>17, StepKeepsInv

-----------------------------------------------------------------------------
(* Requests that stay off the chain.                                       *)

LEMMA Rests ==
  ASSUME KeeperInv, UNCHANGED <<chain, rows>>
  PROVE  /\ ChainMoves /\ Payments' = Payments /\ Arriving' = Arriving /\ Made' = Made
         /\ RowsLast /\ rows' \in [Rows -> RowTypes]
  <1>1. ChainMoves /\ Payments' = Payments /\ Arriving' = Arriving
    BY ChainRests DEF KeeperInv
  <1>2. Made' = Made
    BY DEF chain, Made
  <1>3. RowsLast /\ rows' \in [Rows -> RowTypes]
    BY DEF RowsLast, KeeperInv, RowsTrue
  <1>4. QED
    BY <1>1, <1>2, <1>3

(* A request other than a start takes a step.                              *)
LEMMA CallChanges ==
  ASSUME KeeperInv, UNCHANGED <<chain, session, rows, sweep, troubled>>,
         faults' \in 0 .. MaxFaults, NEW c \in Callers, NEW next,
         calls' = [calls EXCEPT ![c] = next],
         calls[c].op # "start", next.op # "start", CallTrue(next)
  PROVE  KeeperInv'
  <1>1. /\ ChainMoves /\ Payments' = Payments /\ Arriving' = Arriving /\ Made' = Made
        /\ RowsLast /\ rows' \in [Rows -> RowTypes]
    BY Rests
  <1>2. CallTrue(next)'
    BY <1>1, CallStays DEF KeeperInv
  <1>3. /\ DOMAIN calls' = Callers /\ calls'[c] = next
        /\ \A d \in Callers : d # c => calls'[d] = calls[d]
    BY DEF KeeperInv, CallsTrue
  <1>4. CallTrue(calls[c])'
    BY <1>2, <1>3 DEF CallTrue
  <1>5. OthersTrue'
    BY OthersRest DEF KeeperInv, OthersTrue
  <1>6. \A d \in Callers : \/ calls'[d] = calls[d]
                           \/ CallTrue(calls[d])' /\ calls[d].op # "start" /\ calls'[d].op # "start"
    BY <1>3, <1>4
  <1>7. QED
    BY <1>1, <1>3, <1>5, <1>6, RequestKeepsInv

LEMMA LoadForPrepareKeepsInv ==
  ASSUME KeeperInv, NEW c \in Callers, NEW offer \in Offers,
         LoadForPrepare(c, offer[1], offer[2]), UNCHANGED <<chain, sweep>>
  PROVE  KeeperInv'
  <1>1. PICK w, cap : w = offer[1] /\ cap = offer[2]
    OBVIOUS
  <1>2. w \in Wallets /\ cap \in Nat
    BY <1>1, CheckoutAssumption
  <1> DEFINE r == session.subscription
             next == [op |-> "prepare", step |-> "row", wallet |-> w, cap |-> cap, row |-> r,
                      pendingTx |-> IF r = None THEN None ELSE rows[r].pendingTx]
  <1>3. calls' = [calls EXCEPT ![c] = next] /\ calls[c] = Idle
    BY <1>1 DEF LoadForPrepare, Arrives, Becomes
  <1>4. session.subscription # None => InUse(session.subscription)
    BY DEF KeeperInv, OthersTrue
  <1>10. Reuses(w, r) => next.pendingTx = None
    BY <1>1 DEF LoadForPrepare, AlreadyStarted, Reuses, Pending
  <1>5. CallTrue(next)
    BY <1>2, <1>4, <1>10 DEF CallTrue, SubscriberCall, KeeperCall
  <1>6. calls[c].op # "start" /\ next.op # "start"
    BY <1>3 DEF Idle
  <1> HIDE DEF next
  <1>7. UNCHANGED <<session, rows, faults, troubled>>
    BY DEF LoadForPrepare
  <1>8. faults' \in 0 .. MaxFaults
    BY <1>7 DEF KeeperInv, OthersTrue
  <1>9. QED
    BY <1>3, <1>5, <1>6, <1>7, <1>8, CallChanges

LEMMA LoadForCancelKeepsInv ==
  ASSUME KeeperInv, NEW c \in Callers, LoadForCancel(c), UNCHANGED <<chain, sweep>>
  PROVE  KeeperInv'
  <1>1. PICK r : r = session.subscription
    OBVIOUS
  <1>2. r # None /\ rows[r].stream # None
    BY <1>1 DEF LoadForCancel
  <1>3. InUse(r) /\ r \in Rows
    BY <1>1, <1>2 DEF KeeperInv, OthersTrue, InUse
  <1>4. ActsOnStream(Call("cancelFor", r, rows[r].stream))
    BY <1>2, <1>3, CallOfRow
  <1> DEFINE next == [op |-> "cancelFor", step |-> "send", row |-> r,
                      tx |-> Call("cancelFor", r, rows[r].stream)]
  <1>5. calls' = [calls EXCEPT ![c] = next] /\ calls[c] = Idle
    BY <1>1 DEF LoadForCancel, Arrives, Becomes
  <1>6. CallTrue(next)
    BY <1>3, <1>4 DEF CallTrue, SubscriberCall, KeeperCall
  <1>7. calls[c].op # "start" /\ next.op # "start"
    BY <1>5 DEF Idle
  <1> HIDE DEF next
  <1>8. UNCHANGED <<session, rows, faults, troubled>>
    BY DEF LoadForCancel
  <1>9. faults' \in 0 .. MaxFaults
    BY <1>8 DEF KeeperInv, OthersTrue
  <1>10. QED
    BY <1>5, <1>6, <1>7, <1>8, <1>9, CallChanges

LEMMA LoadForKeeperKeepsInv ==
  ASSUME KeeperInv, NEW c \in Callers, NEW op \in {"start", "cancel", "pause", "resume"},
         NEW r \in Rows, LoadForKeeper(c, op, r), UNCHANGED <<chain, sweep>>
  PROVE  KeeperInv'
  <1>1. rows[r].stream # None /\ rows[r].status # "none"
    BY DEF LoadForKeeper, May, MayStart, MayCancel, MayPause, MayResume, Held
  <1>2. InUse(r)
    BY <1>1 DEF InUse
  <1>3. ActsOnStream(Call(op, r, rows[r].stream))
    BY <1>1, CallOfRow
  <1> DEFINE next == [op |-> "keeper", step |-> "send", row |-> r, tx |-> Call(op, r, rows[r].stream)]
  <1>5. calls' = [calls EXCEPT ![c] = next] /\ calls[c] = Idle
    BY DEF LoadForKeeper, Arrives, Becomes
  <1>6. CallTrue(next)
    BY <1>1, <1>2, <1>3 DEF CallTrue, SubscriberCall, KeeperCall
  <1>7. calls[c].op # "start" /\ next.op # "start"
    BY <1>5 DEF Idle
  <1> HIDE DEF next
  <1>8. UNCHANGED <<session, rows, faults, troubled>>
    BY DEF LoadForKeeper
  <1>9. faults' \in 0 .. MaxFaults
    BY <1>8 DEF KeeperInv, OthersTrue
  <1>10. QED
    BY <1>5, <1>6, <1>7, <1>8, <1>9, CallChanges

LEMMA LoadForStartKeepsInv ==
  ASSUME KeeperInv, NEW c \in Callers, LoadForStart(c), UNCHANGED <<chain, sweep>>
  PROVE  KeeperInv'
  <1>1. PICK r : r = session.subscription
    OBVIOUS
  <1>2. /\ r # None /\ rows[r].status = "incomplete" /\ rows[r].pendingTx = None
        /\ UNCHANGED <<session, rows, faults>> /\ calls[c] = Idle
        /\ troubled' = IF Starting(r) THEN troubled \cup {r} ELSE troubled
    BY <1>1 DEF LoadForStart, Pending, Arrives
  <1>3. InUse(r) /\ r \in Rows
    BY <1>1, <1>2 DEF KeeperInv, OthersTrue, InUse
  <1>0. PICK row : row = rows[r]
    OBVIOUS
  <1> DEFINE tx == Create(r, row.cap, row.wallet, row.nonce)
  <1>4. tx \in Txs /\ tx.kind = "create" /\ tx.row = r
    <2>1. row \in RowTypes
      BY <1>0, <1>3 DEF KeeperInv, RowsTrue
    <2>2. row.cap \in Nat /\ row.wallet \in Wallets \cup {None} /\ row.nonce \in Nat
      BY <2>1 DEF RowTypes
    <2>3. QED
      BY <1>0, <1>3, <2>2 DEF Create, Txs, None
  <1> DEFINE next == [op |-> "start", step |-> "send", row |-> r, tx |-> tx]
  <1>5. calls' = [calls EXCEPT ![c] = next]
    BY <1>0, <1>1 DEF LoadForStart, Arrives, Becomes
  <1> HIDE DEF tx
  <1>6. CallTrue(next)
    BY <1>3, <1>4 DEF CallTrue, SubscriberCall, KeeperCall
  <1>7. next.op = "start" /\ next.step = "send" /\ next.row = r /\ next.tx = tx
    OBVIOUS
  <1> HIDE DEF next
  <1>8. /\ ChainMoves /\ Payments' = Payments /\ Arriving' = Arriving /\ Made' = Made
        /\ RowsLast /\ rows' \in [Rows -> RowTypes]
    BY <1>2, Rests
  <1>9. CallTrue(next)'
    BY <1>6, <1>8, CallStays DEF KeeperInv
  <1>10. /\ DOMAIN calls' = Callers /\ calls'[c] = next /\ DOMAIN calls = Callers
         /\ \A d \in Callers : d # c => calls'[d] = calls[d]
    BY <1>5 DEF KeeperInv, CallsTrue
  <1>11. \A d \in Callers : calls'[d] = calls[d] \/ CallTrue(calls[d])'
    <2>1. CallTrue(calls[c])'
      BY <1>9, <1>10 DEF CallTrue
    <2>2. QED
      BY <1>10, <2>1
  <1>12. troubled \subseteq troubled' /\ troubled' \subseteq Rows
    BY <1>2, <1>3 DEF KeeperInv, OthersTrue
  <1>13. ~StartOf(c, r)
    BY <1>2 DEF StartOf, Idle
  <1>14. ASSUME NEW q \in Rows \ troubled'
         PROVE  OneStart(q)'
    <2>1. OneStart(q)
      BY <1>12 DEF KeeperInv
    <2>2. CASE q # r
      <3>1. ~StartOf(c, q) /\ ~StartOf(c, q)'
        BY <1>2, <1>7, <1>10, <2>2 DEF StartOf, Idle
      <3>2. QED
        BY <1>2, <1>8, <1>10, <2>1, <3>1, OneStartStays
    <2>3. CASE q = r
      <3>1. \A d \in Callers : ~StartOf(d, r)
        BY <1>2, <2>3 DEF Starting, Busy, StartOf, Idle
      <3>2. NoneFor(r)
        BY <1>2, <2>1, <2>3, <3>1 DEF OneStart
      <3>3. rows[r].stream = None
        <4>1. SUFFICES ASSUME rows[r].stream # None PROVE FALSE
          OBVIOUS
        <4>2. rows[r].stream \in Made /\ streams[rows[r].stream].row = r
          BY <1>3, <4>1 DEF KeeperInv, RowsTrue, RowTrue
        <4>3. PICK s : s = rows[r].stream
          OBVIOUS
        <4>4. Payment(s, streams[s].row, streams[s].cap) \in Payments
          BY <4>2, <4>3, PaymentIs
        <4>5. QED
          BY <3>2, <4>2, <4>3, <4>4 DEF NoneFor, Payment
      <3>4. NoneFor(r)' /\ \A d \in Callers : StartOf(d, r)' => d = c
        BY <1>8, <1>10, <3>1, <3>2 DEF NoneFor, StartOf
      <3>5. StartIsAlone(c, r)' /\ StartOf(c, r)'
        BY <1>2, <1>4, <1>7, <1>10, <3>3, <3>4 DEF StartIsAlone, StartOf
      <3>6. rows'[r].pendingTx = None
        BY <1>2
      <3>7. QED
        BY <2>3, <3>4, <3>5, <3>6 DEF OneStart, NoneFor
    <2>4. QED
      BY <2>2, <2>3
  <1>15. OthersTrue'
    BY <1>2, <1>12, OthersRest DEF KeeperInv, OthersTrue
  <1>16. QED
    BY <1>2, <1>8, <1>10, <1>11, <1>12, <1>14, <1>15, StepKeepsInv

(* A start that ends either had paid for nothing or leaves its row in      *)
(* trouble.                                                                *)
LEMMA IdleKeepsInv ==
  ASSUME KeeperInv, UNCHANGED <<chain, session, rows, sweep>>, faults' \in 0 .. MaxFaults,
         NEW c \in Callers, calls' = [calls EXCEPT ![c] = Idle],
         troubled \subseteq troubled', troubled' \subseteq Rows,
         \A r \in Rows : StartOf(c, r) => r \in troubled' \/ calls[c].step = "send"
  PROVE  KeeperInv'
  <1>1. /\ ChainMoves /\ Payments' = Payments /\ Arriving' = Arriving /\ Made' = Made
        /\ RowsLast /\ rows' \in [Rows -> RowTypes]
    BY Rests
  <1>2. /\ DOMAIN calls' = Callers /\ calls'[c] = Idle /\ DOMAIN calls = Callers
        /\ \A d \in Callers : d # c => calls'[d] = calls[d]
    BY DEF KeeperInv, CallsTrue
  <1>3. CallTrue(calls[c])'
    BY <1>2 DEF CallTrue, SubscriberCall, KeeperCall, Idle
  <1>4. OthersTrue'
    BY OthersRest DEF KeeperInv, OthersTrue
  <1>5. ASSUME NEW r \in Rows \ troubled'
        PROVE  OneStart(r)'
    <2>1. OneStart(r) /\ ~StartOf(c, r)'
      BY <1>2 DEF KeeperInv, StartOf, Idle
    <2>2. CASE ~StartOf(c, r)
      BY <1>1, <1>2, <2>1, <2>2, OneStartStays
    <2>3. CASE StartOf(c, r)
      <3>1. StartIsAlone(c, r) /\ calls[c].step = "send"
        BY <2>1, <2>3 DEF OneStart
      <3>2. NoneFor(r) /\ \A d \in Callers : StartOf(d, r) => d = c
        BY <3>1 DEF StartIsAlone
      <3>3. NoneFor(r)' /\ \A d \in Callers : ~StartOf(d, r)'
        BY <1>1, <1>2, <2>1, <3>2 DEF NoneFor, StartOf
      <3>4. QED
        BY <3>3 DEF OneStart, NoneFor
    <2>4. QED
      BY <2>2, <2>3
  <1>6. \A d \in Callers : calls'[d] = calls[d] \/ CallTrue(calls[d])'
    BY <1>2, <1>3
  <1>7. QED
    BY <1>1, <1>2, <1>4, <1>5, <1>6, StepKeepsInv

LEMMA RefusedKeepsInv ==
  ASSUME KeeperInv, NEW c \in Callers, Refused(c), UNCHANGED <<chain, sweep>>
  PROVE  KeeperInv'
  <1>1. /\ UNCHANGED <<session, rows, faults, troubled>> /\ calls' = [calls EXCEPT ![c] = Idle]
        /\ calls[c].step = "send"
    BY DEF Refused, Becomes
  <1>2. CallTrue(calls[c]) /\ faults' \in 0 .. MaxFaults /\ troubled' \subseteq Rows
    BY <1>1 DEF KeeperInv, CallsTrue, OthersTrue
  <1>3. \A r \in Rows : StartOf(c, r) => calls[c].step = "send"
    BY <1>1, <1>2 DEF StartOf, CallTrue, SubscriberCall
  <1>4. QED
    BY <1>1, <1>2, <1>3, IdleKeepsInv

LEMMA FailsKeepsInv ==
  ASSUME KeeperInv, NEW c \in Callers, Fails(c), UNCHANGED <<chain, sweep>>
  PROVE  KeeperInv'
  <1>1. /\ UNCHANGED <<session, rows>> /\ calls' = [calls EXCEPT ![c] = Idle]
        /\ troubled' = IF calls[c].op = "start" THEN troubled \cup {calls[c].row} ELSE troubled
    BY DEF Fails, Becomes
  <1>2. CallTrue(calls[c]) /\ troubled \subseteq Rows
    BY DEF KeeperInv, CallsTrue, OthersTrue
  <1>3. troubled \subseteq troubled' /\ troubled' \subseteq Rows
    BY <1>1, <1>2 DEF CallTrue, SubscriberCall, InUse
  <1>4. \A r \in Rows : StartOf(c, r) => r \in troubled'
    BY <1>1 DEF StartOf
  <1>5. faults' \in 0 .. MaxFaults
    BY RelayAssumption DEF Fails, Fault, KeeperInv, OthersTrue
  <1>6. QED
    BY <1>1, <1>3, <1>4, <1>5, IdleKeepsInv

-----------------------------------------------------------------------------
(* Steps that write a row.                                                 *)

LEMMA RowSteps ==
  ASSUME KeeperInv, UNCHANGED chain, NEW r \in Rows, NEW row \in RowTypes,
         rows' = [rows EXCEPT ![r] = row], row.stream = rows[r].stream,
         row.status # "none", row.wallet \in Wallets,
         rows[r].status # "none" => row.wallet = rows[r].wallet,
         row.startSubmitted \/ row.cancelSubmitted # "never" => row.stream # None,
         row.stream = None /\ row.pendingTx # None => Owned(row.pendingTx, r)
  PROVE  /\ ChainMoves /\ Payments' = Payments /\ Arriving' = Arriving /\ Made' = Made
         /\ RowsLast /\ rows' \in [Rows -> RowTypes] /\ RowTrue(r)' /\ rows'[r] = row
         /\ \A q \in Rows : q # r => rows'[q] = rows[q]
  <1>1. /\ ChainMoves /\ Payments' = Payments /\ Arriving' = Arriving
        /\ ChainTrue
    BY ChainRests DEF KeeperInv
  <1>2. Made' = Made /\ streams' = streams
    BY DEF chain, Made
  <1>3. rows \in [Rows -> RowTypes] /\ RowTrue(r)
    BY DEF KeeperInv, RowsTrue
  <1>4. rows' \in [Rows -> RowTypes] /\ rows'[r] = row /\ \A q \in Rows : q # r => rows'[q] = rows[q]
    BY <1>3
  <1>5. RowsLast
    BY <1>4 DEF RowsLast
  <1>6. row.stream = None /\ row.pendingTx # None => Owned(row.pendingTx, r)'
    BY <1>1, OwnedStays
  <1>7. row.stream # None => row.stream \in Made' /\ streams'[row.stream].row = r
    BY <1>2, <1>3 DEF RowTrue
  <1>8. RowTrue(r)'
    BY <1>4, <1>6, <1>7 DEF RowTrue
  <1>9. QED
    BY <1>1, <1>2, <1>4, <1>5, <1>8

LEMMA RowKeepsInv ==
  ASSUME KeeperInv, ChainMoves, Payments' = Payments, Arriving' = Arriving, Made' = Made,
         NEW r \in Rows,
         RowsLast, rows' \in [Rows -> RowTypes], RowTrue(r)', rows'[r].stream = rows[r].stream,
         \A q \in Rows : q # r => rows'[q] = rows[q],
         DOMAIN calls' = Callers, OthersTrue', troubled \subseteq troubled',
         \A d \in Callers : \/ calls'[d] = calls[d]
                            \/ /\ CallTrue(calls[d])'
                               /\ \A q \in Rows : q # r => ~StartOf(d, q) /\ ~StartOf(d, q)',
         r \notin troubled' => OneStart(r)'
  PROVE  KeeperInv'
  <1>1. ASSUME NEW q \in Rows \ troubled'
        PROVE  OneStart(q)'
    <2>1. CASE q # r
      <3>1. OneStart(q) /\ DOMAIN calls = Callers
        BY DEF KeeperInv, CallsTrue
      <3>2. \A d \in Callers : calls'[d] = calls[d] \/ (~StartOf(d, q) /\ ~StartOf(d, q)')
        BY <2>1
      <3>3. rows'[q] = rows[q]
        BY <2>1
      <3>4. QED
        BY <3>1, <3>2, <3>3, OneStartStays
    <2>2. QED
      BY <2>1
  <1>2. \A q \in Rows : rows[q].stream # None => rows'[q].stream = rows[q].stream
    OBVIOUS
  <1>3. QED
    BY <1>1, <1>2, StepKeepsInv

(* What is known of a row in use.                                          *)
LEMMA RowInUse ==
  ASSUME KeeperInv, NEW r, InUse(r)
  PROVE  /\ r \in Rows /\ rows[r] \in RowTypes /\ rows[r].status # "none" /\ rows[r].wallet \in Wallets
         /\ rows[r].startSubmitted \/ rows[r].cancelSubmitted # "never" => rows[r].stream # None
         /\ rows[r].stream = None /\ rows[r].pendingTx # None => Owned(rows[r].pendingTx, r)
  BY DEF KeeperInv, RowsTrue, RowTrue, InUse

LEMMA IdleTrue == CallTrue(Idle)
  BY DEF CallTrue, SubscriberCall, KeeperCall, Idle

LEMMA OneStartOfQuietRow ==
  ASSUME KeeperInv, NEW r \in Rows, r \notin troubled, Payments' = Payments,
         rows'[r].stream = rows[r].stream, rows'[r].pendingTx = rows[r].pendingTx,
         \A d \in Callers : \/ calls'[d] = calls[d]
                            \/ ~StartOf(d, r) /\ ~StartOf(d, r)'
  PROVE  OneStart(r)'
  <1>1. OneStart(r) /\ DOMAIN calls = Callers
    BY DEF KeeperInv, CallsTrue
  <1>2. QED
    BY <1>1, OneStartStays

LEMMA PermitKeepsInv ==
  ASSUME KeeperInv, NEW c \in Callers, PreparePermit(c), UNCHANGED <<chain, sweep>>
  PROVE  KeeperInv'
  <1>1. PICK call : call = calls[c]
    OBVIOUS
  <1>2. PICK r : r = call.row
    OBVIOUS
  <1>3. PICK old, n : old = rows[r] /\ n = nonces[old.wallet]
    OBVIOUS
  <1>4. call.op = "prepare" /\ call.step = "permit" /\ UNCHANGED <<session, faults, troubled>>
    BY <1>1 DEF PreparePermit
  <1>5. InUse(r) /\ call.cap \in Nat
    BY <1>1, <1>2, <1>4 DEF KeeperInv, CallsTrue, CallTrue, SubscriberCall
  <1>6. /\ r \in Rows /\ old \in RowTypes /\ old.status # "none" /\ old.wallet \in Wallets
        /\ old.startSubmitted \/ old.cancelSubmitted # "never" => old.stream # None
        /\ old.stream = None /\ old.pendingTx # None => Owned(old.pendingTx, r)
    BY <1>3, <1>5, RowInUse
  <1>7. n \in Nat
    BY <1>3, <1>6, ChainType DEF KeeperInv
  <1> DEFINE row == [old EXCEPT !.nonce = n, !.permits = @ \cup {<<n, call.cap>>}]
  <1>8. rows' = [rows EXCEPT ![r] = row]
    <2>1. rows' = [rows EXCEPT ![r].nonce = n, ![r].permits = @ \cup {<<n, call.cap>>}]
      BY <1>1, <1>2, <1>3 DEF PreparePermit
    <2>2. rows \in [Rows -> RowTypes]
      BY DEF KeeperInv, RowsTrue
    <2>3. QED
      BY <1>3, <1>6, <2>1, <2>2 DEF RowTypes
  <1>9. /\ row \in RowTypes
        /\ row.status = old.status /\ row.wallet = old.wallet /\ row.cap = old.cap
        /\ row.pendingTx = old.pendingTx /\ row.stream = old.stream
        /\ row.startSubmitted = old.startSubmitted /\ row.cancelSubmitted = old.cancelSubmitted
    <2>1. old.permits \cup {<<n, call.cap>>} \in SUBSET (Nat \X Nat)
      BY <1>5, <1>6, <1>7 DEF RowTypes
    <2>2. row \in RowTypes
      BY <1>6, <1>7, <2>1 DEF RowTypes
    <2>3. /\ row.status = old.status /\ row.wallet = old.wallet /\ row.cap = old.cap
          /\ row.pendingTx = old.pendingTx /\ row.stream = old.stream
      BY <1>6 DEF RowTypes
    <2>4. row.startSubmitted = old.startSubmitted /\ row.cancelSubmitted = old.cancelSubmitted
      BY <1>6 DEF RowTypes
    <2>5. QED
      BY <2>2, <2>3, <2>4
  <1> HIDE DEF row
  <1>10. /\ ChainMoves /\ Payments' = Payments /\ Arriving' = Arriving /\ Made' = Made
         /\ RowsLast /\ rows' \in [Rows -> RowTypes] /\ RowTrue(r)' /\ rows'[r] = row
         /\ \A q \in Rows : q # r => rows'[q] = rows[q]
    BY <1>3, <1>4, <1>6, <1>8, <1>9, RowSteps
  <1>11. calls' = [calls EXCEPT ![c] = Idle]
    BY <1>1 DEF PreparePermit, Becomes
  <1>12. /\ DOMAIN calls' = Callers /\ calls'[c] = Idle
         /\ \A d \in Callers : d # c => calls'[d] = calls[d]
    BY <1>11 DEF KeeperInv, CallsTrue
  <1>13. CallTrue(calls[c])' /\ \A q \in Rows : ~StartOf(c, q) /\ ~StartOf(c, q)'
    BY <1>1, <1>4, <1>12 DEF CallTrue, SubscriberCall, KeeperCall, Idle, StartOf
  <1>14. OthersTrue'
    BY <1>4, <1>10, OthersStay DEF KeeperInv, OthersTrue
  <1>15. r \notin troubled' => OneStart(r)'
    BY <1>3, <1>4, <1>6, <1>9, <1>10, <1>12, <1>13, OneStartOfQuietRow
  <1>16. QED
    BY <1>3, <1>4, <1>6, <1>9, <1>10, <1>12, <1>13, <1>14, <1>15, RowKeepsInv

LEMMA StartRecordKeepsInv ==
  ASSUME KeeperInv, NEW c \in Callers, StartRecord(c), UNCHANGED <<chain, sweep>>
  PROVE  KeeperInv'
  <1>1. PICK call : call = calls[c]
    OBVIOUS
  <1>2. PICK r, t : r = call.row /\ t = call.tx
    OBVIOUS
  <1>3. PICK old : old = rows[r]
    OBVIOUS
  <1>4. call.op = "start" /\ call.step = "record" /\ UNCHANGED <<session, faults, troubled>>
    BY <1>1 DEF StartRecord
  <1>5. InUse(r) /\ Owned(t, r)
    BY <1>1, <1>2, <1>4 DEF KeeperInv, CallsTrue, CallTrue, SubscriberCall
  <1>6. /\ r \in Rows /\ old \in RowTypes /\ old.status # "none" /\ old.wallet \in Wallets
        /\ old.startSubmitted \/ old.cancelSubmitted # "never" => old.stream # None
    BY <1>3, <1>5, RowInUse
  <1>7. t \in Nat /\ t # None
    BY <1>5, ChainType DEF Owned, KeeperInv, None
  <1> DEFINE row == [old EXCEPT !.pendingTx = t]
  <1>8. rows' = [rows EXCEPT ![r] = row]
    <2>1. rows' = [rows EXCEPT ![r].pendingTx = t]
      BY <1>1, <1>2 DEF StartRecord
    <2>2. QED
      BY <1>3, <2>1
  <1>9. /\ row \in RowTypes
        /\ row.status = old.status /\ row.wallet = old.wallet /\ row.cap = old.cap
        /\ row.pendingTx = t /\ row.stream = old.stream
        /\ row.startSubmitted = old.startSubmitted /\ row.cancelSubmitted = old.cancelSubmitted
    <2>2. row \in RowTypes
      BY <1>6, <1>7 DEF RowTypes
    <2>3. /\ row.status = old.status /\ row.wallet = old.wallet /\ row.cap = old.cap
          /\ row.pendingTx = t /\ row.stream = old.stream
      BY <1>6 DEF RowTypes
    <2>4. row.startSubmitted = old.startSubmitted /\ row.cancelSubmitted = old.cancelSubmitted
      BY <1>6 DEF RowTypes
    <2>5. QED
      BY <2>2, <2>3, <2>4
  <1> HIDE DEF row
  <1>10. /\ ChainMoves /\ Payments' = Payments /\ Arriving' = Arriving /\ Made' = Made
         /\ RowsLast /\ rows' \in [Rows -> RowTypes] /\ RowTrue(r)' /\ rows'[r] = row
         /\ \A q \in Rows : q # r => rows'[q] = rows[q]
    BY <1>3, <1>4, <1>5, <1>6, <1>8, <1>9, RowSteps
  <1>11. calls' = [calls EXCEPT ![c] = Idle]
    BY <1>1 DEF StartRecord, Becomes
  <1>12. /\ DOMAIN calls' = Callers /\ calls'[c] = Idle
         /\ \A d \in Callers : d # c => calls'[d] = calls[d]
    BY <1>11 DEF KeeperInv, CallsTrue
  <1>13. CallTrue(calls[c])' /\ \A q \in Rows : q # r => ~StartOf(c, q) /\ ~StartOf(c, q)'
    BY <1>1, <1>2, <1>12 DEF CallTrue, SubscriberCall, KeeperCall, Idle, StartOf
  <1>14. OthersTrue'
    BY <1>4, <1>10, OthersStay DEF KeeperInv, OthersTrue
  <1>15. ASSUME r \notin troubled'
         PROVE  OneStart(r)'
    <2>1. OneStart(r) /\ StartOf(c, r)
      BY <1>1, <1>2, <1>4, <1>6, <1>15 DEF KeeperInv, StartOf
    <2>2. StartIsAlone(c, r)
      BY <2>1 DEF OneStart
    <2>3. \A d \in Callers : ~StartOf(d, r)'
      BY <1>12, <2>2 DEF StartIsAlone, StartOf, Idle
    <2>4. \A p \in Payments : p.row = r => p.id = t
      BY <1>1, <1>2, <1>4, <2>2 DEF StartIsAlone
    <2>5. QED
      BY <1>7, <1>9, <1>10, <2>3, <2>4 DEF OneStart
  <1>16. QED
    BY <1>3, <1>4, <1>6, <1>9, <1>10, <1>12, <1>13, <1>14, <1>15, RowKeepsInv

LEMMA KeeperStampKeepsInv ==
  ASSUME KeeperInv, NEW c \in Callers, KeeperStamp(c), UNCHANGED <<chain, sweep>>
  PROVE  KeeperInv'
  <1>1. PICK call : call = calls[c]
    OBVIOUS
  <1>2. PICK r, t : r = call.row /\ t = call.tx
    OBVIOUS
  <1>3. PICK old : old = rows[r]
    OBVIOUS
  <1>4. call.op = "keeper" /\ call.step = "stamp" /\ UNCHANGED <<session, faults, troubled>>
    BY <1>1 DEF KeeperStamp
  <1>5. InUse(r) /\ old.stream # None /\ t \in Nat \ {0}
    BY <1>1, <1>2, <1>3, <1>4 DEF KeeperInv, CallsTrue, CallTrue, KeeperCall
  <1>6. r \in Rows /\ old \in RowTypes /\ old.status # "none" /\ old.wallet \in Wallets
    BY <1>3, <1>5, RowInUse
  <1> DEFINE row == IF call.kind = "start" THEN [old EXCEPT !.pendingTx = t, !.startSubmitted = TRUE]
                    ELSE [old EXCEPT !.cancelSubmitted = "lately"]
  <1>8. rows' = [rows EXCEPT ![r] = row]
    BY <1>1, <1>2, <1>3 DEF KeeperStamp
  <1>9. /\ row \in RowTypes
        /\ row.status = old.status /\ row.wallet = old.wallet /\ row.cap = old.cap
        /\ row.pendingTx \in {old.pendingTx, t} /\ row.stream = old.stream
    <2>1. CASE call.kind = "start"
      <3>1. row = [old EXCEPT !.pendingTx = t, !.startSubmitted = TRUE]
        BY <2>1
      <3> HIDE DEF row
      <3>2. row \in RowTypes
        BY <1>5, <1>6, <3>1 DEF RowTypes
      <3>3. row.status = old.status /\ row.wallet = old.wallet /\ row.cap = old.cap
        BY <1>6, <3>1 DEF RowTypes
      <3>4. row.pendingTx = t /\ row.stream = old.stream
        BY <1>6, <3>1 DEF RowTypes
      <3>5. QED
        BY <3>2, <3>3, <3>4
    <2>2. CASE call.kind # "start"
      <3>1. row = [old EXCEPT !.cancelSubmitted = "lately"]
        BY <2>2
      <3> HIDE DEF row
      <3>2. row \in RowTypes
        BY <1>6, <3>1 DEF RowTypes
      <3>3. row.status = old.status /\ row.wallet = old.wallet /\ row.cap = old.cap
        BY <1>6, <3>1 DEF RowTypes
      <3>4. row.pendingTx = old.pendingTx /\ row.stream = old.stream
        BY <1>6, <3>1 DEF RowTypes
      <3>5. QED
        BY <3>2, <3>3, <3>4
    <2>3. QED
      BY <2>1, <2>2
  <1> HIDE DEF row
  <1>10. /\ ChainMoves /\ Payments' = Payments /\ Arriving' = Arriving /\ Made' = Made
         /\ RowsLast /\ rows' \in [Rows -> RowTypes] /\ RowTrue(r)' /\ rows'[r] = row
         /\ \A q \in Rows : q # r => rows'[q] = rows[q]
    BY <1>3, <1>4, <1>5, <1>6, <1>8, <1>9, RowSteps
  <1>11. calls' = [calls EXCEPT ![c] = Idle]
    BY <1>1 DEF KeeperStamp, Becomes
  <1>12. /\ DOMAIN calls' = Callers /\ calls'[c] = Idle
         /\ \A d \in Callers : d # c => calls'[d] = calls[d]
    BY <1>11 DEF KeeperInv, CallsTrue
  <1>13. CallTrue(calls[c])' /\ \A q \in Rows : ~StartOf(c, q) /\ ~StartOf(c, q)'
    BY <1>1, <1>4, <1>12 DEF CallTrue, SubscriberCall, KeeperCall, Idle, StartOf
  <1>14. OthersTrue'
    BY <1>4, <1>10, OthersStay DEF KeeperInv, OthersTrue
  <1>15. ASSUME r \notin troubled'
         PROVE  OneStart(r)'
    <2>1. OneStart(r)
      BY <1>4, <1>6, <1>15 DEF KeeperInv
    <2>2. \A d \in Callers : ~StartOf(d, r)
      BY <1>3, <1>5, <2>1 DEF OneStart, StartIsAlone
    <2>3. \A d \in Callers : ~StartOf(d, r)'
      BY <1>6, <1>12, <1>13, <2>2 DEF StartOf
    <2>4. rows'[r].pendingTx = None => rows[r].pendingTx = None
      BY <1>3, <1>5, <1>9, <1>10 DEF None
    <2>5. /\ \A p, q \in Payments : p.row = r /\ q.row = r => p.id = q.id
          /\ rows[r].pendingTx = None => NoneFor(r)
      BY <1>3, <2>1, <2>2 DEF OneStart
    <2>6. NoneFor(r) => NoneFor(r)'
      BY <1>10 DEF NoneFor
    <2>7. QED
      BY <1>5, <1>9, <1>10, <2>3, <2>4, <2>5, <2>6 DEF OneStart
  <1>16. QED
    BY <1>3, <1>4, <1>6, <1>9, <1>10, <1>12, <1>13, <1>14, <1>15, RowKeepsInv

(* A row that has a stream is stamped with a cancel, or its stamp ages.    *)
LEMMA CancelStamped ==
  ASSUME KeeperInv, UNCHANGED <<chain, session, calls, faults, troubled>>,
         NEW r \in Rows, HasStream(r), NEW stamp \in {"lately", "before"},
         rows' = [rows EXCEPT ![r].cancelSubmitted = stamp],
         \/ sweep' = sweep
         \/ sweep' = [sweep EXCEPT !.row = None]
  PROVE  KeeperInv'
  <1>3. PICK old : old = rows[r]
    OBVIOUS
  <1>5. InUse(r) /\ old.stream # None
    BY <1>3 DEF HasStream
  <1>6. old \in RowTypes /\ old.status # "none" /\ old.wallet \in Wallets
    BY <1>3, <1>5, RowInUse
  <1> DEFINE row == [old EXCEPT !.cancelSubmitted = stamp]
  <1>8. rows' = [rows EXCEPT ![r] = row]
    BY <1>3
  <1>9. /\ row \in RowTypes
        /\ row.status = old.status /\ row.wallet = old.wallet /\ row.cap = old.cap
        /\ row.pendingTx = old.pendingTx /\ row.stream = old.stream
    <2>1. row \in RowTypes
      BY <1>6 DEF RowTypes
    <2>2. row.status = old.status /\ row.wallet = old.wallet /\ row.cap = old.cap
      BY <1>6 DEF RowTypes
    <2>3. row.pendingTx = old.pendingTx /\ row.stream = old.stream
      BY <1>6 DEF RowTypes
    <2>4. QED
      BY <2>1, <2>2, <2>3
  <1> HIDE DEF row
  <1>10. /\ ChainMoves /\ Payments' = Payments /\ Arriving' = Arriving /\ Made' = Made
         /\ RowsLast /\ rows' \in [Rows -> RowTypes] /\ RowTrue(r)' /\ rows'[r] = row
         /\ \A q \in Rows : q # r => rows'[q] = rows[q]
    BY <1>3, <1>5, <1>6, <1>8, <1>9, RowSteps
  <1>12. DOMAIN calls' = Callers /\ \A d \in Callers : calls'[d] = calls[d]
    BY DEF KeeperInv, CallsTrue
  <1>13. \A q : HasStream(q) => HasStream(q)'
    BY <1>10 DEF RowsLast, HasStream, InUse
  <1>14. OthersTrue'
    <2>1. /\ sweep \in [due : SUBSET Rows, row : {None} \cup Rows]
          /\ \A q \in sweep.due : HasStream(q)
          /\ sweep.row # None => HasStream(sweep.row)
      BY DEF KeeperInv, OthersTrue
    <2>2. /\ sweep' \in [due : SUBSET Rows, row : {None} \cup Rows]
          /\ sweep'.due = sweep.due /\ sweep'.row \in {None, sweep.row}
      BY <2>1
    <2>3. \A q \in sweep'.due : HasStream(q)'
      BY <1>13, <2>1, <2>2
    <2>4. (sweep.row # None => HasStream(sweep.row))'
      <3>1. PICK at : at = sweep'.row
        OBVIOUS
      <3>2. at # None => HasStream(at)'
        BY <1>13, <2>1, <2>2, <3>1
      <3>3. QED
        BY <3>1, <3>2 DEF HasStream, InUse
    <2>5. \A q : InUse(q) => InUse(q)'
      BY <1>10 DEF RowsLast, InUse
    <2>6. QED
      BY <2>2, <2>3, <2>4, <2>5 DEF KeeperInv, OthersTrue
  <1>15. r \notin troubled' => OneStart(r)'
    BY <1>3, <1>6, <1>9, <1>10, <1>12, OneStartOfQuietRow
  <1>16. QED
    BY <1>3, <1>6, <1>9, <1>10, <1>12, <1>14, <1>15, RowKeepsInv

LEMMA PrepareRowKeepsInv ==
  ASSUME KeeperInv, NEW c \in Callers, NEW r \in Rows, PrepareRow(c, r), UNCHANGED <<chain, sweep>>
  PROVE  KeeperInv'
  <1>1. PICK call : call = calls[c]
    OBVIOUS
  <1>2. PICK old, cap, w : old = rows[r] /\ cap = call.cap /\ w = call.wallet
    OBVIOUS
  <1> DEFINE reuses == Reuses(w, call.row)
  <1>3. /\ call.op = "prepare" /\ call.step = "row"
        /\ IF reuses THEN r = call.row ELSE FreshRow(r)
        /\ session' = [session EXCEPT !.subscription = r] /\ UNCHANGED <<faults, troubled>>
    BY <1>1, <1>2 DEF PrepareRow
  <1>4. /\ cap \in Nat /\ w \in Wallets /\ old \in RowTypes /\ RowTrue(r) /\ RowsTrue
        /\ call.row # None => InUse(call.row)
    BY <1>1, <1>2, <1>3 DEF KeeperInv, CallsTrue, CallTrue, SubscriberCall, RowsTrue
  <1> DEFINE row == IF reuses THEN [old EXCEPT !.cap = cap]
                    ELSE [NoRow EXCEPT !.status = "incomplete", !.wallet = w, !.cap = cap]
  <1>5. rows' = [rows EXCEPT ![r] = row]
    BY <1>1, <1>2 DEF PrepareRow
  <1>6. /\ row \in RowTypes /\ row.status # "none" /\ row.wallet \in Wallets
        /\ row.stream = old.stream /\ row.pendingTx = old.pendingTx
        /\ old.status # "none" => row.wallet = old.wallet
        /\ row.startSubmitted \/ row.cancelSubmitted # "never" => row.stream # None
        /\ row.stream = None /\ row.pendingTx # None => Owned(row.pendingTx, r)
    <2>1. CASE reuses
      <3>1. row = [old EXCEPT !.cap = cap]
        BY <2>1
      <3> HIDE DEF row
      <3>2. InUse(r)
        BY <1>3, <1>4, <2>1 DEF Reuses
      <3>3. row \in RowTypes
        BY <1>4, <3>1 DEF RowTypes
      <3>4. row.status = old.status /\ row.wallet = old.wallet
        BY <1>4, <3>1 DEF RowTypes
      <3>5. row.pendingTx = old.pendingTx /\ row.stream = old.stream
        BY <1>4, <3>1 DEF RowTypes
      <3>6. row.startSubmitted = old.startSubmitted /\ row.cancelSubmitted = old.cancelSubmitted
        BY <1>4, <3>1 DEF RowTypes
      <3>7. /\ old.status # "none" /\ old.wallet \in Wallets
            /\ old.startSubmitted \/ old.cancelSubmitted # "never" => old.stream # None
            /\ old.stream = None /\ old.pendingTx # None => Owned(old.pendingTx, r)
        BY <1>2, <3>2, RowInUse
      <3>8. QED
        BY <3>3, <3>4, <3>5, <3>6, <3>7
    <2>2. CASE ~reuses
      <3>1. row = [NoRow EXCEPT !.status = "incomplete", !.wallet = w, !.cap = cap]
        BY <2>2
      <3>2. old = NoRow
        BY <1>2, <1>3, <1>4, <2>2 DEF FreshRow, RowTrue
      <3> HIDE DEF row
      <3>3. /\ row.status = "incomplete" /\ row.wallet = w /\ row.cap = cap /\ row.nonce = None
            /\ row.permits = {} /\ row.pendingTx = None /\ row.stream = None /\ row.funded = FALSE
            /\ row.startSubmitted = FALSE /\ row.cancelSubmitted = "never"
        BY <3>1 DEF NoRow
      <3>4. row \in RowTypes
        BY <1>4, <3>1 DEF NoRow, RowTypes, None
      <3>5. old.stream = None /\ old.pendingTx = None /\ old.status = "none"
        BY <3>2 DEF NoRow
      <3>6. QED
        BY <1>4, <3>3, <3>4, <3>5
    <2>3. QED
      BY <2>1, <2>2
  <1> HIDE DEF row
  <1>10. /\ ChainMoves /\ Payments' = Payments /\ Arriving' = Arriving /\ Made' = Made
         /\ RowsLast /\ rows' \in [Rows -> RowTypes] /\ RowTrue(r)' /\ rows'[r] = row
         /\ \A q \in Rows : q # r => rows'[q] = rows[q]
    BY <1>2, <1>5, <1>6, RowSteps
  <1> DEFINE next == [op |-> "prepare", step |-> "permit", row |-> r, cap |-> cap]
  <1>11. calls' = [calls EXCEPT ![c] = next]
    BY <1>1, <1>2 DEF PrepareRow, Becomes
  <1>12. /\ DOMAIN calls' = Callers /\ calls'[c] = next
         /\ \A d \in Callers : d # c => calls'[d] = calls[d]
    BY <1>11 DEF KeeperInv, CallsTrue
  <1>13. InUse(r)'
    BY <1>6, <1>10 DEF InUse
  <1>14. CallTrue(calls[c])' /\ \A q \in Rows : ~StartOf(c, q) /\ ~StartOf(c, q)'
    <2>1. r # None
      BY RelayAssumption DEF None
    <2>2. CallTrue(next)'
      BY <1>4, <1>13, <2>1 DEF CallTrue, SubscriberCall, KeeperCall
    <2>3. call.op # "start" /\ next.op # "start"
      BY <1>3
    <2> HIDE DEF next
    <2>4. CallTrue(calls[c])'
      BY <1>12, <2>2 DEF CallTrue
    <2>5. QED
      BY <1>1, <1>12, <2>3, <2>4 DEF StartOf
  <1> HIDE DEF next
  <1>15. troubled' = troubled /\ troubled' \subseteq Rows
    BY <1>3 DEF KeeperInv, OthersTrue
  <1>16. OthersTrue'
    <2>1. \A q : InUse(q) => InUse(q)'
      BY <1>10 DEF RowsLast, InUse
    <2>2. \A q : HasStream(q) => HasStream(q)'
      BY <1>10, <2>1 DEF RowsLast, HasStream, InUse
    <2>3. /\ session' \in [status : {"open", "complete"}, subscription : {None} \cup Rows]
          /\ session'.subscription = r
      BY <1>3 DEF KeeperInv, OthersTrue
    <2>4. (session.subscription # None => InUse(session.subscription))'
      BY <1>13, <2>3 DEF InUse
    <2>5. QED
      BY <1>3, <1>15, <2>2, <2>3, <2>4 DEF KeeperInv, OthersTrue
  <1>17. r \notin troubled' => OneStart(r)'
    BY <1>2, <1>6, <1>10, <1>12, <1>14, <1>15, OneStartOfQuietRow
  <1>18. QED
    BY <1>2, <1>6, <1>10, <1>12, <1>14, <1>15, <1>16, <1>17, RowKeepsInv

-----------------------------------------------------------------------------
(* The sweep.                                                              *)

LEMMA SweepOthers ==
  ASSUME KeeperInv, UNCHANGED <<session, rows, troubled>>, faults' \in 0 .. MaxFaults,
         sweep' \in [due : SUBSET Rows, row : {None} \cup Rows],
         \A q \in sweep'.due : HasStream(q), sweep'.row # None => HasStream(sweep'.row)
  PROVE  OthersTrue'
  <1>1. \A q \in sweep'.due : HasStream(q)'
    BY DEF HasStream, InUse
  <1>2. (sweep.row # None => HasStream(sweep.row))'
    BY DEF HasStream, InUse
  <1>3. (session.subscription # None => InUse(session.subscription))'
    BY DEF KeeperInv, OthersTrue, InUse
  <1>4. QED
    BY <1>1, <1>2, <1>3 DEF KeeperInv, OthersTrue

LEMMA SweepKeepsInv ==
  ASSUME KeeperInv, UNCHANGED <<chain, session, rows, calls, troubled>>, faults' \in 0 .. MaxFaults,
         sweep' \in [due : SUBSET Rows, row : {None} \cup Rows],
         \A q \in sweep'.due : HasStream(q), sweep'.row # None => HasStream(sweep'.row)
  PROVE  KeeperInv'
  <1>1. OthersTrue'
    BY SweepOthers
  <1>2. ChainMoves /\ Payments' = Payments /\ Arriving' = Arriving /\ Made' = Made
    BY Rests
  <1>3. DOMAIN calls' = Callers
    BY DEF KeeperInv, CallsTrue
  <1>4. QED
    BY <1>1, <1>2, <1>3, RequestKeepsInv

LEMMA SelectKeepsInv ==
  ASSUME KeeperInv, SelectUnstarted
  PROVE  KeeperInv'
  <1>1. sweep' = [due |-> {r \in Rows : Unstarted(r)}, row |-> None]
    BY DEF SelectUnstarted, NoSweep
  <1>2. \A q \in sweep'.due : HasStream(q)
    BY <1>1 DEF Unstarted, Held, HasStream, InUse
  <1>3. sweep' \in [due : SUBSET Rows, row : {None} \cup Rows] /\ sweep'.row = None
    BY <1>1
  <1>4. UNCHANGED <<chain, session, rows, calls, troubled>> /\ faults' \in 0 .. MaxFaults
    BY DEF SelectUnstarted, requestVars, KeeperInv, OthersTrue
  <1>5. QED
    BY <1>2, <1>3, <1>4, SweepKeepsInv

LEMMA SkipKeepsInv ==
  ASSUME KeeperInv, NEW r \in Rows, SweepRefused(r) \/ SweepFails(r)
  PROVE  KeeperInv'
  <1>1. sweep' = [sweep EXCEPT !.due = @ \ {r}] /\ sweep.row = None
    BY DEF SweepRefused, SweepFails
  <1>2. /\ sweep \in [due : SUBSET Rows, row : {None} \cup Rows]
        /\ \A q \in sweep.due : HasStream(q)
    BY DEF KeeperInv, OthersTrue
  <1>3. /\ sweep' \in [due : SUBSET Rows, row : {None} \cup Rows]
        /\ sweep'.due \subseteq sweep.due /\ sweep'.row = None
    BY <1>1, <1>2
  <1>4. UNCHANGED <<chain, session, rows, calls, troubled>>
    BY DEF SweepRefused, SweepFails, requestVars
  <1>5. faults' \in 0 .. MaxFaults
    BY RelayAssumption DEF SweepRefused, SweepFails, Fault, KeeperInv, OthersTrue
  <1>6. QED
    BY <1>2, <1>3, <1>4, <1>5, SweepKeepsInv

LEMMA CutKeepsInv ==
  ASSUME KeeperInv, SweepCut
  PROVE  KeeperInv'
  <1>1. /\ sweep \in [due : SUBSET Rows, row : {None} \cup Rows]
        /\ \A q \in sweep.due : HasStream(q)
    BY DEF KeeperInv, OthersTrue
  <1>2. /\ sweep' \in [due : SUBSET Rows, row : {None} \cup Rows]
        /\ sweep'.due \subseteq sweep.due /\ sweep'.row = None
    <2>1. CASE sweep' = NoSweep
      BY <2>1 DEF NoSweep
    <2>2. CASE sweep' = [sweep EXCEPT !.row = None]
      BY <1>1, <2>2
    <2>3. QED
      BY <2>1, <2>2 DEF SweepCut
  <1>3. UNCHANGED <<chain, session, rows, calls, troubled>>
    BY DEF SweepCut
  <1>4. faults' \in 0 .. MaxFaults
    BY RelayAssumption DEF SweepCut, Fault, KeeperInv, OthersTrue
  <1>5. QED
    BY <1>1, <1>2, <1>3, <1>4, SweepKeepsInv

LEMMA SweepCancelKeepsInv ==
  ASSUME KeeperInv, NEW r \in Rows, SweepCancel(r)
  PROVE  KeeperInv'
  <1>1. /\ sweep \in [due : SUBSET Rows, row : {None} \cup Rows]
        /\ \A q \in sweep.due : HasStream(q)
    BY DEF KeeperInv, OthersTrue
  <1>2. /\ r \in sweep.due /\ Broadcast(Call("cancel", r, rows[r].stream))
        /\ sweep' = [due |-> sweep.due \ {r}, row |-> r]
        /\ UNCHANGED <<session, rows, calls, troubled>>
    BY DEF SweepCancel, requestVars
  <1>3. HasStream(r)
    BY <1>1, <1>2
  <1>4. ActsOnStream(Call("cancel", r, rows[r].stream))
    BY <1>3, CallOfRow DEF HasStream
  <1>5. PICK tx : tx = Call("cancel", r, rows[r].stream)
    OBVIOUS
  <1>6. /\ ChainMoves /\ faults' = faults /\ Payments' \subseteq Payments
        /\ Made' = Made /\ Arriving' = Arriving
    BY <1>2, <1>4, <1>5, CallMoves DEF KeeperInv
  <1>7. /\ sweep' \in [due : SUBSET Rows, row : {None} \cup Rows]
        /\ sweep'.due \subseteq sweep.due /\ sweep'.row = r
    BY <1>1, <1>2
  <1>8. faults' \in 0 .. MaxFaults
    BY <1>6 DEF KeeperInv, OthersTrue
  <1>9. OthersTrue'
    BY <1>1, <1>2, <1>3, <1>7, <1>8, SweepOthers
  <1>10. DOMAIN calls' = Callers
    BY <1>2 DEF KeeperInv, CallsTrue
  <1>11. QED
    BY <1>2, <1>6, <1>9, <1>10, RequestKeepsInv

LEMMA SweepStampKeepsInv ==
  ASSUME KeeperInv, SweepStamp
  PROVE  KeeperInv'
  <1>1. PICK r : r = sweep.row
    OBVIOUS
  <1>2. HasStream(r) /\ r \in Rows
    BY <1>1 DEF SweepStamp, KeeperInv, OthersTrue, HasStream, InUse
  <1>3. /\ rows' = [rows EXCEPT ![r].cancelSubmitted = "lately"]
        /\ sweep' = [sweep EXCEPT !.row = None]
        /\ UNCHANGED <<chain, session, calls, faults, troubled>>
    BY <1>1 DEF SweepStamp
  <1>4. QED
    BY <1>2, <1>3, CancelStamped

LEMMA AgesKeepsInv ==
  ASSUME KeeperInv, NEW r \in Rows, CancelAges(r)
  PROVE  KeeperInv'
  <1>1. /\ rows' = [rows EXCEPT ![r].cancelSubmitted = "before"] /\ rows[r].cancelSubmitted = "lately"
        /\ UNCHANGED <<chain, session, calls, faults, troubled, sweep>>
    BY DEF CancelAges
  <1>2. HasStream(r)
    <2>1. RowTrue(r) /\ rows[r].stream # None
      BY <1>1 DEF KeeperInv, RowsTrue, RowTrue
    <2>2. rows[r].status # "none"
      BY <1>1, <2>1 DEF RowTrue, NoRow
    <2>3. QED
      BY <2>1, <2>2 DEF HasStream, InUse
  <1>3. QED
    BY <1>1, <1>2, CancelStamped

-----------------------------------------------------------------------------
(* Ingest.                                                                 *)

LEMMA StreamIsPaid ==
  ASSUME NEW s \in Made
  PROVE  \E p \in Payments : p.id = s /\ p.row = streams[s].row /\ p.cap = streams[s].cap
  <1>1. Payment(s, streams[s].row, streams[s].cap) \in Payments
    BY PaymentIs
  <1>2. QED
    BY <1>1 DEF Payment

(* The row a log finds by its hash is the one its stream was paid for.     *)
LEMMA FoundIsRight ==
  ASSUME KeeperInv, NEW l \in Arriving, NEW q \in Rows, Finds(q, l)
  PROVE  /\ l.stream \in Made /\ streams[l.stream].row = q /\ l.stream # None
         /\ rows[q].stream = None => rows[q].pendingTx # None /\ l.tx = l.stream
         /\ InUse(q)
  <1>1. ChainTrue /\ RowTrue(q)
    BY DEF KeeperInv, RowsTrue
  <1>2. l.stream \in Made /\ l.stream # None
    BY <1>1, WaitingType, ChainType DEF None
  <1>3. PICK p \in Payments : p.id = l.stream /\ p.row = streams[l.stream].row
    BY <1>2, StreamIsPaid
  <1>4. CASE rows[q].stream = l.stream
    BY <1>1, <1>2, <1>4 DEF RowTrue, InUse, NoRow
  <1>5. CASE rows[q].stream = None /\ rows[q].pendingTx = l.tx /\ l.tx # None
    <2>1. Owned(l.tx, q)
      BY <1>1, <1>5 DEF RowTrue
    <2>2. l.stream = l.tx
      BY <2>1 DEF Owned
    <2>3. p.row = q
      BY <1>3, <2>1, <2>2 DEF Owned
    <2>4. rows[q].status # "none"
      BY <1>1, <1>5 DEF RowTrue, NoRow
    <2>5. QED
      BY <1>2, <1>3, <1>5, <2>2, <2>3, <2>4 DEF InUse
  <1>6. QED
    BY <1>4, <1>5 DEF Finds

(* A StreamCreated that is applied finds its row, unless that one's start  *)
(* was doubled or its hash lost.                                           *)
LEMMA CreatedFinds ==
  ASSUME KeeperInv, NEW s \in Made, NEW l \in Arriving, l = Log("StreamCreated", s, s), Recorded(l),
         streams[s].row \notin troubled
  PROVE  streams[s].row \in Rows /\ Finds(streams[s].row, l)
  <1>1. PICK r : r = streams[s].row
    OBVIOUS
  <1>2. r \in Rows /\ s # None
    <2>1. s \in 1 .. sent /\ streams[s] \in StreamTypes
      BY ChainType DEF KeeperInv
    <2>2. QED
      BY <1>1, <2>1, ChainType DEF StreamTypes, None, KeeperInv
  <1>3. PICK p \in Payments : p.id = s /\ p.row = r
    BY <1>1, StreamIsPaid
  <1>4. OneStart(r) /\ RowTrue(r)
    BY <1>1, <1>2 DEF KeeperInv, RowsTrue
  <1>5. ASSUME NEW c \in Callers, StartOf(c, r)
        PROVE  FALSE
    <2>1. StartIsAlone(c, r) /\ CallTrue(calls[c]) /\ calls[c].op = "start"
      BY <1>4, <1>5 DEF OneStart, KeeperInv, CallsTrue, StartOf
    <2>2. calls[c].step = "record"
      BY <1>3, <2>1 DEF StartIsAlone, NoneFor, CallTrue, SubscriberCall
    <2>3. calls[c].tx = s
      BY <1>3, <2>1, <2>2 DEF StartIsAlone
    <2>4. calls[c] # Idle
      BY <2>1 DEF Idle
    <2>5. QED
      BY <2>2, <2>3, <2>4 DEF Recorded, Busy, Log
  <1>6. rows[r].pendingTx # None
    BY <1>3, <1>4, <1>5 DEF OneStart, NoneFor
  <1>7. CASE rows[r].stream = None
    BY <1>1, <1>2, <1>3, <1>4, <1>6, <1>7 DEF OneStart, Finds, Log
  <1>8. CASE rows[r].stream # None
    <2>1. rows[r].stream \in Made /\ streams[rows[r].stream].row = r
      BY <1>4, <1>8 DEF RowTrue
    <2>2. PICK q \in Payments : q.id = rows[r].stream /\ q.row = r
      BY <2>1, StreamIsPaid
    <2>3. rows[r].stream = s
      BY <1>3, <1>4, <2>2 DEF OneStart
    <2>4. QED
      BY <1>1, <1>2, <2>3 DEF Finds, Log
  <1>9. QED
    BY <1>7, <1>8

(* What ingest takes from the logs.                                        *)
LEMMA IngestTakes ==
  ASSUME KeeperInv, IngestLog, NEW l, l = Head(logs)
  PROVE  /\ l \in Arriving /\ l \in Logs /\ Arriving = {l} \cup Arriving' /\ Recorded(l)
         /\ ChainMoves /\ Payments' = Payments /\ Made' = Made /\ streams' = streams
         /\ UNCHANGED <<calls, faults, troubled>> /\ DOMAIN calls' = Callers
  <1>1. ChainTrue /\ logs \in Seq(Logs) /\ logs # <<>> /\ logs' = Tail(logs) /\ Recorded(l)
    BY ChainType DEF KeeperInv, IngestLog
  <1>2. logs' \in Seq(Logs) /\ l \in Arriving /\ Arriving = {l} \cup Arriving'
    <2>1. PICK old : old = logs
      OBVIOUS
    <2>2. /\ Tail(old) \in Seq(Logs) /\ Head(old) \in ToSet(old)
          /\ ToSet(old) = {Head(old)} \cup ToSet(Tail(old))
      BY <1>1, <2>1, SetOfTail
    <2>3. QED
      BY <1>1, <2>1, <2>2 DEF Arriving
  <1>3. UNCHANGED <<sent, mempool, streams, nonces, calls, faults, troubled>>
    BY DEF IngestLog
  <1>4. UNCHANGED <<Made, Waiting, Payments>>
    BY <1>3 DEF Made, Waiting, Payments
  <1>5. ChainMoves
    BY <1>1, <1>2, <1>3, <1>4, WaitingShrinks, ChainType
  <1>6. l \in Logs /\ DOMAIN calls' = Callers
    BY <1>1, <1>2, <1>3, WaitingType DEF KeeperInv, CallsTrue
  <1>7. QED
    BY <1>1, <1>2, <1>3, <1>4, <1>5, <1>6

(* What a log makes of the row it finds.                                   *)
LEMMA RowAfterType ==
  ASSUME NEW r \in Rows, NEW old \in RowTypes, old = rows[r], NEW l \in Logs, old.status # "none"
  PROVE  /\ RowAfter(r, l) \in RowTypes /\ RowAfter(r, l).status # "none"
         /\ RowAfter(r, l).wallet = old.wallet /\ RowAfter(r, l).cap = old.cap
         /\ RowAfter(r, l).pendingTx = old.pendingTx /\ RowAfter(r, l).permits = old.permits
         /\ RowAfter(r, l).startSubmitted = old.startSubmitted
         /\ RowAfter(r, l).cancelSubmitted = old.cancelSubmitted
         /\ RowAfter(r, l).stream = IF l.event = "StreamCreated" THEN l.stream ELSE old.stream
  <1>1. CASE l.event = "StreamCreated"
    <2>1. RowAfter(r, l) = [old EXCEPT !.stream = l.stream]
      BY <1>1 DEF RowAfter
    <2>2. l.stream \in Nat
      BY DEF Logs
    <2>3. PICK row : row = [old EXCEPT !.stream = l.stream]
      OBVIOUS
    <2>4. row \in RowTypes
      BY <2>2, <2>3 DEF RowTypes
    <2>5. row.status = old.status /\ row.wallet = old.wallet /\ row.cap = old.cap
      BY <2>3 DEF RowTypes
    <2>6. row.pendingTx = old.pendingTx /\ row.stream = l.stream
      BY <2>3 DEF RowTypes
    <2>7. /\ row.startSubmitted = old.startSubmitted /\ row.permits = old.permits
          /\ row.cancelSubmitted = old.cancelSubmitted
      BY <2>3 DEF RowTypes
    <2>8. QED
      BY <1>1, <2>1, <2>3, <2>4, <2>5, <2>6, <2>7
  <1>2. CASE l.event = "Deposited"
    <2>1. RowAfter(r, l) = [old EXCEPT !.funded = TRUE]
      BY <1>2 DEF RowAfter
    <2>2. PICK row : row = [old EXCEPT !.funded = TRUE]
      OBVIOUS
    <2>3. row \in RowTypes
      BY <2>2 DEF RowTypes
    <2>4. row.status = old.status /\ row.wallet = old.wallet /\ row.cap = old.cap
      BY <2>2 DEF RowTypes
    <2>5. row.pendingTx = old.pendingTx /\ row.stream = old.stream
      BY <2>2 DEF RowTypes
    <2>6. /\ row.startSubmitted = old.startSubmitted /\ row.permits = old.permits
          /\ row.cancelSubmitted = old.cancelSubmitted
      BY <2>2 DEF RowTypes
    <2>7. QED
      BY <1>2, <2>1, <2>2, <2>3, <2>4, <2>5, <2>6
  <1>3. CASE l.event \notin {"StreamCreated", "Deposited"}
    <2>1. PICK status \in {"active", "paused", "canceled"} : RowAfter(r, l) = [old EXCEPT !.status = status]
      BY <1>3 DEF RowAfter
    <2>2. PICK row : row = [old EXCEPT !.status = status]
      OBVIOUS
    <2>3. row \in RowTypes
      BY <2>2 DEF RowTypes
    <2>4. row.status = status /\ row.wallet = old.wallet /\ row.cap = old.cap
      BY <2>2 DEF RowTypes
    <2>5. row.pendingTx = old.pendingTx /\ row.stream = old.stream
      BY <2>2 DEF RowTypes
    <2>6. /\ row.startSubmitted = old.startSubmitted /\ row.permits = old.permits
          /\ row.cancelSubmitted = old.cancelSubmitted
      BY <2>2 DEF RowTypes
    <2>7. QED
      BY <1>3, <2>1, <2>2, <2>3, <2>4, <2>5, <2>6
  <1>4. QED
    BY <1>1, <1>2, <1>3

(* A log nobody answers to: its stream's row is in trouble.                *)
LEMMA IgnoredKeepsInv ==
  ASSUME KeeperInv, IngestLog, \A r \in Rows : ~Finds(r, Head(logs)), UNCHANGED sweep
  PROVE  KeeperInv'
  <1>1. PICK l : l = Head(logs)
    OBVIOUS
  <1>2. /\ l \in Arriving /\ l \in Logs /\ Arriving = {l} \cup Arriving' /\ Recorded(l)
        /\ ChainMoves /\ Payments' = Payments /\ Made' = Made /\ streams' = streams
        /\ UNCHANGED <<calls, faults, troubled>> /\ DOMAIN calls' = Callers
    BY <1>1, IngestTakes
  <1>3. UNCHANGED <<rows, session>>
    BY DEF IngestLog
  <1>4. RowsLast /\ rows' \in [Rows -> RowTypes]
    BY <1>3 DEF RowsLast, KeeperInv, RowsTrue
  <1>5. OthersTrue'
    BY <1>2, <1>3, OthersRest DEF KeeperInv, OthersTrue
  <1>6. ASSUME NEW r \in Rows \ troubled'
        PROVE  OneStart(r)'
    BY <1>2, <1>3, OneStartOfQuietRow
  <1>7. ASSUME NEW s \in Made'
        PROVE  \/ /\ s \in Made
                  /\ Log("StreamCreated", s, s) \in Arriving => Log("StreamCreated", s, s) \in Arriving'
               \/ BoundOrHeard(s)'
    <2>1. CASE l = Log("StreamCreated", s, s)
      <3>1. streams[s].row \in troubled
        BY <1>1, <1>2, <2>1, CreatedFinds
      <3>2. QED
        BY <1>2, <3>1 DEF BoundOrHeard
    <2>2. CASE l # Log("StreamCreated", s, s)
      BY <1>2, <2>2
    <2>3. QED
      BY <2>1, <2>2
  <1>8. QED
    BY <1>2, <1>3, <1>4, <1>5, <1>6, <1>7, StepKeepsInv

LEMMA AppliedKeepsInv ==
  ASSUME KeeperInv, IngestLog, NEW r \in Rows, Finds(r, Head(logs)), UNCHANGED sweep,
         rows' = [rows EXCEPT ![r] = RowAfter(r, Head(logs))],
         session' = IF Completes(Head(logs)) THEN [status |-> "complete", subscription |-> r] ELSE session
  PROVE  KeeperInv'
  <1>1. PICK l : l = Head(logs)
    OBVIOUS
  <1>2. /\ l \in Arriving /\ l \in Logs /\ Arriving = {l} \cup Arriving' /\ Recorded(l)
        /\ ChainMoves /\ Payments' = Payments /\ Made' = Made /\ streams' = streams
        /\ UNCHANGED <<calls, faults, troubled>> /\ DOMAIN calls' = Callers
    BY <1>1, IngestTakes
  <1>3. PICK old, row : old = rows[r] /\ row = RowAfter(r, l)
    OBVIOUS
  <1>4. /\ l.stream \in Made /\ streams[l.stream].row = r /\ l.stream # None
        /\ old.stream = None => old.pendingTx # None
        /\ InUse(r)
    BY <1>1, <1>2, <1>3, FoundIsRight
  <1>5. /\ old \in RowTypes /\ old.status # "none" /\ old.wallet \in Wallets /\ RowTrue(r)
        /\ old.startSubmitted \/ old.cancelSubmitted # "never" => old.stream # None
        /\ old.stream = None \/ old.stream = l.stream
    <2>1. /\ old \in RowTypes /\ old.status # "none" /\ old.wallet \in Wallets
          /\ old.startSubmitted \/ old.cancelSubmitted # "never" => old.stream # None
      BY <1>3, <1>4, RowInUse
    <2>2. old.stream = None \/ old.stream = l.stream
      BY <1>1, <1>3 DEF Finds
    <2>3. QED
      BY <2>1, <2>2 DEF KeeperInv, RowsTrue
  <1>6. /\ row \in RowTypes /\ row.status # "none"
        /\ row.wallet = old.wallet /\ row.cap = old.cap /\ row.pendingTx = old.pendingTx
        /\ row.startSubmitted = old.startSubmitted /\ row.cancelSubmitted = old.cancelSubmitted
        /\ row.stream = IF l.event = "StreamCreated" THEN l.stream ELSE old.stream
    BY <1>2, <1>3, <1>5, RowAfterType
  <1>7. row.stream = old.stream \/ row.stream = l.stream
    BY <1>6
  <1>8. rows' \in [Rows -> RowTypes] /\ rows'[r] = row /\ \A q \in Rows : q # r => rows'[q] = rows[q]
    BY <1>1, <1>3, <1>6 DEF KeeperInv, RowsTrue
  <1>9. RowTrue(r)'
    <2>1. row.stream # None => row.stream \in Made' /\ streams'[row.stream].row = r
      BY <1>2, <1>3, <1>4, <1>5, <1>7 DEF RowTrue
    <2>2. row.stream = None /\ row.pendingTx # None => Owned(row.pendingTx, r)'
      <3>1. row.stream = None /\ row.pendingTx # None => Owned(row.pendingTx, r)
        BY <1>3, <1>4, <1>5, <1>6, <1>7 DEF RowTrue
      <3>2. QED
        BY <1>2, <3>1, OwnedStays DEF KeeperInv
    <2>3. row.startSubmitted \/ row.cancelSubmitted # "never" => row.stream # None
      BY <1>4, <1>5, <1>6, <1>7
    <2>4. QED
      BY <1>5, <1>6, <1>8, <2>1, <2>2, <2>3 DEF RowTrue
  <1>10. \A q \in Rows : rows[q].stream # None => rows'[q].stream = rows[q].stream
    BY <1>3, <1>5, <1>6, <1>8
  <1>11. RowsLast
    BY <1>3, <1>6, <1>8, <1>10 DEF RowsLast
  <1>12. OthersTrue'
    <2>1. \A q : InUse(q) => InUse(q)'
      BY <1>11 DEF RowsLast, InUse
    <2>2. \A q : HasStream(q) => HasStream(q)'
      BY <1>11, <2>1 DEF RowsLast, HasStream, InUse
    <2>3. /\ session' \in [status : {"open", "complete"}, subscription : {None} \cup Rows]
          /\ session'.subscription \in {r, session.subscription}
      BY DEF KeeperInv, OthersTrue
    <2>4. (session.subscription # None => InUse(session.subscription))'
      <3>1. PICK q : q = session'.subscription
        OBVIOUS
      <3>2. q # None => InUse(q)
        BY <1>4, <2>3, <3>1 DEF KeeperInv, OthersTrue
      <3>3. q # None => InUse(q)'
        BY <2>1, <3>2
      <3>4. QED
        BY <3>1, <3>3 DEF InUse
    <2>5. QED
      BY <1>2, <2>2, <2>3, <2>4 DEF KeeperInv, OthersTrue
  <1>13. ASSUME NEW q \in Rows \ troubled'
         PROVE  OneStart(q)'
    <2>1. OneStart(q)
      BY <1>2 DEF KeeperInv
    <2>2. CASE q # r \/ row.stream = old.stream
      BY <1>2, <1>3, <1>6, <1>8, <2>2, OneStartOfQuietRow
    <2>3. CASE q = r /\ row.stream # old.stream
      <3>1. old.stream = None /\ old.pendingTx # None /\ row.stream # None
        BY <1>4, <1>5, <1>7, <2>3
      <3>2. \A c \in Callers : ~StartOf(c, r)
        BY <1>3, <2>1, <2>3, <3>1 DEF OneStart, StartIsAlone
      <3>3. \A c \in Callers : ~StartOf(c, r)'
        BY <1>2, <3>2 DEF StartOf
      <3>4. \A p, o \in Payments : p.row = r /\ o.row = r => p.id = o.id
        BY <1>3, <2>1, <2>3 DEF OneStart
      <3>5. QED
        BY <1>2, <1>6, <1>8, <2>3, <3>1, <3>3, <3>4 DEF OneStart
    <2>4. QED
      BY <2>2, <2>3
  <1>14. ASSUME NEW s \in Made'
         PROVE  \/ /\ s \in Made
                   /\ Log("StreamCreated", s, s) \in Arriving => Log("StreamCreated", s, s) \in Arriving'
                \/ BoundOrHeard(s)'
    <2>1. CASE l = Log("StreamCreated", s, s)
      <3>1. l.event = "StreamCreated" /\ l.stream = s
        BY <2>1 DEF Log
      <3>2. row.stream = s /\ streams'[s].row = r
        BY <1>2, <1>4, <1>6, <3>1
      <3>3. QED
        BY <1>8, <3>2 DEF BoundOrHeard
    <2>2. CASE l # Log("StreamCreated", s, s)
      BY <1>2, <2>2
    <2>3. QED
      BY <2>1, <2>2
  <1>15. \A q \in Rows : rows'[q] = rows[q] \/ RowTrue(q)'
    BY <1>8, <1>9
  <1>16. QED
    BY <1>2, <1>8, <1>10, <1>11, <1>12, <1>13, <1>14, <1>15, StepKeepsInv

LEMMA IngestKeepsInv ==
  ASSUME KeeperInv, Ingests
  PROVE  KeeperInv'
  <1>1. IngestLog /\ UNCHANGED sweep
    BY DEF Ingests
  <1>2. CASE \A r \in Rows : ~Finds(r, Head(logs))
    BY <1>1, <1>2, IgnoredKeepsInv
  <1>3. CASE \E r \in Rows : Finds(r, Head(logs))
    <2>1. PICK r \in Rows :
            /\ Finds(r, Head(logs))
            /\ rows' = [rows EXCEPT ![r] = RowAfter(r, Head(logs))]
            /\ session' = IF Completes(Head(logs)) THEN [status |-> "complete", subscription |-> r] ELSE session
      BY <1>1, <1>3 DEF IngestLog
    <2>2. QED
      BY <1>1, <2>1, AppliedKeepsInv
  <1>4. QED
    BY <1>2, <1>3

-----------------------------------------------------------------------------
(* The invariant is inductive.                                             *)

LEMMA InitKeeperInv == KeeperInit => KeeperInv
  <1> SUFFICES ASSUME KeeperInit PROVE KeeperInv
    OBVIOUS
  <1>1. /\ sent = 0 /\ mempool = <<>> /\ logs = <<>> /\ faults = 0
        /\ streams = [s \in {} |-> None] /\ nonces = [w \in Wallets |-> 1]
        /\ session = [status |-> "open", subscription |-> None]
        /\ rows = [r \in Rows |-> NoRow] /\ calls = [c \in Callers |-> Idle]
        /\ troubled = {} /\ sweep = NoSweep
    BY DEF KeeperInit, CheckoutInit, RelayInit
  <1>2. Made = {} /\ Waiting = {} /\ Arriving = {}
    BY <1>1 DEF Made, Waiting, Arriving, ToSet
  <1>3. Payments = {}
    BY <1>2 DEF Payments
  <1>4. ChainTrue
    BY <1>1, <1>2 DEF ChainTrue
  <1>5. RowsTrue
    BY <1>1 DEF RowsTrue, RowTrue, RowTypes, NoRow, None
  <1>6. CallsTrue
    BY <1>1, IdleTrue DEF CallsTrue
  <1>7. OthersTrue
    BY <1>1, RelayAssumption DEF OthersTrue, NoSweep, None
  <1>8. \A r \in Rows \ troubled : OneStart(r)
    BY <1>1, <1>3 DEF OneStart, NoneFor, StartOf, Idle
  <1>9. QED
    BY <1>2, <1>4, <1>5, <1>6, <1>7, <1>8 DEF KeeperInv

LEMMA ReadsKeepInv ==
  ASSUME KeeperInv, NEW c \in Callers, Reads(c)
  PROVE  KeeperInv'
  <1>1. UNCHANGED <<chain, sweep>>
    BY DEF Reads
  <1>2. CASE \E offer \in Offers : LoadForPrepare(c, offer[1], offer[2])
    BY <1>1, <1>2, LoadForPrepareKeepsInv
  <1>3. CASE \E r \in Rows : PrepareRow(c, r)
    BY <1>1, <1>3, PrepareRowKeepsInv
  <1>4. CASE \E op \in {"start", "cancel", "pause", "resume"}, r \in Rows : LoadForKeeper(c, op, r)
    BY <1>1, <1>4, LoadForKeeperKeepsInv
  <1>5. QED
    BY <1>1, <1>2, <1>3, <1>4, PermitKeepsInv, LoadForStartKeepsInv, LoadForCancelKeepsInv,
       RefusedKeepsInv, FailsKeepsInv DEF Reads

LEMMA StutterKeepsInv ==
  ASSUME KeeperInv, UNCHANGED allVars
  PROVE  KeeperInv'
  <1>1. UNCHANGED <<chain, session, rows, calls, troubled, sweep, faults>>
    BY DEF allVars, requestVars
  <1>2. /\ sweep' \in [due : SUBSET Rows, row : {None} \cup Rows] /\ faults' \in 0 .. MaxFaults
        /\ \A q \in sweep'.due : HasStream(q)
        /\ sweep'.row # None => HasStream(sweep'.row)
    BY <1>1 DEF KeeperInv, OthersTrue
  <1>3. QED
    BY <1>1, <1>2, SweepKeepsInv

LEMMA NextKeeperInv == KeeperInv /\ [KeeperNext]_allVars => KeeperInv'
  <1> SUFFICES ASSUME KeeperInv, [KeeperNext]_allVars PROVE KeeperInv'
    OBVIOUS
  <1>1. ASSUME NEW c \in Callers, Reads(c)
        PROVE  KeeperInv'
    BY <1>1, ReadsKeepInv
  <1>2. ASSUME NEW c \in Callers, Writes(c)
        PROVE  KeeperInv'
    BY <1>2, StartRecordKeepsInv, KeeperStampKeepsInv DEF Writes
  <1>3. ASSUME NEW c \in Callers, Sends(c)
        PROVE  KeeperInv'
    BY <1>3, StartSendKeepsInv, KeeperSendKeepsInv DEF Sends
  <1>4. CASE ChainStep
    BY <1>4, ChainKeepsInv
  <1>5. CASE Ingests
    BY <1>5, IngestKeepsInv
  <1>6. CASE SweepStep
    BY <1>6, SelectKeepsInv, SweepCancelKeepsInv, SkipKeepsInv, SweepStampKeepsInv DEF SweepStep
  <1>7. CASE \E r \in Rows : SweepFails(r) \/ CancelAges(r)
    BY <1>7, SkipKeepsInv, AgesKeepsInv
  <1>8. CASE SweepCut
    BY <1>8, CutKeepsInv
  <1>9. CASE UNCHANGED allVars
    BY <1>9, StutterKeepsInv
  <1>10. QED
    BY <1>1, <1>2, <1>3, <1>4, <1>5, <1>6, <1>7, <1>8, <1>9 DEF KeeperNext

(* The relayer's transactions, the rows, the requests under way and the    *)
(* sweep agree, in every state of every run.                               *)
THEOREM KeeperInvariance == KeeperSpec => []KeeperInv
  <1>1. KeeperInit => KeeperInv
    BY InitKeeperInv
  <1>2. KeeperInv /\ [KeeperNext]_allVars => KeeperInv'
    BY NextKeeperInv
  <1>3. QED
    BY <1>1, <1>2, PTL DEF KeeperSpec

-----------------------------------------------------------------------------
(* What follows from it.                                                   *)

(* Every variable keeps its type, and a request and the sweep name rows    *)
(* that exist; no stamp is on a row without a stream.                      *)
THEOREM KeeperTypeCorrect == KeeperSpec => []KeeperTypeOK
  <1>1. KeeperInv => KeeperTypeOK
    <2> SUFFICES ASSUME KeeperInv PROVE KeeperTypeOK
      OBVIOUS
    <2>1. /\ session \in [status : {"open", "complete"}, subscription : {None} \cup Rows]
          /\ sweep.due \subseteq Rows /\ sweep.row \in {None} \cup Rows
          /\ faults \in 0 .. MaxFaults /\ troubled \subseteq Rows
      BY DEF KeeperInv, OthersTrue
    <2>2. ASSUME NEW r \in Rows
          PROVE  /\ rows[r].status \in {"none", "incomplete", "active", "paused", "canceled"}
                 /\ rows[r].stream \in {None} \cup Made
                 /\ rows[r].startSubmitted \/ rows[r].cancelSubmitted # "never" => rows[r].stream # None
      <3>1. rows[r] \in RowTypes /\ RowTrue(r)
        BY DEF KeeperInv, RowsTrue
      <3>2. QED
        BY <3>1 DEF RowTrue, RowTypes
    <2>3. \A c \in Busy : calls[c].row \in {None} \cup Rows
      <3>1. \A c \in Callers : CallTrue(calls[c])
        BY DEF KeeperInv, CallsTrue
      <3>2. QED
        BY <3>1 DEF Busy, CallTrue, SubscriberCall, KeeperCall, InUse
    <2>4. QED
      BY <2>1, <2>2, <2>3 DEF KeeperTypeOK
  <1>2. QED
    BY <1>1, KeeperInvariance, PTL

(* Once its logs have been applied, a stream is bound to the row whose     *)
(* start paid for it, unless that row's start was doubled or lost its      *)
(* hash: no stream escapes the keeper.                                     *)
THEOREM StreamsStayBound == KeeperSpec => []StreamsAreBound
  <1>1. KeeperInv => StreamsAreBound
    <2> SUFFICES ASSUME KeeperInv, NEW s \in Made, Ingested(s)
                 PROVE  rows[streams[s].row].stream = s \/ streams[s].row \in troubled
      BY DEF StreamsAreBound
    <2>1. logs \in Seq(Logs)
      BY ChainType DEF KeeperInv
    <2>2. \A l \in Arriving : l.stream # s
      BY <2>1 DEF Arriving, ToSet, Ingested
    <2>3. Log("StreamCreated", s, s) \notin Arriving
      BY <2>2 DEF Log
    <2>4. QED
      BY <2>3 DEF KeeperInv, BoundOrHeard
  <1>2. QED
    BY <1>1, KeeperInvariance, PTL
-----------------------------------------------------------------------------
(* What a step does to a row: its wallet stays, permits are only added, and *)
(* but for a prepare's the cap and the hash it goes by stay what they were. *)

Keeps(q) ==
  rows[q].status # "none" =>
    /\ rows'[q].status # "none" /\ rows'[q].wallet = rows[q].wallet
    /\ rows[q].permits \subseteq rows'[q].permits

PaysTheSame(q) == rows'[q].cap = rows[q].cap /\ Hash(q)' \in Hashes(q)

LEMMA SameRow ==
  ASSUME NEW q, rows'[q] = rows[q]
  PROVE  Keeps(q) /\ PaysTheSame(q)
  BY DEF Keeps, PaysTheSame, Hash, Hashes

(* A row is written that keeps all this.                                   *)
LEMMA SameButStamps ==
  ASSUME KeeperInv, NEW r \in Rows, NEW row, rows' = [rows EXCEPT ![r] = row],
         row.status = rows[r].status, row.wallet = rows[r].wallet,
         row.cap = rows[r].cap, rows[r].permits \subseteq row.permits,
         row.stream = rows[r].stream,
         row.pendingTx = rows[r].pendingTx \/ rows[r].stream # None
  PROVE  \A q \in Rows : Keeps(q) /\ PaysTheSame(q)
  <1>1. rows'[r] = row /\ \A q \in Rows : q # r => rows'[q] = rows[q]
    BY DEF KeeperInv, RowsTrue
  <1>2. Keeps(r) /\ PaysTheSame(r)
    BY <1>1 DEF Keeps, PaysTheSame, Hash, Hashes
  <1>3. QED
    BY <1>1, <1>2, SameRow

LEMMA CancelStampKeeps ==
  ASSUME KeeperInv, NEW r \in Rows, NEW stamp, rows' = [rows EXCEPT ![r].cancelSubmitted = stamp]
  PROVE  \A q \in Rows : Keeps(q) /\ PaysTheSame(q)
  <1>1. PICK old, row : old = rows[r] /\ row = [old EXCEPT !.cancelSubmitted = stamp]
    OBVIOUS
  <1>2. old \in RowTypes
    BY <1>1 DEF KeeperInv, RowsTrue
  <1>3. row.status = old.status /\ row.wallet = old.wallet /\ row.cap = old.cap
    BY <1>1, <1>2 DEF RowTypes
  <1>4. row.permits = old.permits /\ row.stream = old.stream /\ row.pendingTx = old.pendingTx
    BY <1>1, <1>2 DEF RowTypes
  <1>5. rows' = [rows EXCEPT ![r] = row]
    BY <1>1
  <1>6. QED
    BY <1>1, <1>3, <1>4, <1>5, SameButStamps

LEMMA KeeperStampKeeps ==
  ASSUME KeeperInv, NEW c \in Callers, KeeperStamp(c)
  PROVE  \A q \in Rows : Keeps(q) /\ PaysTheSame(q)
  <1>1. PICK call : call = calls[c]
    OBVIOUS
  <1>2. call.op = "keeper" /\ call.step = "stamp"
    BY <1>1 DEF KeeperStamp
  <1>3. PICK r : r = call.row
    OBVIOUS
  <1>4. InUse(r) /\ rows[r].stream # None
    BY <1>1, <1>2, <1>3 DEF KeeperInv, CallsTrue, CallTrue, KeeperCall
  <1>5. CASE call.kind # "start"
    <2>1. rows' = [rows EXCEPT ![r].cancelSubmitted = "lately"]
      BY <1>1, <1>3, <1>5 DEF KeeperStamp
    <2>2. QED
      BY <1>4, <2>1, CancelStampKeeps DEF InUse
  <1>6. CASE call.kind = "start"
    <2>1. PICK old, row : /\ old = rows[r]
                          /\ row = [old EXCEPT !.pendingTx = call.tx, !.startSubmitted = TRUE]
      OBVIOUS
    <2>2. old \in RowTypes
      BY <1>4, <2>1 DEF KeeperInv, RowsTrue, InUse
    <2>3. row.status = old.status /\ row.wallet = old.wallet /\ row.cap = old.cap
      BY <2>1, <2>2 DEF RowTypes
    <2>4. row.permits = old.permits /\ row.stream = old.stream
      BY <2>1, <2>2 DEF RowTypes
    <2>5. rows' = [rows EXCEPT ![r] = row]
      BY <1>1, <1>3, <1>6, <2>1 DEF KeeperStamp
    <2>6. QED
      BY <1>4, <2>1, <2>3, <2>4, <2>5, SameButStamps DEF InUse
  <1>7. QED
    BY <1>5, <1>6

LEMMA PermitKeeps ==
  ASSUME KeeperInv, NEW c \in Callers, PreparePermit(c)
  PROVE  \A q \in Rows : Keeps(q) /\ PaysTheSame(q)
  <1>1. PICK call : call = calls[c]
    OBVIOUS
  <1>2. PICK r : r = call.row
    OBVIOUS
  <1>3. InUse(r)
    BY <1>1, <1>2 DEF PreparePermit, KeeperInv, CallsTrue, CallTrue, SubscriberCall
  <1>4. PICK old, n : old = rows[r] /\ n = nonces[old.wallet]
    OBVIOUS
  <1>5. PICK row : row = [old EXCEPT !.nonce = n, !.permits = @ \cup {<<n, call.cap>>}]
    OBVIOUS
  <1>6. old \in RowTypes /\ rows \in [Rows -> RowTypes] /\ r \in Rows
    BY <1>3, <1>4 DEF KeeperInv, RowsTrue, InUse
  <1>7. row.status = old.status /\ row.wallet = old.wallet /\ row.cap = old.cap
    BY <1>5, <1>6 DEF RowTypes
  <1>8. row.permits = old.permits \cup {<<n, call.cap>>}
    BY <1>5, <1>6 DEF RowTypes
  <1>9. row.stream = old.stream /\ row.pendingTx = old.pendingTx
    BY <1>5, <1>6 DEF RowTypes
  <1>10. rows' = [rows EXCEPT ![r] = row]
    <2>1. rows' = [rows EXCEPT ![r].nonce = n, ![r].permits = @ \cup {<<n, call.cap>>}]
      BY <1>1, <1>2, <1>4 DEF PreparePermit
    <2>2. QED
      BY <1>4, <1>5, <1>6, <2>1 DEF RowTypes
  <1>11. QED
    BY <1>4, <1>6, <1>7, <1>8, <1>9, <1>10, SameButStamps

LEMMA RecordKeeps ==
  ASSUME KeeperInv, NEW c \in Callers, StartRecord(c)
  PROVE  \A q \in Rows : Keeps(q) /\ PaysTheSame(q)
  <1>1. PICK call : call = calls[c]
    OBVIOUS
  <1>2. PICK r, old : r = call.row /\ old = rows[r]
    OBVIOUS
  <1>3. call.op = "start" /\ call.step = "record"
    BY <1>1 DEF StartRecord
  <1>4. InUse(r) /\ r \in Rows /\ old \in RowTypes
    BY <1>1, <1>2, <1>3 DEF KeeperInv, CallsTrue, CallTrue, SubscriberCall, RowsTrue, InUse
  <1>5. PICK row : row = [old EXCEPT !.pendingTx = call.tx]
    OBVIOUS
  <1>6. row.status = old.status /\ row.wallet = old.wallet /\ row.cap = old.cap
    BY <1>4, <1>5 DEF RowTypes
  <1>7. row.permits = old.permits /\ row.stream = old.stream /\ row.pendingTx = call.tx
    BY <1>4, <1>5 DEF RowTypes
  <1>8. rows' = [rows EXCEPT ![r] = row]
    BY <1>1, <1>2, <1>5 DEF StartRecord
  <1>9. rows'[r] = row /\ \A q \in Rows : q # r => rows'[q] = rows[q]
    BY <1>4, <1>8 DEF KeeperInv, RowsTrue
  <1>10. call.tx \in Hashes(r)
    BY <1>1, <1>2, <1>3 DEF Hashes, StartsAt, Busy, Idle
  <1>11. Keeps(r) /\ PaysTheSame(r)
    BY <1>2, <1>6, <1>7, <1>9, <1>10 DEF Keeps, PaysTheSame, Hash, Hashes
  <1>12. QED
    BY <1>9, <1>11, SameRow

LEMMA IngestsKeep ==
  ASSUME KeeperInv, IngestLog
  PROVE  \A q \in Rows : Keeps(q) /\ PaysTheSame(q)
  <1>1. PICK l : l = Head(logs)
    OBVIOUS
  <1>2. l \in Arriving /\ l \in Logs
    BY <1>1, IngestTakes
  <1>3. CASE \A r \in Rows : ~Finds(r, l)
    <2>1. rows' = rows
      BY <1>1, <1>3 DEF IngestLog
    <2>2. QED
      BY <2>1, SameRow
  <1>4. CASE \E r \in Rows : Finds(r, l)
    <2>1. PICK r \in Rows : Finds(r, l) /\ rows' = [rows EXCEPT ![r] = RowAfter(r, l)]
      BY <1>1, <1>4 DEF IngestLog
    <2>2. PICK old, row : old = rows[r] /\ row = RowAfter(r, l)
      OBVIOUS
    <2>3. /\ l.stream # None /\ InUse(r) /\ (old.stream = None => old.pendingTx = l.stream)
          /\ old.stream = None \/ old.stream = l.stream
      BY <1>2, <2>1, <2>2, FoundIsRight DEF Finds
    <2>4. old \in RowTypes /\ old.status # "none"
      BY <2>2, <2>3, RowInUse
    <2>5. /\ row.status # "none" /\ row.wallet = old.wallet /\ row.cap = old.cap
          /\ row.pendingTx = old.pendingTx /\ row.permits = old.permits
          /\ row.stream = IF l.event = "StreamCreated" THEN l.stream ELSE old.stream
      BY <1>2, <2>2, <2>4, RowAfterType
    <2>6. rows'[r] = row /\ \A q \in Rows : q # r => rows'[q] = rows[q]
      BY <2>1, <2>2 DEF KeeperInv, RowsTrue
    <2>7. Keeps(r) /\ PaysTheSame(r)
      BY <2>2, <2>3, <2>5, <2>6 DEF Keeps, PaysTheSame, Hash, Hashes
    <2>8. QED
      BY <2>6, <2>7, SameRow
  <1>5. QED
    BY <1>3, <1>4

(* A prepare writes a row that nothing is known to pay for, or one it had  *)
(* read before there was a hash.                                           *)
LEMMA PrepareKeeps ==
  ASSUME KeeperInv, NEW c \in Callers, NEW r \in Rows, PrepareRow(c, r)
  PROVE  /\ \A q \in Rows : Keeps(q) /\ (q # r => PaysTheSame(q))
         /\ Rewrites(r) \/ (rows[r] = NoRow /\ Hash(r)' = None)
  <1>1. PICK call : call = calls[c]
    OBVIOUS
  <1>2. PICK old, cap, w : old = rows[r] /\ cap = call.cap /\ w = call.wallet
    OBVIOUS
  <1> DEFINE reuses == Reuses(w, call.row)
             row == IF reuses THEN [old EXCEPT !.cap = cap]
                    ELSE [NoRow EXCEPT !.status = "incomplete", !.wallet = w, !.cap = cap]
  <1>3. /\ call.op = "prepare" /\ call.step = "row" /\ rows' = [rows EXCEPT ![r] = row]
        /\ IF reuses THEN r = call.row ELSE FreshRow(r)
    BY <1>1, <1>2 DEF PrepareRow
  <1>4. old \in RowTypes /\ RowTrue(r) /\ CallTrue(call)
    BY <1>1, <1>2 DEF KeeperInv, RowsTrue, CallsTrue
  <1>5. rows'[r] = row /\ \A q \in Rows : q # r => rows'[q] = rows[q]
    BY <1>3 DEF KeeperInv, RowsTrue
  <1>6. CASE reuses
    <2>1. row = [old EXCEPT !.cap = cap]
      BY <1>6
    <2> HIDE DEF row
    <2>2. row.status = old.status /\ row.wallet = old.wallet /\ row.permits = old.permits
      BY <1>4, <2>1 DEF RowTypes
    <2>3. Keeps(r)
      BY <1>2, <1>5, <2>2 DEF Keeps
    <2>4. call.pendingTx = None /\ call.row = r
      BY <1>2, <1>3, <1>4, <1>6 DEF CallTrue, SubscriberCall
    <2>5. Rewrites(r)
      BY <1>1, <1>3, <2>4 DEF Rewrites, Busy, Idle
    <2>6. QED
      BY <1>5, <2>3, <2>5, SameRow
  <1>7. CASE ~reuses
    <2>1. old = NoRow
      BY <1>2, <1>3, <1>4, <1>7 DEF FreshRow, RowTrue
    <2>2. row = [NoRow EXCEPT !.status = "incomplete", !.wallet = w, !.cap = cap]
      BY <1>7
    <2> HIDE DEF row
    <2>3. row.stream = None /\ row.pendingTx = None
      BY <2>2 DEF NoRow
    <2>4. Keeps(r) /\ Hash(r)' = None
      BY <1>2, <1>5, <2>1, <2>3 DEF Keeps, NoRow, Hash
    <2>5. QED
      BY <1>2, <1>5, <2>1, <2>4, SameRow
  <1>8. QED
    BY <1>6, <1>7

-----------------------------------------------------------------------------
(* The cap of a row and those it pays for.                                 *)

LEMMA KnownHashes ==
  ASSUME KeeperInv, NEW r \in Rows, NEW t \in Hashes(r)
  PROVE  t \in 0 .. sent
  <1>1. sent \in Nat /\ \A n \in 1 .. sent : n \in 0 .. sent
    BY ChainType DEF KeeperInv
  <1>2. RowTrue(r) /\ \A s \in Made : s \in 1 .. sent
    BY ChainType DEF KeeperInv, RowsTrue
  <1>3. Hash(r) \in 0 .. sent
    BY <1>1, <1>2 DEF Hash, RowTrue, Owned, None
  <1>4. \A c \in StartsAt(r, "record") : calls[c].tx \in 1 .. sent
    BY DEF StartsAt, Busy, KeeperInv, CallsTrue, CallTrue, SubscriberCall, Owned
  <1>5. QED
    BY <1>1, <1>3, <1>4 DEF Hashes

(* What the row pays for, as payments.                                     *)
LEMMA CapsAsPayments ==
  ASSUME NEW r, CapsAgree(r), NEW p \in Payments, p.id \in Hashes(r)
  PROVE  p.cap = rows[r].cap
  <1>1. CASE \E tx \in Waiting : tx.kind = "create" /\ p = Payment(tx.id, tx.row, tx.cap)
    BY <1>1 DEF CapsAgree, Waiting, Payment
  <1>2. CASE \E s \in Made : p = Payment(s, streams[s].row, streams[s].cap)
    BY <1>2 DEF CapsAgree, Payment
  <1>3. QED
    BY <1>1, <1>2, PaymentIs

LEMMA CapsFromPayments ==
  ASSUME NEW r, \A c \in StartsAt(r, "send")' : calls'[c].tx.cap = rows'[r].cap,
         \A p \in Payments' : p.id \in Hashes(r)' => p.cap = rows'[r].cap
  PROVE  CapsAgree(r)'
  <1>1. ASSUME NEW tx \in Waiting', tx.kind = "create", tx.id \in Hashes(r)'
        PROVE  tx.cap = rows'[r].cap
    <2>1. Payment(tx.id, tx.row, tx.cap) \in Payments'
      BY <1>1 DEF Payments
    <2>2. QED
      BY <1>1, <2>1 DEF Payment
  <1>2. ASSUME NEW s \in Made', s \in Hashes(r)'
        PROVE  streams'[s].cap = rows'[r].cap
    <2>1. Payment(s, streams'[s].row, streams'[s].cap) \in Payments'
      BY <1>2 DEF Payments
    <2>2. QED
      BY <1>2, <2>1 DEF Payment
  <1>3. QED
    BY <1>1, <1>2 DEF CapsAgree, Waiting

(* A step after which every start of the row is where it was.              *)
LEMMA CapsStay ==
  ASSUME KeeperInv, NEW r \in Rows, CapsAgree(r), PaysTheSame(r),
         \A p \in Payments' : p \in Payments \/ p.id = sent + 1,
         \A c \in Callers : calls'[c] = calls[c] \/ ~StartOf(c, r)'
  PROVE  CapsAgree(r)'
  <1>1. \A c \in Callers : StartOf(c, r)' => calls'[c] = calls[c]
    OBVIOUS
  <1>2. Hashes(r)' \subseteq Hashes(r)
    BY <1>1 DEF PaysTheSame, Hashes, StartsAt, Busy, StartOf
  <1>3. sent + 1 \notin Hashes(r)
    BY KnownHashes, ChainType DEF KeeperInv
  <1>4. \A p \in Payments' : p.id \in Hashes(r)' => p.cap = rows'[r].cap
    BY <1>2, <1>3, CapsAsPayments DEF PaysTheSame
  <1>5. \A c \in StartsAt(r, "send")' : calls'[c].tx.cap = rows'[r].cap
    BY <1>1 DEF PaysTheSame, CapsAgree, StartsAt, Busy, StartOf
  <1>6. QED
    BY <1>4, <1>5, CapsFromPayments

(* Payments are made by no other step than a broadcast's.                  *)
LEMMA PaymentsRest ==
  ASSUME UNCHANGED <<mempool, streams>>
  PROVE  Payments' = Payments
  BY DEF Payments, Waiting, Made

(* A request that goes on as something else than a start.                  *)
LEMMA OtherCall ==
  ASSUME KeeperInv, NEW c \in Callers, NEW next, next.op # "start", Becomes(c, next)
  PROVE  \A d \in Callers, r \in Rows : calls'[d] = calls[d] \/ ~StartOf(d, r)'
  BY DEF KeeperInv, CallsTrue, Becomes, StartOf

LEMMA CapsReads ==
  ASSUME KeeperInv, NEW c \in Callers, Reads(c), NEW r \in Rows, CapsAgree(r)
  PROVE  CapsAgree(r)' \/ Rewrites(r)
  <1>1. Payments' = Payments
    BY PaymentsRest DEF Reads, chain
  <1>2. ASSUME NEW q \in Rows, PrepareRow(c, q)
        PROVE  CapsAgree(r)' \/ Rewrites(r)
    <2>1. \A d \in Callers : calls'[d] = calls[d] \/ ~StartOf(d, r)'
      <3>1. PICK next : next.op # "start" /\ Becomes(c, next)
        BY <1>2 DEF PrepareRow
      <3>2. QED
        BY <3>1, OtherCall
    <2>2. CASE q # r
      BY <1>1, <1>2, <2>1, <2>2, CapsStay, PrepareKeeps
    <2>3. CASE q = r /\ ~Rewrites(r)
      <3>1. rows[r] = NoRow /\ Hash(r)' = None
        BY <1>2, <2>3, PrepareKeeps
      <3>2. \A d \in Callers : ~StartOf(d, r)
        BY <3>1 DEF StartOf, KeeperInv, CallsTrue, CallTrue, SubscriberCall, InUse, NoRow
      <3>3. \A d \in Callers : ~StartOf(d, r)'
        BY <2>1, <3>2 DEF StartOf
      <3>4. Hashes(r)' = {None} /\ StartsAt(r, "send")' = {}
        BY <3>1, <3>3 DEF Hashes, StartsAt, Busy, StartOf
      <3>5. \A p \in Payments' : p.id # None
        BY <1>1, PaymentType, ChainType DEF KeeperInv, None
      <3>6. QED
        BY <3>4, <3>5, CapsFromPayments
    <2>4. QED
      BY <2>2, <2>3
  <1>3. ASSUME PreparePermit(c)
        PROVE  CapsAgree(r)'
    <2>1. Becomes(c, Idle) /\ Idle.op # "start"
      BY <1>3 DEF PreparePermit, Idle
    <2>2. QED
      BY <1>1, <1>3, <2>1, CapsStay, OtherCall, PermitKeeps
  <1>4. ASSUME LoadForStart(c)
        PROVE  CapsAgree(r)'
    <2>1. PICK q : q = session.subscription
      OBVIOUS
    <2>2. PICK tx : tx = Create(q, rows[q].cap, rows[q].wallet, rows[q].nonce)
      OBVIOUS
    <2>3. PICK next : next = [op |-> "start", step |-> "send", row |-> q, tx |-> tx]
      OBVIOUS
    <2>4. rows' = rows /\ calls' = [calls EXCEPT ![c] = next]
      BY <1>4, <2>1, <2>2, <2>3 DEF LoadForStart, Arrives, Becomes
    <2>5. calls'[c] = next /\ \A d \in Callers : d # c => calls'[d] = calls[d]
      BY <2>4 DEF KeeperInv, CallsTrue
    <2>6. CASE q # r
      <3>1. ~StartOf(c, r)'
        BY <2>3, <2>5, <2>6 DEF StartOf
      <3>2. QED
        BY <1>1, <2>4, <2>5, <3>1, CapsStay, SameRow
    <2>7. CASE q = r
      <3>1. next.step = "send" /\ next.tx.cap = rows[r].cap
        BY <2>2, <2>3, <2>7 DEF Create
      <3>2. StartsAt(r, "send")' \subseteq StartsAt(r, "send") \cup {c}
        BY <2>5 DEF StartsAt, Busy
      <3>3. Hashes(r)' \subseteq Hashes(r)
        BY <2>4, <2>5, <3>1 DEF Hashes, Hash, StartsAt, Busy
      <3>4. \A d \in StartsAt(r, "send")' : calls'[d].tx.cap = rows'[r].cap
        BY <2>4, <2>5, <3>1, <3>2 DEF CapsAgree, StartsAt, Busy
      <3>5. \A p \in Payments' : p.id \in Hashes(r)' => p.cap = rows'[r].cap
        BY <1>1, <2>4, <3>3, CapsAsPayments
      <3>6. QED
        BY <3>4, <3>5, CapsFromPayments
    <2>8. QED
      BY <2>6, <2>7
  <1>5. ASSUME rows' = rows, NEW next, next.op # "start", Becomes(c, next)
        PROVE  CapsAgree(r)'
    BY <1>1, <1>5, CapsStay, OtherCall, SameRow
  <1>6. ASSUME NEW offer \in Offers, LoadForPrepare(c, offer[1], offer[2])
        PROVE  \E next : rows' = rows /\ next.op # "start" /\ Becomes(c, next)
    BY <1>6 DEF LoadForPrepare, Arrives
  <1>7. ASSUME NEW op, NEW q \in Rows, LoadForKeeper(c, op, q)
        PROVE  \E next : rows' = rows /\ next.op # "start" /\ Becomes(c, next)
    BY <1>7 DEF LoadForKeeper, Arrives
  <1>8. ASSUME LoadForCancel(c) \/ Refused(c) \/ Fails(c)
        PROVE  \E next : rows' = rows /\ next.op # "start" /\ Becomes(c, next)
    <2>1. Idle.op # "start"
      BY DEF Idle
    <2>2. CASE LoadForCancel(c)
      BY <2>2 DEF LoadForCancel, Arrives
    <2>3. CASE Refused(c) \/ Fails(c)
      BY <2>1, <2>3 DEF Refused, Fails
    <2>4. QED
      BY <1>8, <2>2, <2>3
  <1>9. QED
    BY <1>2, <1>3, <1>4, <1>5, <1>6, <1>7, <1>8 DEF Reads

(* The start's own broadcast pays the cap that it carries.                 *)
LEMMA CapsSend ==
  ASSUME KeeperInv, NEW c \in Callers, StartSend(c), NEW r \in Rows, CapsAgree(r)
  PROVE  CapsAgree(r)'
  <1>1. PICK call, tx, n : call = calls[c] /\ tx = call.tx /\ n = sent + 1
    OBVIOUS
  <1>2. ChainTrue /\ CallTrue(call) /\ DOMAIN calls = Callers
    BY <1>1 DEF KeeperInv, CallsTrue
  <1>3. call.op = "start" /\ call.step = "send" /\ rows' = rows /\ Broadcast(tx)
    BY <1>1 DEF StartSend
  <1>4. InUse(call.row) /\ tx \in Txs /\ tx.kind = "create" /\ tx.row = call.row
    BY <1>1, <1>2, <1>3 DEF CallTrue, SubscriberCall
  <1>5. \A p \in Payments' : p \in Payments \/ p = Payment(n, tx.row, tx.cap)
    BY <1>1, <1>2, <1>3, <1>4, BroadcastMoves
  <1>6. PICK next : next = [op |-> "start", step |-> "record", row |-> call.row, tx |-> n]
    OBVIOUS
  <1>7. calls' = [calls EXCEPT ![c] = next]
    BY <1>1, <1>6 DEF StartSend, Becomes
  <1>8. calls'[c] = next /\ \A d \in Callers : d # c => calls'[d] = calls[d]
    BY <1>2, <1>7
  <1>9. CASE call.row # r
    <2>1. ~StartOf(c, r)'
      BY <1>6, <1>8, <1>9 DEF StartOf
    <2>2. \A p \in Payments' : p \in Payments \/ p.id = sent + 1
      BY <1>1, <1>5 DEF Payment
    <2>3. QED
      BY <1>3, <1>8, <2>1, <2>2, CapsStay, SameRow
  <1>10. CASE call.row = r
    <2>1. c \in StartsAt(r, "send")
      BY <1>1, <1>3, <1>10 DEF StartsAt, Busy, Idle
    <2>2. tx.cap = rows[r].cap
      BY <1>1, <2>1 DEF CapsAgree
    <2>3. next.step = "record" /\ next.tx = n
      BY <1>6
    <2>4. Hashes(r)' \subseteq Hashes(r) \cup {n}
      BY <1>3, <1>8, <2>3 DEF Hashes, Hash, StartsAt, Busy
    <2>5. n \notin 0 .. sent /\ \A p \in Payments : p.id \in 1 .. sent
      BY <1>1, <1>2, ChainType, PaymentType
    <2>6. \A p \in Payments : p.id # n
      BY <2>5
    <2>7. \A p \in Payments' : p.id \in Hashes(r)' => p.cap = rows'[r].cap
      <3> SUFFICES ASSUME NEW p \in Payments', p.id \in Hashes(r)'
                   PROVE  p.cap = rows[r].cap
        BY <1>3
      <3>1. CASE p = Payment(n, tx.row, tx.cap)
        BY <2>2, <3>1 DEF Payment
      <3>2. CASE p \in Payments
        BY <2>4, <2>6, <3>2, CapsAsPayments
      <3>3. QED
        BY <1>5, <3>1, <3>2
    <2>8. \A d \in StartsAt(r, "send")' : calls'[d].tx.cap = rows'[r].cap
      BY <1>3, <1>8, <2>3 DEF CapsAgree, StartsAt, Busy
    <2>9. QED
      BY <2>7, <2>8, CapsFromPayments
  <1>11. QED
    BY <1>9, <1>10

(* A step that makes no payment and no start, and leaves rows their caps.  *)
LEMMA CapsRest ==
  ASSUME KeeperInv, NEW r \in Rows, CapsAgree(r), PaysTheSame(r), Payments' \subseteq Payments,
         calls' = calls
  PROVE  CapsAgree(r)'
  BY CapsStay

LEMMA CapsCall ==
  ASSUME KeeperInv, NEW c \in Callers, KeeperSend(c) \/ CancelSend(c), NEW r \in Rows, CapsAgree(r)
  PROVE  CapsAgree(r)'
  <1>1. PICK call, tx : call = calls[c] /\ tx = call.tx
    OBVIOUS
  <1>2. ChainTrue /\ CallTrue(call)
    BY <1>1 DEF KeeperInv, CallsTrue
  <1>3. call.op \in {"keeper", "cancelFor"} /\ call.step = "send" /\ rows' = rows /\ Broadcast(tx)
    BY <1>1, <1>2 DEF KeeperSend, CancelSend, CallTrue, KeeperCall
  <1>4. ActsOnStream(tx)
    BY <1>1, <1>2, <1>3 DEF CallTrue, KeeperCall
  <1>5. Payments' \subseteq Payments
    BY <1>2, <1>3, <1>4, CallMoves
  <1>6. PICK next : next.op # "start" /\ Becomes(c, next)
    BY <1>1 DEF KeeperSend, CancelSend, Idle
  <1>7. QED
    BY <1>3, <1>5, <1>6, CapsStay, OtherCall, SameRow

LEMMA CapsWrites ==
  ASSUME KeeperInv, NEW c \in Callers, Writes(c), NEW r \in Rows, CapsAgree(r)
  PROVE  CapsAgree(r)'
  <1>1. Payments' = Payments
    BY PaymentsRest DEF Writes, chain
  <1>2. Becomes(c, Idle) /\ Idle.op # "start"
    BY DEF Writes, StartRecord, KeeperStamp, Idle
  <1>3. PaysTheSame(r)
    BY RecordKeeps, KeeperStampKeeps DEF Writes
  <1>4. QED
    BY <1>1, <1>2, <1>3, CapsStay, OtherCall

LEMMA CapsSweep ==
  ASSUME KeeperInv, SweepStep \/ SweepCut \/ (\E q \in Rows : SweepFails(q) \/ CancelAges(q)),
         NEW r \in Rows, CapsAgree(r)
  PROVE  CapsAgree(r)'
  <1>1. calls' = calls
    BY DEF SweepStep, SelectUnstarted, SweepCancel, SweepRefused, SweepStamp, SweepCut, SweepFails,
           CancelAges, requestVars
  <1>2. ASSUME NEW q \in Rows, SweepCancel(q)
        PROVE  CapsAgree(r)'
    <2>1. q \in sweep.due /\ rows' = rows /\ Broadcast(Call("cancel", q, rows[q].stream))
      BY <1>2 DEF SweepCancel, requestVars
    <2>2. ActsOnStream(Call("cancel", q, rows[q].stream))
      BY <2>1, CallOfRow DEF KeeperInv, OthersTrue, HasStream
    <2>3. PICK tx : tx = Call("cancel", q, rows[q].stream)
      OBVIOUS
    <2>4. Payments' \subseteq Payments
      BY <2>1, <2>2, <2>3, CallMoves DEF KeeperInv
    <2>5. QED
      BY <1>1, <2>1, <2>4, CapsRest, SameRow
  <1>3. ASSUME NEW q \in Rows, NEW stamp, rows' = [rows EXCEPT ![q].cancelSubmitted = stamp],
               UNCHANGED chain
        PROVE  CapsAgree(r)'
    BY <1>1, <1>3, CapsRest, CancelStampKeeps, PaymentsRest DEF chain
  <1>4. ASSUME UNCHANGED <<chain, rows>>
        PROVE  CapsAgree(r)'
    BY <1>1, <1>4, CapsRest, SameRow, PaymentsRest DEF chain
  <1>5. CASE SweepStamp
    <2>1. sweep.row \in Rows
      BY <1>5 DEF SweepStamp, KeeperInv, OthersTrue
    <2>2. QED
      BY <1>3, <1>5, <2>1 DEF SweepStamp
  <1>6. CASE \E q \in Rows : CancelAges(q)
    BY <1>3, <1>6 DEF CancelAges
  <1>7. CASE SelectUnstarted \/ SweepCut \/ \E q \in Rows : SweepRefused(q) \/ SweepFails(q)
    BY <1>4, <1>7 DEF SelectUnstarted, SweepCut, SweepRefused, SweepFails, requestVars
  <1>8. QED
    BY <1>2, <1>5, <1>6, <1>7 DEF SweepStep

LEMMA NextCaps ==
  ASSUME KeeperInv, [KeeperNext]_allVars, NEW r \in Rows, CapsAgree(r)
  PROVE  CapsAgree(r)' \/ Rewrites(r)
  <1>1. ASSUME NEW c \in Callers, Reads(c)
        PROVE  CapsAgree(r)' \/ Rewrites(r)
    BY <1>1, CapsReads
  <1>2. ASSUME NEW c \in Callers, Writes(c)
        PROVE  CapsAgree(r)'
    BY <1>2, CapsWrites
  <1>3. ASSUME NEW c \in Callers, Sends(c)
        PROVE  CapsAgree(r)'
    BY <1>3, CapsSend, CapsCall DEF Sends
  <1>4. CASE ChainStep
    <2>1. rows' = rows /\ calls' = calls
      BY <1>4 DEF ChainStep, requestVars
    <2>2. Payments' \subseteq Payments
      BY <1>4, ChainGoesOn DEF GoesOn
    <2>3. QED
      BY <2>1, <2>2, CapsRest, SameRow
  <1>5. CASE Ingests
    <2>1. calls' = calls /\ UNCHANGED <<mempool, streams>>
      BY <1>5 DEF Ingests, IngestLog
    <2>2. PaysTheSame(r)
      BY <1>5, IngestsKeep DEF Ingests
    <2>3. QED
      BY <2>1, <2>2, CapsRest, PaymentsRest
  <1>6. CASE SweepStep \/ SweepCut \/ \E q \in Rows : SweepFails(q) \/ CancelAges(q)
    BY <1>6, CapsSweep
  <1>7. CASE UNCHANGED allVars
    <2>1. rows' = rows /\ calls' = calls /\ UNCHANGED <<mempool, streams>>
      BY <1>7 DEF allVars, requestVars, chain
    <2>2. QED
      BY <2>1, CapsRest, SameRow, PaymentsRest
  <1>8. QED
    BY <1>1, <1>2, <1>3, <1>4, <1>5, <1>6, <1>7 DEF KeeperNext

(* The cap of a row parts from the one it pays for in one way only: a      *)
(* prepare that read the row before the hash of its start was in it writes *)
(* its own cap. No start, however doubled or cut short, no later prepare,  *)
(* no block and no log does it.                                            *)
THEOREM CapsPartInOneWay == KeeperSpec => CapsPartOnlyMidStart
  <1>1. KeeperInv /\ [KeeperNext]_allVars =>
          [\A r \in Rows : CapsAgree(r) /\ ~CapsAgree(r)' => Rewrites(r)]_allVars
    BY NextCaps
  <1>2. QED
    BY <1>1, KeeperInvariance, PTL DEF KeeperSpec, CapsPartOnlyMidStart

-----------------------------------------------------------------------------
(* What pays was signed for: every create on its way carries a permit of    *)
(* its row, and a stream carries one that its wallet's nonce has passed.    *)

Signed(tx) ==
  InUse(tx.row) /\ tx.wallet = rows[tx.row].wallet /\ <<tx.nonce, tx.cap>> \in rows[tx.row].permits

StartsSigned == \A c \in Callers : calls[c].op = "start" /\ calls[c].step = "send" => Signed(calls[c].tx)

WaitingSigned == \A tx \in Waiting : tx.kind = "create" => Signed(tx)

WalletOf(s) == rows[streams[s].row].wallet

Spent(s) ==
  /\ InUse(streams[s].row)
  /\ <<streams[s].nonce, streams[s].cap>> \in rows[streams[s].row].permits
  /\ streams[s].nonce < nonces[WalletOf(s)]

PermitInv ==
  /\ StartsSigned /\ WaitingSigned
  /\ \A s \in Made : Spent(s)
  /\ \A s, t \in Made : streams[s].nonce = streams[t].nonce /\ WalletOf(s) = WalletOf(t) => s = t

RowsKeep == \A q \in Rows : Keeps(q)

LEMMA SignedStays ==
  ASSUME RowsKeep, NEW tx, Signed(tx)
  PROVE  Signed(tx)'
  BY DEF RowsKeep, Keeps, Signed, InUse

(* A stream keeps what it was made with.                                   *)
StreamsKeep ==
  /\ Made \subseteq Made'
  /\ \A s \in Made : /\ streams'[s].row = streams[s].row
                     /\ streams'[s].cap = streams[s].cap /\ streams'[s].nonce = streams[s].nonce

NoneMade == StreamsKeep /\ Made' = Made /\ nonces' = nonces

LEMMA WalletStays ==
  ASSUME KeeperInv, PermitInv, RowsKeep, StreamsKeep, NEW s \in Made
  PROVE  /\ WalletOf(s) \in Wallets /\ WalletOf(s)' = WalletOf(s) /\ InUse(streams[s].row)'
         /\ streams'[s].nonce = streams[s].nonce /\ streams[s].nonce \in Nat
         /\ <<streams[s].nonce, streams[s].cap>> \in rows'[streams[s].row].permits
  <1>1. PICK r : r = streams[s].row
    OBVIOUS
  <1>2. Spent(s) /\ streams[s] \in StreamTypes
    BY ChainType DEF PermitInv, KeeperInv
  <1>3. InUse(r) /\ r \in Rows /\ RowTrue(r)
    BY <1>1, <1>2 DEF Spent, InUse, KeeperInv, RowsTrue
  <1>4. rows[r].wallet \in Wallets
    BY <1>3 DEF InUse, RowTrue
  <1>5. /\ rows'[r].status # "none" /\ rows'[r].wallet = rows[r].wallet
        /\ rows[r].permits \subseteq rows'[r].permits
    BY <1>3 DEF RowsKeep, Keeps, InUse
  <1>6. QED
    BY <1>1, <1>2, <1>3, <1>4, <1>5 DEF Spent, StreamsKeep, WalletOf, InUse, StreamTypes

(* A step that makes no stream.                                            *)
LEMMA PermitStays ==
  ASSUME KeeperInv, PermitInv, RowsKeep, NoneMade, StartsSigned', WaitingSigned'
  PROVE  PermitInv'
  <1>1. StreamsKeep
    BY DEF NoneMade
  <1>2. ASSUME NEW s \in Made
        PROVE  Spent(s)'
    BY <1>1, <1>2, WalletStays DEF Spent, NoneMade, StreamsKeep, PermitInv, WalletOf
  <1>3. ASSUME NEW s \in Made, NEW t \in Made,
               streams'[s].nonce = streams'[t].nonce, WalletOf(s)' = WalletOf(t)'
        PROVE  s = t
    BY <1>1, <1>3, WalletStays DEF PermitInv
  <1>4. QED
    BY <1>2, <1>3 DEF PermitInv, NoneMade

LEMMA StartsStay ==
  ASSUME PermitInv, RowsKeep,
         \A c \in Callers : \/ calls'[c] = calls[c]
                            \/ calls'[c].op # "start" \/ calls'[c].step # "send"
                            \/ Signed(calls[c].tx)'
  PROVE  StartsSigned'
  <1> SUFFICES ASSUME NEW c \in Callers, calls'[c].op = "start", calls'[c].step = "send"
               PROVE  Signed(calls[c].tx)'
    BY DEF StartsSigned
  <1>1. CASE calls'[c] = calls[c]
    <2>1. PICK tx : tx = calls[c].tx
      OBVIOUS
    <2>2. Signed(tx)
      BY <1>1, <2>1 DEF PermitInv, StartsSigned
    <2>3. Signed(tx)'
      BY <2>2, SignedStays
    <2>4. calls'[c].tx = tx
      BY <1>1, <2>1
    <2>5. QED
      BY <2>3, <2>4 DEF Signed
  <1>2. QED
    BY <1>1

LEMMA WaitingStays ==
  ASSUME PermitInv, RowsKeep,
         \A tx \in Waiting' : tx \in Waiting \/ tx.kind # "create" \/ Signed(tx)'
  PROVE  WaitingSigned'
  <1>1. \A tx \in Waiting : tx.kind = "create" => Signed(tx)'
    BY SignedStays DEF PermitInv, WaitingSigned
  <1>2. QED
    BY <1>1 DEF WaitingSigned

(* A step off the chain.                                                   *)
LEMMA PermitRests ==
  ASSUME KeeperInv, PermitInv, RowsKeep, UNCHANGED <<mempool, streams, nonces>>,
         \A c \in Callers : \/ calls'[c] = calls[c]
                            \/ calls'[c].op # "start" \/ calls'[c].step # "send"
                            \/ Signed(calls[c].tx)'
  PROVE  PermitInv'
  <1>1. NoneMade /\ Waiting' = Waiting
    BY DEF NoneMade, StreamsKeep, Made, Waiting
  <1>2. QED
    BY <1>1, StartsStay, WaitingStays, PermitStays

LEMMA PermitOtherCall ==
  ASSUME KeeperInv, PermitInv, RowsKeep, UNCHANGED <<mempool, streams, nonces>>,
         NEW c \in Callers, NEW next, next.op # "start", Becomes(c, next)
  PROVE  PermitInv'
  <1>1. \A d \in Callers : calls'[d] = calls[d] \/ calls'[d].op # "start"
    BY DEF KeeperInv, CallsTrue, Becomes
  <1>2. QED
    BY <1>1, PermitRests

LEMMA ReadsPermit ==
  ASSUME KeeperInv, PermitInv, NEW c \in Callers, Reads(c)
  PROVE  PermitInv'
  <1>1. UNCHANGED <<mempool, streams, nonces>>
    BY DEF Reads, chain
  <1>2. ASSUME RowsKeep, NEW next, next.op # "start", Becomes(c, next)
        PROVE  PermitInv'
    BY <1>1, <1>2, PermitOtherCall
  <1>3. rows' = rows => RowsKeep
    BY SameRow DEF RowsKeep
  <1>4. ASSUME NEW q \in Rows, PrepareRow(c, q)
        PROVE  PermitInv'
    <2>1. RowsKeep
      BY <1>4, PrepareKeeps DEF RowsKeep
    <2>2. PICK next : next.op # "start" /\ Becomes(c, next)
      BY <1>4 DEF PrepareRow
    <2>3. QED
      BY <1>2, <2>1, <2>2
  <1>5. CASE PreparePermit(c)
    <2>1. RowsKeep
      BY <1>5, PermitKeeps DEF RowsKeep
    <2>2. Becomes(c, Idle) /\ Idle.op # "start"
      BY <1>5 DEF PreparePermit, Idle
    <2>3. QED
      BY <1>2, <2>1, <2>2
  <1>6. CASE LoadForStart(c)
    <2>1. PICK q : q = session.subscription
      OBVIOUS
    <2>2. PICK tx : tx = Create(q, rows[q].cap, rows[q].wallet, rows[q].nonce)
      OBVIOUS
    <2>3. /\ rows' = rows /\ rows[q].status = "incomplete"
          /\ <<rows[q].nonce, rows[q].cap>> \in rows[q].permits /\ q # None
      BY <1>6, <2>1 DEF LoadForStart
    <2>4. InUse(q)
      BY <2>1, <2>3 DEF KeeperInv, OthersTrue
    <2>5. tx.row = q /\ tx.wallet = rows[q].wallet /\ tx.nonce = rows[q].nonce /\ tx.cap = rows[q].cap
      BY <2>2 DEF Create
    <2>6. Signed(tx)
      BY <2>3, <2>4, <2>5 DEF Signed
    <2>7. PICK next : next = [op |-> "start", step |-> "send", row |-> q, tx |-> tx]
      OBVIOUS
    <2>8. calls' = [calls EXCEPT ![c] = next]
      BY <1>6, <2>1, <2>2, <2>7 DEF LoadForStart, Arrives, Becomes
    <2>9. calls'[c].tx = tx /\ \A d \in Callers : d # c => calls'[d] = calls[d]
      BY <2>7, <2>8 DEF KeeperInv, CallsTrue
    <2>10. Signed(tx)'
      BY <1>3, <2>3, <2>6, SignedStays
    <2>11. Signed(calls[c].tx)'
      BY <2>9, <2>10 DEF Signed
    <2>12. QED
      BY <1>1, <1>3, <2>3, <2>9, <2>11, PermitRests
  <1>7. ASSUME NEW offer \in Offers, LoadForPrepare(c, offer[1], offer[2])
        PROVE  PermitInv'
    <2>1. PICK next : rows' = rows /\ next.op # "start" /\ Becomes(c, next)
      BY <1>7 DEF LoadForPrepare, Arrives
    <2>2. QED
      BY <1>2, <1>3, <2>1
  <1>8. ASSUME NEW op, NEW q \in Rows, LoadForKeeper(c, op, q)
        PROVE  PermitInv'
    <2>1. PICK next : rows' = rows /\ next.op # "start" /\ Becomes(c, next)
      BY <1>8 DEF LoadForKeeper, Arrives
    <2>2. QED
      BY <1>2, <1>3, <2>1
  <1>9. CASE LoadForCancel(c) \/ Refused(c) \/ Fails(c)
    <2>1. Idle.op # "start"
      BY DEF Idle
    <2>2. PICK next : rows' = rows /\ next.op # "start" /\ Becomes(c, next)
      <3>1. CASE LoadForCancel(c)
        BY <3>1 DEF LoadForCancel, Arrives
      <3>2. CASE Refused(c) \/ Fails(c)
        BY <2>1, <3>2 DEF Refused, Fails
      <3>3. QED
        BY <1>9, <3>1, <3>2
    <2>3. QED
      BY <1>2, <1>3, <2>2
  <1>10. QED
    BY <1>4, <1>5, <1>6, <1>7, <1>8, <1>9 DEF Reads

LEMMA WritesPermit ==
  ASSUME KeeperInv, PermitInv, NEW c \in Callers, Writes(c)
  PROVE  PermitInv'
  <1>1. UNCHANGED <<mempool, streams, nonces>>
    BY DEF Writes, chain
  <1>2. Becomes(c, Idle) /\ Idle.op # "start"
    BY DEF Writes, StartRecord, KeeperStamp, Idle
  <1>3. RowsKeep
    BY RecordKeeps, KeeperStampKeeps DEF Writes, RowsKeep
  <1>4. QED
    BY <1>1, <1>2, <1>3, PermitOtherCall

(* A broadcast, of a call or of a start that carries a permit.             *)
LEMMA BroadcastPermit ==
  ASSUME KeeperInv, PermitInv, NEW tx \in Txs, Broadcast(tx), rows' = rows,
         tx.kind = "create" => Signed(tx),
         \A c \in Callers : calls'[c] = calls[c] \/ calls'[c].op # "start" \/ calls'[c].step # "send"
  PROVE  PermitInv'
  <1>1. RowsKeep
    BY SameRow DEF RowsKeep
  <1>2. NoneMade
    BY DEF Broadcast, NoneMade, StreamsKeep, Made
  <1>3. PICK n, new : n = sent + 1 /\ new = [tx EXCEPT !.id = n]
    OBVIOUS
  <1>4. new.row = tx.row /\ new.wallet = tx.wallet /\ new.nonce = tx.nonce /\ new.cap = tx.cap
    BY <1>3 DEF Txs
  <1>5. new.kind = tx.kind /\ new \in Txs
    <2>1. n \in Nat
      BY <1>3, ChainType DEF KeeperInv
    <2>2. QED
      BY <1>3, <2>1 DEF Txs
  <1>6. Waiting' = Waiting \cup {new}
    <2>1. PICK pool : pool = mempool
      OBVIOUS
    <2>2. pool \in Seq(Txs) /\ mempool' = Append(pool, new)
      BY <1>3, <2>1, ChainType DEF Broadcast, KeeperInv
    <2>3. ToSet(Append(pool, new)) = ToSet(pool) \cup {new}
      BY <1>5, <2>2, SetOfAppend
    <2>4. QED
      BY <2>1, <2>2, <2>3 DEF Waiting
  <1>7. new.kind = "create" => Signed(new)'
    BY <1>1, <1>4, <1>5, SignedStays DEF Signed
  <1>8. WaitingSigned'
    BY <1>1, <1>6, <1>7, WaitingStays
  <1>9. QED
    BY <1>1, <1>2, <1>8, StartsStay, PermitStays

LEMMA SendsPermit ==
  ASSUME KeeperInv, PermitInv, NEW c \in Callers, Sends(c)
  PROVE  PermitInv'
  <1>1. PICK call, tx : call = calls[c] /\ tx = call.tx
    OBVIOUS
  <1>2. CallTrue(call) /\ DOMAIN calls = Callers
    BY <1>1 DEF KeeperInv, CallsTrue
  <1>3. Broadcast(tx) /\ rows' = rows /\ call.op \in {"start", "keeper", "cancelFor"} /\ call.step = "send"
    BY <1>1, <1>2 DEF Sends, StartSend, KeeperSend, CancelSend, CallTrue, KeeperCall
  <1>4. tx \in Txs /\ (call.op # "start" => tx.kind # "create")
    BY <1>1, <1>2, <1>3 DEF CallTrue, KeeperCall, SubscriberCall, ActsOnStream
  <1>5. tx.kind = "create" => Signed(tx)
    BY <1>1, <1>3, <1>4 DEF PermitInv, StartsSigned
  <1>6. PICK next : next.step # "send" /\ calls' = [calls EXCEPT ![c] = next]
    BY <1>1 DEF Sends, StartSend, KeeperSend, CancelSend, Becomes, Idle
  <1>7. \A d \in Callers : calls'[d] = calls[d] \/ calls'[d].step # "send"
    BY <1>2, <1>6
  <1>8. QED
    BY <1>3, <1>4, <1>5, <1>7, BroadcastPermit

(* A block that makes a stream: the nonce it spends is its wallet's next.  *)
LEMMA MakePermit ==
  ASSUME KeeperInv, PermitInv, Mine, rows' = rows, calls' = calls,
         Accepts(Head(mempool)), Head(mempool).kind = "create"
  PROVE  PermitInv'
  <1>1. PICK tx : tx = Head(mempool)
    OBVIOUS
  <1>2. tx \in Waiting /\ tx \in Txs /\ Waiting' \subseteq Waiting
    BY <1>1, MineTakes DEF KeeperInv
  <1>3. Signed(tx) /\ MakeStream(tx) /\ nonces[tx.wallet] = tx.nonce
    BY <1>1, <1>2 DEF PermitInv, WaitingSigned, Mine, Accepts
  <1>4. PICK w, r : w = tx.wallet /\ r = tx.row
    OBVIOUS
  <1>5. InUse(r) /\ r \in Rows /\ rows[r].wallet = w /\ w \in Wallets /\ <<tx.nonce, tx.cap>> \in rows[r].permits
    BY <1>3, <1>4 DEF Signed, InUse, KeeperInv, RowsTrue, RowTrue
  <1>6. nonces \in [Wallets -> Nat] /\ streams \in [Made -> StreamTypes]
    BY ChainType DEF KeeperInv
  <1>7. /\ nonces' = [nonces EXCEPT ![w] = @ + 1]
        /\ streams' = [s \in Made \cup {tx.id} |->
             IF s \in Made THEN streams[s]
             ELSE [status |-> IF startMode = "merchant" THEN "created" ELSE "active",
                   row |-> r, cap |-> tx.cap, nonce |-> tx.nonce]]
    BY <1>3, <1>4 DEF MakeStream
  <1>8. /\ Made' = Made \cup {tx.id} /\ \A s \in Made : streams'[s] = streams[s]
        /\ tx.id \notin Made => /\ streams'[tx.id].row = r /\ streams'[tx.id].cap = tx.cap
                                /\ streams'[tx.id].nonce = tx.nonce
    BY <1>7 DEF Made
  <1>9. RowsKeep /\ StreamsKeep
    BY <1>8, SameRow DEF RowsKeep, StreamsKeep
  <1>10. PICK n : n = tx.nonce /\ n \in Nat /\ nonces[w] = n /\ nonces'[w] = n + 1
    BY <1>2, <1>3, <1>4, <1>5, <1>6, <1>7 DEF Txs
  <1>11. \A v \in Wallets : v # w => nonces'[v] = nonces[v]
    BY <1>6, <1>7
  <1>12. ASSUME NEW s \in Made
         PROVE  /\ Spent(s)' /\ WalletOf(s)' = WalletOf(s) /\ streams'[s].nonce = streams[s].nonce
                /\ WalletOf(s) = w => streams[s].nonce # n
    <2>1. PICK m, v : m = streams[s].nonce /\ v = WalletOf(s)
      OBVIOUS
    <2>2. /\ v \in Wallets /\ WalletOf(s)' = v /\ InUse(streams[s].row)' /\ m \in Nat
          /\ <<m, streams[s].cap>> \in rows'[streams[s].row].permits
      BY <1>9, <2>1, WalletStays
    <2>3. m < nonces[v] /\ nonces[v] \in Nat
      BY <1>6, <2>1, <2>2 DEF PermitInv, Spent
    <2>4. m < nonces'[v]
      BY <1>10, <1>11, <2>2, <2>3
    <2>5. v = w => m # n
      BY <1>10, <2>3
    <2>6. streams'[s] = streams[s]
      BY <1>8
    <2>7. QED
      BY <2>1, <2>2, <2>4, <2>5, <2>6 DEF Spent, WalletOf
  <1>13. CASE tx.id \in Made
    <2>1. Made' = Made
      BY <1>8, <1>13
    <2>2. ASSUME NEW s \in Made, NEW t \in Made,
                 streams'[s].nonce = streams'[t].nonce, WalletOf(s)' = WalletOf(t)'
          PROVE  s = t
      BY <1>12, <2>2 DEF PermitInv
    <2>3. \A s \in Made : Spent(s)'
      BY <1>12
    <2>4. StartsSigned' /\ WaitingSigned'
      BY <1>2, <1>9, StartsStay, WaitingStays
    <2>5. QED
      BY <2>1, <2>2, <2>3, <2>4 DEF PermitInv
  <1>14. CASE tx.id \notin Made
    <2>1. PICK s0 : s0 = tx.id
      OBVIOUS
    <2>2. streams'[s0].row = r /\ streams'[s0].cap = tx.cap /\ streams'[s0].nonce = n
      BY <1>8, <1>10, <1>14, <2>1
    <2>3. WalletOf(s0)' = w
      BY <1>5, <2>2 DEF WalletOf
    <2>4. Spent(s0)'
      <3>1. InUse(r)'
        BY <1>5 DEF InUse
      <3>2. n < nonces'[w]
        BY <1>10
      <3>3. QED
        BY <1>5, <1>10, <2>2, <2>3, <3>1, <3>2 DEF Spent
    <2>5. \A s \in Made' : s \in Made \/ s = s0
      BY <1>8, <2>1
    <2>6. ASSUME NEW s \in Made', NEW t \in Made',
                 streams'[s].nonce = streams'[t].nonce, WalletOf(s)' = WalletOf(t)'
          PROVE  s = t
      <3>1. CASE s \in Made /\ t \in Made
        BY <1>12, <2>6, <3>1 DEF PermitInv
      <3>2. CASE s = s0 /\ t \in Made
        BY <1>12, <2>2, <2>3, <2>6, <3>2
      <3>3. CASE s \in Made /\ t = s0
        BY <1>12, <2>2, <2>3, <2>6, <3>3
      <3>4. QED
        BY <2>5, <3>1, <3>2, <3>3
    <2>7. \A s \in Made' : Spent(s)'
      BY <1>12, <2>4, <2>5
    <2>8. StartsSigned' /\ WaitingSigned'
      BY <1>2, <1>9, StartsStay, WaitingStays
    <2>9. QED
      BY <2>6, <2>7, <2>8 DEF PermitInv
  <1>15. QED
    BY <1>13, <1>14

LEMMA StatusKeeps ==
  ASSUME KeeperInv, NEW s \in Made, NEW status, streams' = [streams EXCEPT ![s].status = status],
         nonces' = nonces
  PROVE  NoneMade
  <1>1. PICK old, new : old = streams[s] /\ new = [old EXCEPT !.status = status]
    OBVIOUS
  <1>2. streams \in [Made -> StreamTypes]
    BY ChainType DEF KeeperInv
  <1>3. new.row = old.row /\ new.cap = old.cap /\ new.nonce = old.nonce
    BY <1>1, <1>2 DEF StreamTypes
  <1>4. streams' = [streams EXCEPT ![s] = new]
    BY <1>1, <1>2
  <1>5. Made' = Made /\ streams'[s] = new /\ \A t \in Made : t # s => streams'[t] = streams[t]
    BY <1>2, <1>4 DEF Made
  <1>6. QED
    BY <1>1, <1>3, <1>5 DEF NoneMade, StreamsKeep

LEMMA ChainPermit ==
  ASSUME KeeperInv, PermitInv, ChainStep
  PROVE  PermitInv'
  <1>1. rows' = rows /\ calls' = calls
    BY DEF ChainStep, requestVars
  <1>2. RowsKeep
    BY <1>1, SameRow DEF RowsKeep
  <1>3. ASSUME NoneMade, Waiting' \subseteq Waiting
        PROVE  PermitInv'
    BY <1>1, <1>2, <1>3, StartsStay, WaitingStays, PermitStays
  <1>4. CASE Mine /\ Accepts(Head(mempool)) /\ Head(mempool).kind = "create"
    BY <1>1, <1>4, MakePermit
  <1>5. CASE Mine /\ ~(Accepts(Head(mempool)) /\ Head(mempool).kind = "create")
    <2>1. PICK tx : tx = Head(mempool)
      OBVIOUS
    <2>2. Waiting' \subseteq Waiting /\ (tx.kind # "create" => tx.stream \in Made)
      BY <1>5, <2>1, MineTakes DEF KeeperInv
    <2>3. CASE UNCHANGED <<streams, nonces>>
      BY <1>3, <2>2, <2>3 DEF NoneMade, StreamsKeep, Made
    <2>4. CASE tx.kind # "create" /\ ActOnStream(tx)
      BY <1>3, <2>2, <2>4, StatusKeeps DEF ActOnStream
    <2>5. QED
      BY <1>5, <2>1, <2>3, <2>4 DEF Mine
  <1>6. ASSUME NEW i \in 1 .. Len(mempool), Drop(i)
        PROVE  PermitInv'
    <2>1. Waiting' \subseteq Waiting
      <3>1. PICK pool : pool = mempool
        OBVIOUS
      <3>2. pool \in Seq(Txs) /\ i \in 1 .. Len(pool) /\ mempool' = RemoveAt(pool, i)
        BY <1>6, <3>1, ChainType DEF Drop, KeeperInv
      <3>3. ToSet(RemoveAt(pool, i)) \subseteq ToSet(pool)
        BY <3>2, SetOfRest
      <3>4. QED
        BY <3>1, <3>2, <3>3 DEF Waiting
    <2>2. NoneMade
      BY <1>6 DEF Drop, NoneMade, StreamsKeep, Made
    <2>3. QED
      BY <1>3, <2>1, <2>2
  <1>7. ASSUME NEW s \in Made, EndAtCap(s)
        PROVE  PermitInv'
    <2>1. Waiting' = Waiting /\ NoneMade
      BY <1>7, StatusKeeps DEF EndAtCap, Waiting
    <2>2. QED
      BY <1>3, <2>1
  <1>8. QED
    BY <1>4, <1>5, <1>6, <1>7 DEF ChainStep

LEMMA SweepPermit ==
  ASSUME KeeperInv, PermitInv,
         SweepStep \/ SweepCut \/ (\E q \in Rows : SweepFails(q) \/ CancelAges(q))
  PROVE  PermitInv'
  <1>1. calls' = calls
    BY DEF SweepStep, SelectUnstarted, SweepCancel, SweepRefused, SweepStamp, SweepCut, SweepFails,
           CancelAges, requestVars
  <1>2. ASSUME NEW q \in Rows, SweepCancel(q)
        PROVE  PermitInv'
    <2>1. PICK tx : tx = Call("cancel", q, rows[q].stream)
      OBVIOUS
    <2>2. q \in sweep.due /\ rows' = rows /\ Broadcast(tx)
      BY <1>2, <2>1 DEF SweepCancel, requestVars
    <2>3. tx \in Txs /\ tx.kind # "create"
      BY <2>1, <2>2, CallOfRow DEF KeeperInv, OthersTrue, HasStream, ActsOnStream
    <2>4. QED
      BY <1>1, <2>2, <2>3, BroadcastPermit
  <1>3. ASSUME NEW q \in Rows, NEW stamp, rows' = [rows EXCEPT ![q].cancelSubmitted = stamp],
               UNCHANGED chain
        PROVE  PermitInv'
    <2>1. RowsKeep
      BY <1>3, CancelStampKeeps DEF RowsKeep
    <2>2. QED
      BY <1>1, <1>3, <2>1, PermitRests DEF chain
  <1>4. ASSUME UNCHANGED <<chain, rows>>
        PROVE  PermitInv'
    <2>1. RowsKeep
      BY <1>4, SameRow DEF RowsKeep
    <2>2. QED
      BY <1>1, <1>4, <2>1, PermitRests DEF chain
  <1>5. CASE SweepStamp
    <2>1. sweep.row \in Rows
      BY <1>5 DEF SweepStamp, KeeperInv, OthersTrue
    <2>2. QED
      BY <1>3, <1>5, <2>1 DEF SweepStamp
  <1>6. CASE \E q \in Rows : CancelAges(q)
    BY <1>3, <1>6 DEF CancelAges
  <1>7. CASE SelectUnstarted \/ SweepCut \/ \E q \in Rows : SweepRefused(q) \/ SweepFails(q)
    BY <1>4, <1>7 DEF SelectUnstarted, SweepCut, SweepRefused, SweepFails, requestVars
  <1>8. QED
    BY <1>2, <1>5, <1>6, <1>7 DEF SweepStep

LEMMA NextPermit == KeeperInv /\ PermitInv /\ [KeeperNext]_allVars => PermitInv'
  <1> SUFFICES ASSUME KeeperInv, PermitInv, [KeeperNext]_allVars PROVE PermitInv'
    OBVIOUS
  <1>1. ASSUME NEW c \in Callers, Reads(c) \/ Writes(c) \/ Sends(c)
        PROVE  PermitInv'
    BY <1>1, ReadsPermit, WritesPermit, SendsPermit
  <1>2. CASE ChainStep
    BY <1>2, ChainPermit
  <1>3. CASE Ingests
    <2>1. calls' = calls /\ UNCHANGED <<mempool, streams, nonces>> /\ RowsKeep
      BY <1>3, IngestsKeep DEF Ingests, IngestLog, RowsKeep
    <2>2. QED
      BY <2>1, PermitRests
  <1>4. CASE SweepStep \/ SweepCut \/ \E q \in Rows : SweepFails(q) \/ CancelAges(q)
    BY <1>4, SweepPermit
  <1>5. CASE UNCHANGED allVars
    <2>1. rows' = rows /\ calls' = calls /\ UNCHANGED <<mempool, streams, nonces>>
      BY <1>5 DEF allVars, requestVars, chain
    <2>2. RowsKeep
      BY <2>1, SameRow DEF RowsKeep
    <2>3. QED
      BY <2>1, <2>2, PermitRests
  <1>6. QED
    BY <1>1, <1>2, <1>3, <1>4, <1>5 DEF KeeperNext

(* Every stream is paid for with a permit given for its row and its cap,   *)
(* and no permit pays twice, in every run: whatever starts are doubled, cut *)
(* short or prepared again, a second stream needs a second signature.      *)
THEOREM PermitPaysOnce == KeeperSpec => []OneStreamPerPermit
  <1>1. KeeperInit => PermitInv
    <2>1. KeeperInit => Made = {} /\ Waiting = {} /\ calls = [c \in Callers |-> Idle]
      BY DEF KeeperInit, CheckoutInit, RelayInit, Made, Waiting, ToSet
    <2>2. QED
      BY <2>1 DEF PermitInv, StartsSigned, WaitingSigned, Idle
  <1>2. KeeperInv /\ PermitInv /\ [KeeperNext]_allVars => PermitInv'
    BY NextPermit
  <1>3. PermitInv => OneStreamPerPermit
    BY DEF PermitInv, Spent, OneStreamPerPermit, WalletOf
  <1>4. QED
    BY <1>1, <1>2, <1>3, KeeperInvariance, PTL DEF KeeperSpec
================================================================================
