---------------------------- MODULE InboxProofs -----------------------------
(* Proofs about Inbox: what the server's rows and marks keep to, however    *)
(* polls overlap and fail, and what a device's history keeps to where calls *)
(* run one at a time and end.                                               *)
EXTENDS Inbox, RowsProofs

(* The server.  The rows are in the order of arrival, each once; the marked  *)
(* rows are the oldest ones, and remain so when a poll marks what it has     *)
(* selected, however long ago that was.                                      *)

Once(s) == \A i, j \in DOMAIN s : s[i] = s[j] => i = j
OldestIn(s, X) == \A i, j \in DOMAIN s : i < j /\ s[j] \in X => s[i] \in X

Carrying == {"mark", "answer", "snapshot", "read", "put"}
Sending == {"send_read", "send_put"}

\* What a call in progress has in hand.
Call(t) ==
    /\ pc[t] \in Carrying \cup Sending => batch[t] # << >>
    /\ pc[t] \in Carrying => Range(batch[t]) \subseteq arrived
    /\ pc[t] \in Sending => Range(batch[t]) \subseteq Sends
    /\ pc[t] \notin Carrying \cup Sending => batch[t] = << >>
    /\ pc[t] = "mark" => OldestIn(rows, delivered \cup Range(batch[t]))

InboxInv ==
    /\ TypeOK
    /\ Range(rows) \subseteq arrived /\ Once(rows)
    /\ ServerKeeps
    /\ OldestIn(rows, delivered)
    /\ \A t \in Tasks : Call(t)

\* Where the rows that Without keeps stand.
LEMMA WithoutOrder ==
    ASSUME NEW A, NEW s \in Seq(A), NEW D
    PROVE  /\ Once(s) => Once(Without(s, D))
           /\ \A X : OldestIn(s, X) => OldestIn(Without(s, D), X)
<1>1. PICK t : t = Without(s, D)
  OBVIOUS
<1>2. t \in Seq(A) /\ \E g : Picks(g, t, s, D, Len(s))
  BY <1>1, WithoutPicks
<1>3. PICK g : Picks(g, t, s, D, Len(s))
  BY <1>2
<1>4. DOMAIN t = 1..Len(t) /\ DOMAIN s = 1..Len(s) /\ Len(t) \in Nat /\ Len(s) \in Nat
  BY <1>2
<1>5. /\ \A k \in DOMAIN t : g[k] \in DOMAIN s /\ t[k] = s[g[k]]
      /\ \A j, k \in DOMAIN t : j < k => g[j] < g[k]
  BY <1>3, <1>4 DEF Picks
<1>6. ASSUME Once(s) PROVE Once(t)
  <2> SUFFICES ASSUME NEW i \in DOMAIN t, NEW j \in DOMAIN t, t[i] = t[j] PROVE i = j
    BY DEF Once
  <2>1. g[i] = g[j]
    BY <1>5, <1>6 DEF Once
  <2>2. g[i] \in Nat /\ g[j] \in Nat /\ i \in Nat /\ j \in Nat
    BY <1>4, <1>5
  <2>3. ~(i < j) /\ ~(j < i)
    BY <1>5, <2>1, <2>2
  <2>4. QED
    BY <2>2, <2>3
<1>7. ASSUME NEW X, OldestIn(s, X) PROVE OldestIn(t, X)
  BY <1>5, <1>7 DEF OldestIn
<1>8. QED
  BY <1>1, <1>6, <1>7

\* The first n rows of a list.
LEMMA AtMostFacts ==
    ASSUME NEW A, NEW s \in Seq(A), NEW n \in Nat
    PROVE  /\ AtMost(s, n) \in Seq(A)
           /\ Range(AtMost(s, n)) = {s[i] : i \in {j \in DOMAIN s : j <= n}}
           /\ AtMost(s, n) = << >> /\ n # 0 => s = << >>
<1> DEFINE m == IF Len(s) < n THEN Len(s) ELSE n
<1>1. /\ m \in Nat /\ m <= Len(s) /\ Len(s) \in Nat /\ DOMAIN s = 1..Len(s)
      /\ \A j \in 1..Len(s) : j <= n <=> j <= m
  OBVIOUS
<1>2. AtMost(s, n) = SubSeq(s, 1, m)
  BY DEF AtMost
<1> HIDE DEF m
<1>3. \A i \in 1..m : s[i] \in A
  BY <1>1
<1>4. /\ SubSeq(s, 1, m) \in Seq(A) /\ Len(SubSeq(s, 1, m)) = m
      /\ \A i \in 1..m : SubSeq(s, 1, m)[i] = s[i]
  BY <1>1, <1>3
<1>5. DOMAIN SubSeq(s, 1, m) = 1..m
  BY <1>1, <1>4
<1>6. Range(SubSeq(s, 1, m)) = {s[i] : i \in {j \in DOMAIN s : j <= n}}
  BY <1>1, <1>4, <1>5 DEF Range
<1>7. SubSeq(s, 1, m) = << >> /\ n # 0 => s = << >>
  <2>1. SubSeq(s, 1, m) = << >> => m = 0
    BY <1>4
  <2>2. m = 0 /\ n # 0 => Len(s) = 0
    BY DEF m
  <2>3. QED
    BY <2>1, <2>2, EmptySeq
<1>8. QED
  BY <1>2, <1>4, <1>6, <1>7

\* A poll selects the oldest of those that are not marked.
LEMMA QueryFacts ==
    ASSUME TypeOK
    PROVE  /\ Undelivered \in Seq(Msgs) /\ InboxQuery \in Seq(Msgs)
           /\ Range(Undelivered) = Range(rows) \ delivered
           /\ Range(InboxQuery) \subseteq Range(rows) \ delivered
           /\ Once(rows) /\ OldestIn(rows, delivered) =>
                 OldestIn(rows, delivered \cup Range(InboxQuery))
<1>1. rows \in Seq(Msgs) /\ Limit \in Nat
  BY InboxAssumption DEF TypeOK
<1>2. Undelivered \in Seq(Msgs) /\ Range(Undelivered) = Range(rows) \ delivered
  BY <1>1, WithoutIsList, WithoutRange DEF Undelivered
<1> DEFINE U == Undelivered
<1>3. InboxQuery \in Seq(Msgs) /\ Range(InboxQuery) = {U[i] : i \in {j \in DOMAIN U : j <= Limit}}
  BY <1>1, <1>2, AtMostFacts DEF InboxQuery
<1>4. PICK g : Picks(g, U, rows, delivered, Len(rows))
  BY <1>1, WithoutPicks DEF Undelivered
<1> HIDE DEF U
<1>5. Range(InboxQuery) \subseteq Range(rows) \ delivered
  BY <1>2, <1>3 DEF Range, U
<1>6. DOMAIN U = 1..Len(U) /\ Len(U) \in Nat /\ DOMAIN rows = 1..Len(rows) /\ Len(rows) \in Nat
  BY <1>1, <1>2 DEF U
<1>7. ASSUME Once(rows), OldestIn(rows, delivered), NEW i \in DOMAIN rows, NEW j \in DOMAIN rows,
             i < j, rows[j] \in delivered \cup Range(InboxQuery), rows[i] \notin delivered
      PROVE  rows[i] \in Range(InboxQuery)
  <2>1. rows[j] \in Range(InboxQuery)
    BY <1>7 DEF OldestIn
  <2>2. PICK l \in DOMAIN U : l <= Limit /\ rows[j] = U[l]
    BY <1>3, <2>1
  <2>3. g[l] \in DOMAIN rows /\ rows[g[l]] = rows[j]
    BY <1>4, <1>6, <2>2 DEF Picks
  <2>4. g[l] = j
    BY <1>7, <2>3 DEF Once
  <2>5. PICK k \in DOMAIN U : g[k] = i /\ U[k] = rows[i]
    BY <1>4, <1>6, <1>7 DEF Picks
  <2>6. ~(l < k) /\ l # k
    BY <1>4, <1>6, <1>7, <2>4, <2>5 DEF Picks
  <2>7. k <= Limit
    BY <1>1, <1>6, <2>2, <2>6
  <2>8. QED
    BY <1>3, <2>5, <2>7
<1>8. QED
  BY <1>2, <1>3, <1>5, <1>7 DEF OldestIn

LEMMA AtMostFirst ==
    ASSUME NEW A, NEW s \in Seq(A), NEW n \in Nat
    PROVE  \E r \in Seq(A) : s = AtMost(s, n) \o r
<1> DEFINE m == IF Len(s) < n THEN Len(s) ELSE n
<1>1. m \in Nat /\ m <= Len(s) /\ Len(s) \in Nat
  OBVIOUS
<1>2. AtMost(s, n) = SubSeq(s, 1, m)
  BY DEF AtMost
<1> HIDE DEF m
<1>3. \E r \in Seq(A) : s = SubSeq(s, 1, m) \o r
  <2>1. SubSeq(s, 1, m) \o SubSeq(s, m + 1, Len(s)) = SubSeq(s, 1, Len(s))
    <3>1. 1 \in 1..(Len(s) + 1) /\ m \in (1 - 1)..Len(s) /\ Len(s) \in m..Len(s)
      BY <1>1
    <3>2. QED
      BY <3>1, ConcatAdjacentSubSeq
  <2>2. SubSeq(s, 1, Len(s)) = s
    BY SubSeqFull
  <2>3. SubSeq(s, m + 1, Len(s)) \in Seq(A)
    BY <1>1, SubSeqProperties
  <2>4. QED
    BY <2>1, <2>2, <2>3
<1>4. QED
  BY <1>2, <1>3

\* What it leaves behind comes after what it selects.
LEMMA QueryFirst == ASSUME TypeOK PROVE \E r \in Seq(Msgs) : Undelivered = InboxQuery \o r
<1>1. PICK u : u = Undelivered
  OBVIOUS
<1>2. u \in Seq(Msgs) /\ Limit \in Nat
  BY <1>1, QueryFacts, InboxAssumption
<1>3. \E r \in Seq(Msgs) : u = AtMost(u, Limit) \o r
  BY <1>2, AtMostFirst
<1>4. QED
  BY <1>1, <1>3 DEF InboxQuery

-----------------------------------------------------------------------------
(* The invariant holds.                                                      *)

LEMMA GoMoves ==
    ASSUME TypeOK, NEW t \in Tasks, NEW s \in Steps \cup {"idle"}, NEW b \in Seq(Entries),
           NEW a \in Seq(Entries), Go(t, s, b, a)
    PROVE  /\ pc'[t] = s /\ batch'[t] = b /\ array'[t] = a /\ dev' = dev
           /\ \A u \in Tasks \ {t} : pc'[u] = pc[u] /\ batch'[u] = batch[u] /\ array'[u] = array[u]
           /\ pc' \in [Tasks -> Steps \cup {"idle"}] /\ dev' \in [Tasks -> Devices]
           /\ batch' \in [Tasks -> Seq(Entries)] /\ array' \in [Tasks -> Seq(Entries)]
  BY DEF Go, TypeOK

LEMMA Lists ==
    ASSUME TypeOK
    PROVE  /\ << >> \in Seq(Entries)
           /\ \A t \in Tasks : /\ batch[t] \in Seq(Entries) /\ array[t] \in Seq(Entries)
                               /\ dev[t] \in Devices /\ local[dev[t]] \in Seq(Entries)
           /\ \A s \in Seq(Msgs) : s \in Seq(Entries)
<1>1. << >> \in Seq(Entries)
  OBVIOUS
<1>2. \A s \in Seq(Msgs) : s \in Seq(Entries)
  BY SeqOverMore DEF Entries
<1>3. QED
  BY <1>1, <1>2 DEF TypeOK

\* The steps of a call that the server's rows have no part in.
LEMMA ClientMoves ==
    ASSUME InboxInv, UNCHANGED server, NEW t \in Tasks,
           \A u \in Tasks \ {t} : pc'[u] = pc[u] /\ batch'[u] = batch[u],
           pc' \in [Tasks -> Steps \cup {"idle"}], dev' \in [Tasks -> Devices],
           batch' \in [Tasks -> Seq(Entries)], array' \in [Tasks -> Seq(Entries)],
           local' \in [Devices -> Seq(Entries)], view' \in [Devices -> Seq(Entries)],
           signedIn' = signedIn, sent' \subseteq Sends, Call(t)'
    PROVE  InboxInv'
<1>1. UNCHANGED <<rows, delivered, arrived, due>>
  BY DEF server
<1>2. TypeOK'
  BY <1>1 DEF InboxInv, TypeOK
<1>3. \A u \in Tasks : Call(u)'
  <2> SUFFICES ASSUME NEW u \in Tasks, u # t PROVE Call(u)'
    OBVIOUS
  <2>1. Call(u) /\ pc'[u] = pc[u] /\ batch'[u] = batch[u]
    BY DEF InboxInv
  <2>2. QED
    BY <1>1, <2>1 DEF Call
<1>4. QED
  BY <1>1, <1>2, <1>3 DEF InboxInv, ServerKeeps

LEMMA ServerMoves ==
    ASSUME InboxInv, UNCHANGED device,
           rows' \in Seq(Msgs), delivered' \subseteq arrived', arrived \subseteq arrived',
           arrived' \subseteq Msgs, due' \subseteq Expiring \cap arrived', due \subseteq due',
           pc' \in [Tasks -> Steps \cup {"idle"}], dev' = dev,
           batch' \in [Tasks -> Seq(Entries)], array' \in [Tasks -> Seq(Entries)],
           Range(rows') \subseteq arrived', Once(rows'), OldestIn(rows', delivered'),
           arrived' \ (delivered' \cup due') \subseteq Range(rows'),
           \A t \in Tasks : Call(t)'
    PROVE  InboxInv'
<1>1. TypeOK'
  BY DEF InboxInv, TypeOK, device
<1>2. QED
  BY <1>1 DEF InboxInv, ServerKeeps

LEMMA ArriveInbox == ASSUME InboxInv, NEW m, Arrive(m) PROVE InboxInv'
<1>1. /\ m \in Msgs /\ m \notin arrived /\ arrived' = arrived \cup {m} /\ rows' = Append(rows, m)
      /\ UNCHANGED <<delivered, due, device, task>>
  BY DEF Arrive
<1>2. rows \in Seq(Msgs) /\ delivered \subseteq arrived /\ m \notin Range(rows)
  BY <1>1 DEF InboxInv, TypeOK
<1>3. /\ rows' \in Seq(Msgs) /\ DOMAIN rows = 1..Len(rows) /\ Len(rows) \in Nat
      /\ DOMAIN rows' = 1..(Len(rows) + 1) /\ rows'[Len(rows) + 1] = m
      /\ \A i \in DOMAIN rows : rows'[i] = rows[i] /\ rows[i] # m
  BY <1>1, <1>2 DEF Range
<1>4. Range(rows') = Range(rows) \cup {m}
  BY <1>3 DEF Range
<1>5. Once(rows')
  BY <1>3 DEF Once, InboxInv
<1>6. ASSUME NEW X, m \notin X, OldestIn(rows, X) PROVE OldestIn(rows', X)
  BY <1>3, <1>6 DEF OldestIn
<1>7. OldestIn(rows', delivered')
  BY <1>1, <1>2, <1>6 DEF InboxInv
<1>8. ASSUME NEW t \in Tasks PROVE Call(t)'
  <2>1. Call(t) /\ pc' = pc /\ batch' = batch
    BY <1>1 DEF InboxInv, task
  <2>2. pc[t] = "mark" => OldestIn(rows', delivered \cup Range(batch[t]))
    BY <1>1, <1>2, <1>6, <2>1 DEF Call, Carrying
  <2>3. QED
    BY <1>1, <2>1, <2>2 DEF Call
<1>9. arrived' \ (delivered' \cup due') \subseteq Range(rows')
  BY <1>1, <1>4 DEF InboxInv, ServerKeeps
<1>10. /\ arrived' \subseteq Msgs /\ due' \subseteq Expiring \cap arrived' /\ delivered' \subseteq arrived'
       /\ Range(rows') \subseteq arrived'
  BY <1>1, <1>2, <1>4 DEF InboxInv, TypeOK
<1>11. /\ pc' \in [Tasks -> Steps \cup {"idle"}] /\ dev' = dev
       /\ batch' \in [Tasks -> Seq(Entries)] /\ array' \in [Tasks -> Seq(Entries)]
  BY <1>1 DEF InboxInv, TypeOK, task
<1>12. QED
  BY <1>1, <1>3, <1>5, <1>7, <1>8, <1>9, <1>10, <1>11, ServerMoves

LEMMA FallDueInbox == ASSUME InboxInv, NEW m, FallDue(m) PROVE InboxInv'
<1>1. /\ m \in Expiring \cap arrived /\ due' = due \cup {m}
      /\ UNCHANGED <<rows, delivered, arrived, device, task>>
  BY DEF FallDue
<1>2. \A t \in Tasks : Call(t)'
  BY <1>1 DEF InboxInv, Call, task
<1>3. TypeOK'
  BY <1>1 DEF InboxInv, TypeOK, device, task
<1>4. QED
  BY <1>1, <1>2, <1>3 DEF InboxInv, ServerKeeps

LEMMA DeleteExpiredInbox == ASSUME InboxInv, NEW t \in Tasks, DeleteExpired(t) PROVE InboxInv'
<1>1. /\ rows' = Without(rows, due) /\ Go(t, "select", << >>, << >>)
      /\ UNCHANGED <<delivered, arrived, due, device>>
  BY DEF DeleteExpired
<1>2. /\ rows \in Seq(Msgs) /\ Once(rows) /\ OldestIn(rows, delivered) /\ TypeOK
      /\ Range(rows) \subseteq arrived
  BY DEF InboxInv, TypeOK
<1>3. /\ rows' \in Seq(Msgs) /\ Range(rows') = Range(rows) \ due
      /\ Once(rows') /\ \A X : OldestIn(rows, X) => OldestIn(rows', X)
  BY <1>1, <1>2, WithoutIsList, WithoutRange, WithoutOrder
<1>4. /\ pc'[t] = "select" /\ batch'[t] = << >> /\ dev' = dev
      /\ \A u \in Tasks \ {t} : pc'[u] = pc[u] /\ batch'[u] = batch[u]
      /\ pc' \in [Tasks -> Steps \cup {"idle"}]
      /\ batch' \in [Tasks -> Seq(Entries)] /\ array' \in [Tasks -> Seq(Entries)]
  <2>1. "select" \in Steps \cup {"idle"} /\ << >> \in Seq(Entries)
    BY DEF Steps
  <2>2. QED
    BY <1>1, <1>2, <2>1 DEF Go, TypeOK
<1>5. ASSUME NEW u \in Tasks PROVE Call(u)'
  <2>1. CASE u = t
    BY <1>4, <2>1 DEF Call, Carrying, Sending
  <2>2. CASE u # t
    <3>1. Call(u) /\ pc'[u] = pc[u] /\ batch'[u] = batch[u]
      BY <1>4, <2>2 DEF InboxInv
    <3>2. QED
      BY <1>1, <1>3, <3>1 DEF Call
  <2>3. QED
    BY <2>1, <2>2
<1>6. arrived' \ (delivered' \cup due') \subseteq Range(rows')
  BY <1>1, <1>3 DEF InboxInv, ServerKeeps
<1>7. /\ arrived' \subseteq Msgs /\ due' \subseteq Expiring \cap arrived' /\ delivered' \subseteq arrived'
  BY <1>1 DEF InboxInv, TypeOK
<1>8. QED
  BY <1>1, <1>2, <1>3, <1>4, <1>5, <1>6, <1>7, ServerMoves

LEMMA MarkDeliveredInbox == ASSUME InboxInv, NEW t \in Tasks, MarkDelivered(t) PROVE InboxInv'
<1>1. /\ pc[t] = "mark" /\ delivered' = delivered \cup Range(batch[t])
      /\ Go(t, "answer", batch[t], << >>) /\ UNCHANGED <<rows, arrived, due, device>>
  BY DEF MarkDelivered
<1>2. TypeOK /\ Call(t)
  BY DEF InboxInv
<1>3. /\ pc'[t] = "answer" /\ batch'[t] = batch[t] /\ dev' = dev
      /\ \A u \in Tasks \ {t} : pc'[u] = pc[u] /\ batch'[u] = batch[u]
      /\ pc' \in [Tasks -> Steps \cup {"idle"}]
      /\ batch' \in [Tasks -> Seq(Entries)] /\ array' \in [Tasks -> Seq(Entries)]
  <2>1. PICK b : b = batch[t]
    OBVIOUS
  <2>2. "answer" \in Steps \cup {"idle"} /\ << >> \in Seq(Entries) /\ b \in Seq(Entries)
    BY <1>2, <2>1, Lists DEF Steps
  <2>3. Go(t, "answer", b, << >>)
    BY <1>1, <2>1
  <2>4. QED
    BY <1>2, <2>1, <2>2, <2>3, GoMoves
<1>4. OldestIn(rows, delivered') /\ Range(batch[t]) \subseteq arrived
  BY <1>1, <1>2 DEF Call, Carrying
<1>5. ASSUME NEW X, NEW Y, OldestIn(rows, X), OldestIn(rows, Y) PROVE OldestIn(rows, X \cup Y)
  BY <1>5 DEF OldestIn
<1>6. ASSUME NEW u \in Tasks PROVE Call(u)'
  <2>1. CASE u = t
    BY <1>1, <1>2, <1>3, <2>1 DEF Call, Carrying, Sending
  <2>2. CASE u # t
    <3>1. Call(u) /\ pc'[u] = pc[u] /\ batch'[u] = batch[u]
      BY <1>3, <2>2 DEF InboxInv
    <3>2. pc[u] = "mark" => OldestIn(rows, delivered' \cup Range(batch[u]))
      <4>1. delivered' \cup Range(batch[u]) = delivered' \cup (delivered \cup Range(batch[u]))
        BY <1>1
      <4>2. QED
        BY <1>4, <1>5, <3>1, <4>1 DEF Call
    <3>3. QED
      BY <1>1, <3>1, <3>2 DEF Call
  <2>3. QED
    BY <2>1, <2>2
<1>7. /\ arrived' \subseteq Msgs /\ due' \subseteq Expiring \cap arrived' /\ delivered' \subseteq arrived'
      /\ rows' \in Seq(Msgs) /\ Range(rows') \subseteq arrived' /\ Once(rows')
      /\ arrived' \ (delivered' \cup due') \subseteq Range(rows')
  BY <1>1, <1>4 DEF InboxInv, TypeOK, ServerKeeps
<1>8. QED
  BY <1>1, <1>3, <1>4, <1>6, <1>7, ServerMoves

\* A step of a call that leaves the server and the devices alone.
LEMMA GoOn ==
    ASSUME InboxInv, UNCHANGED <<server, device>>, NEW t \in Tasks,
           NEW s \in Steps \cup {"idle"}, NEW b \in Seq(Entries), NEW a \in Seq(Entries),
           Go(t, s, b, a),
           s \in Carrying \cup Sending => b # << >>,
           s \in Carrying => Range(b) \subseteq arrived,
           s \in Sending => Range(b) \subseteq Sends,
           s \notin Carrying \cup Sending => b = << >>,
           s = "mark" => OldestIn(rows, delivered \cup Range(b))
    PROVE  InboxInv'
<1>1. TypeOK
  BY DEF InboxInv
<1>2. /\ pc'[t] = s /\ batch'[t] = b /\ array'[t] = a /\ dev' = dev
      /\ \A u \in Tasks \ {t} : pc'[u] = pc[u] /\ batch'[u] = batch[u] /\ array'[u] = array[u]
      /\ pc' \in [Tasks -> Steps \cup {"idle"}] /\ dev' \in [Tasks -> Devices]
      /\ batch' \in [Tasks -> Seq(Entries)] /\ array' \in [Tasks -> Seq(Entries)]
  BY <1>1, GoMoves
<1>3. Call(t)'
  BY <1>2 DEF Call, server
<1>4. /\ local' \in [Devices -> Seq(Entries)] /\ view' \in [Devices -> Seq(Entries)]
      /\ signedIn' = signedIn /\ sent' \subseteq Sends
  BY <1>1 DEF TypeOK, device
<1>5. QED
  BY <1>2, <1>3, <1>4, ClientMoves

LEMMA DoneInbox ==
    ASSUME InboxInv, UNCHANGED <<server, device>>, NEW t \in Tasks, Done(t)
    PROVE  InboxInv'
<1>1. "idle" \notin Carrying \cup Sending /\ << >> \in Seq(Entries) /\ Go(t, "idle", << >>, << >>)
  BY DEF Carrying, Sending, Done
<1>2. QED
  BY <1>1, GoOn

\* What is left of the loop over the messages of a response.
LEMMA LoopStep ==
    ASSUME NEW b
    PROVE  LET s == IF b = << >> THEN "reload" ELSE "read" IN
           /\ s \in Steps /\ s \notin Sending /\ s # "mark"
           /\ s \in Carrying \cup Sending <=> b # << >>
  BY DEF Steps, Carrying, Sending

LEMMA PollInbox ==
    ASSUME InboxInv, NEW t \in Tasks,
           \/ StartPoll(t) \/ SelectInbox(t) \/ Answer(t) \/ Snapshot(t) \/ StoreRead(t)
           \/ StorePut(t) \/ Reload(t)
    PROVE  InboxInv'
<1>1. /\ TypeOK /\ Call(t) /\ Range(rows) \subseteq arrived
      /\ << >> \in Seq(Entries) /\ batch[t] \in Seq(Entries)
      /\ array[t] \in Seq(Entries) /\ local[dev[t]] \in Seq(Entries) /\ dev[t] \in Devices
  BY Lists DEF InboxInv
<1>2. CASE StartPoll(t)
  <2>1. /\ pc[t] = "idle" /\ pc' = [pc EXCEPT ![t] = "expire"]
        /\ UNCHANGED <<batch, array, server, device>>
        /\ \E d \in Devices : dev' = [dev EXCEPT ![t] = d]
    BY <1>2 DEF StartPoll
  <2>2. /\ pc'[t] = "expire" /\ batch'[t] = << >>
        /\ \A u \in Tasks \ {t} : pc'[u] = pc[u] /\ batch'[u] = batch[u]
        /\ pc' \in [Tasks -> Steps \cup {"idle"}] /\ dev' \in [Tasks -> Devices]
    BY <1>1, <2>1 DEF TypeOK, Steps, Call, Carrying, Sending
  <2>3. Call(t)'
    BY <2>2 DEF Call, Carrying, Sending
  <2>4. /\ local' \in [Devices -> Seq(Entries)] /\ view' \in [Devices -> Seq(Entries)]
        /\ signedIn' = signedIn /\ sent' \subseteq Sends /\ UNCHANGED server
        /\ batch' \in [Tasks -> Seq(Entries)] /\ array' \in [Tasks -> Seq(Entries)]
    BY <1>1, <2>1 DEF TypeOK, device
  <2>5. QED
    BY <2>2, <2>3, <2>4, ClientMoves
<1>3. CASE SelectInbox(t)
  <2>1. UNCHANGED <<server, device>>
    BY <1>3 DEF SelectInbox
  <2>2. CASE Done(t)
    BY <2>1, <2>2, DoneInbox
  <2>3. CASE InboxQuery # << >> /\ Go(t, "mark", InboxQuery, << >>)
    <3>1. PICK b : b = InboxQuery
      OBVIOUS
    <3>2. /\ b \in Seq(Msgs) /\ Range(b) \subseteq arrived
          /\ OldestIn(rows, delivered \cup Range(b))
      BY <1>1, <3>1, QueryFacts DEF InboxInv
    <3>3. b \in Seq(Entries) /\ "mark" \in Steps /\ "mark" \in Carrying /\ "mark" \notin Sending
      BY <1>1, <3>2, Lists DEF Steps, Carrying, Sending
    <3>4. QED
      BY <1>1, <2>1, <2>3, <3>1, <3>2, <3>3, GoOn
  <2>4. QED
    BY <1>3, <2>2, <2>3 DEF SelectInbox
<1>4. CASE Answer(t)
  <2>1. UNCHANGED <<server, device>> /\ pc[t] = "answer"
    BY <1>4 DEF Answer
  <2>2. CASE Done(t)
    BY <2>1, <2>2, DoneInbox
  <2>3. CASE Go(t, "snapshot", batch[t], << >>)
    <3>1. PICK b : b = batch[t]
      OBVIOUS
    <3>2. /\ "snapshot" \in Steps /\ "snapshot" \in Carrying /\ "snapshot" \notin Sending
          /\ Range(b) \subseteq arrived /\ b # << >> /\ b \in Seq(Entries)
      BY <1>1, <2>1, <3>1 DEF Steps, Carrying, Sending, Call
    <3>3. QED
      BY <1>1, <2>1, <2>3, <3>1, <3>2, GoOn
  <2>4. QED
    BY <1>4, <2>2, <2>3 DEF Answer
<1>5. CASE Snapshot(t)
  <2>1. PICK b : b = Without(batch[t], Range(local[dev[t]]))
    OBVIOUS
  <2>2. UNCHANGED <<server, device>> /\ pc[t] = "snapshot" /\ Loop(t, b)
    BY <1>5, <2>1 DEF Snapshot
  <2>3. b \in Seq(Entries) /\ Range(b) \subseteq arrived
    BY <1>1, <2>1, <2>2, WithoutIsList, WithoutRange DEF Call, Carrying
  <2>4. QED
    BY <1>1, <2>2, <2>3, LoopStep, GoOn DEF Loop
<1>6. CASE StoreRead(t)
  <2>1. PICK b, a : b = batch[t] /\ a = local[dev[t]]
    OBVIOUS
  <2>2. UNCHANGED <<server, device>> /\ pc[t] = "read" /\ Go(t, "put", b, a)
    BY <1>6, <2>1 DEF StoreRead
  <2>3. /\ "put" \in Steps /\ "put" \in Carrying /\ "put" \notin Sending
        /\ Range(b) \subseteq arrived /\ b # << >> /\ b \in Seq(Entries) /\ a \in Seq(Entries)
    BY <1>1, <2>1, <2>2 DEF Steps, Carrying, Sending, Call
  <2>4. QED
    BY <2>2, <2>3, GoOn
<1>7. CASE StorePut(t)
  <2>1. PICK b : b = Tail(batch[t])
    OBVIOUS
  <2>2. /\ pc[t] = "put" /\ Loop(t, b) /\ UNCHANGED <<server, view, signedIn, sent>>
        /\ local' = [local EXCEPT ![dev[t]] = Append(array[t], Head(batch[t]))]
    BY <1>7, <2>1 DEF StorePut
  <2>3. batch[t] # << >> /\ Range(batch[t]) \subseteq arrived
    BY <1>1, <2>2 DEF Call, Carrying
  <2>4. b \in Seq(Entries) /\ Head(batch[t]) \in Entries /\ Range(b) \subseteq Range(batch[t])
    BY <1>1, <2>1, <2>3 DEF Range
  <2>5. local' \in [Devices -> Seq(Entries)]
    BY <1>1, <2>2, <2>4 DEF TypeOK
  <2>s. PICK s : s = IF b = << >> THEN "reload" ELSE "read"
    OBVIOUS
  <2>6. /\ s \in Steps \cup {"idle"} /\ s \notin Sending /\ s # "mark"
        /\ s \in Carrying \cup Sending <=> b # << >>
    BY <2>s, LoopStep
  <2>7. Go(t, s, b, << >>)
    BY <2>2, <2>s DEF Loop
  <2>8. /\ pc'[t] = s /\ batch'[t] = b /\ dev' = dev
        /\ \A u \in Tasks \ {t} : pc'[u] = pc[u] /\ batch'[u] = batch[u]
        /\ pc' \in [Tasks -> Steps \cup {"idle"}] /\ dev' \in [Tasks -> Devices]
        /\ batch' \in [Tasks -> Seq(Entries)] /\ array' \in [Tasks -> Seq(Entries)]
    <3>1. TypeOK /\ b \in Seq(Entries) /\ << >> \in Seq(Entries) /\ s \in Steps \cup {"idle"}
      BY <1>1, <2>4, <2>6
    <3>2. /\ pc' = [pc EXCEPT ![t] = s] /\ batch' = [batch EXCEPT ![t] = b]
          /\ array' = [array EXCEPT ![t] = << >>] /\ dev' = dev
      BY <2>7 DEF Go
    <3>3. /\ pc \in [Tasks -> Steps \cup {"idle"}] /\ dev \in [Tasks -> Devices]
          /\ batch \in [Tasks -> Seq(Entries)] /\ array \in [Tasks -> Seq(Entries)]
      BY <3>1 DEF TypeOK
    <3>4. QED
      BY <3>1, <3>2, <3>3
  <2>9. Call(t)'
    BY <2>2, <2>3, <2>4, <2>6, <2>8 DEF Call, server
  <2>10. view' \in [Devices -> Seq(Entries)] /\ sent' \subseteq Sends
    BY <1>1, <2>2 DEF TypeOK
  <2>11. QED
    BY <2>2, <2>5, <2>8, <2>9, <2>10, ClientMoves
<1>8. CASE Reload(t)
  <2>1. /\ Go(t, "idle", << >>, << >>) /\ UNCHANGED <<server, local, signedIn, sent>>
        /\ view' = [view EXCEPT ![dev[t]] = local[dev[t]]]
    BY <1>8 DEF Reload, Done
  <2>2. view' \in [Devices -> Seq(Entries)] /\ local' \in [Devices -> Seq(Entries)] /\ sent' \subseteq Sends
    BY <1>1, <2>1 DEF TypeOK
  <2>3. /\ pc'[t] = "idle" /\ batch'[t] = << >>
        /\ \A u \in Tasks \ {t} : pc'[u] = pc[u] /\ batch'[u] = batch[u]
        /\ pc' \in [Tasks -> Steps \cup {"idle"}] /\ dev' \in [Tasks -> Devices]
        /\ batch' \in [Tasks -> Seq(Entries)] /\ array' \in [Tasks -> Seq(Entries)]
    <3>1. TypeOK /\ << >> \in Seq(Entries) /\ "idle" \in Steps \cup {"idle"}
      BY <1>1
    <3>2. QED
      BY <2>1, <3>1, GoMoves
  <2>4. Call(t)'
    BY <2>3 DEF Call, Carrying, Sending
  <2>5. QED
    BY <2>1, <2>2, <2>3, <2>4, ClientMoves
<1>9. QED
  BY <1>2, <1>3, <1>4, <1>5, <1>6, <1>7, <1>8

LEMMA SendInbox ==
    ASSUME InboxInv, NEW t \in Tasks, StartSend(t) \/ SendRead(t) \/ SendPut(t)
    PROVE  InboxInv'
<1>1. /\ TypeOK /\ Call(t)
      /\ << >> \in Seq(Entries) /\ batch[t] \in Seq(Entries)
      /\ array[t] \in Seq(Entries) /\ local[dev[t]] \in Seq(Entries) /\ dev[t] \in Devices
  BY Lists DEF InboxInv
<1>2. CASE StartSend(t)
  <2>1. PICK d \in Devices, s \in Sends \ sent :
           sent' = sent \cup {s} /\ dev' = [dev EXCEPT ![t] = d] /\ batch' = [batch EXCEPT ![t] = <<s>>]
    BY <1>2 DEF StartSend
  <2>2. /\ pc' = [pc EXCEPT ![t] = "send_read"]
        /\ UNCHANGED <<array, server, local, view, signedIn>>
    BY <1>2 DEF StartSend
  <2>3. <<s>> \in Seq(Entries) /\ <<s>> # << >> /\ Range(<<s>>) = {s}
    BY DEF Range, Entries
  <2>4. /\ pc'[t] = "send_read" /\ batch'[t] = <<s>>
        /\ \A u \in Tasks \ {t} : pc'[u] = pc[u] /\ batch'[u] = batch[u]
        /\ pc' \in [Tasks -> Steps \cup {"idle"}] /\ dev' \in [Tasks -> Devices]
        /\ batch' \in [Tasks -> Seq(Entries)] /\ array' \in [Tasks -> Seq(Entries)]
    BY <1>1, <2>1, <2>2, <2>3 DEF TypeOK, Steps
  <2>5. Call(t)'
    BY <2>3, <2>4 DEF Call, Carrying, Sending
  <2>6. view' \in [Devices -> Seq(Entries)] /\ local' \in [Devices -> Seq(Entries)] /\ sent' \subseteq Sends
    BY <1>1, <2>1, <2>2 DEF TypeOK
  <2>7. QED
    BY <2>2, <2>4, <2>5, <2>6, ClientMoves
<1>3. CASE SendRead(t)
  <2>1. PICK b, a : b = batch[t] /\ a = local[dev[t]]
    OBVIOUS
  <2>2. UNCHANGED <<server, device>> /\ pc[t] = "send_read" /\ Go(t, "send_put", b, a)
    BY <1>3, <2>1 DEF SendRead
  <2>3. /\ "send_put" \in Steps /\ "send_put" \notin Carrying /\ "send_put" \in Sending
        /\ Range(b) \subseteq Sends /\ b # << >> /\ b \in Seq(Entries) /\ a \in Seq(Entries)
    BY <1>1, <2>1, <2>2 DEF Steps, Carrying, Sending, Call
  <2>4. QED
    BY <2>2, <2>3, GoOn DEF Carrying
<1>4. CASE SendPut(t)
  <2>1. /\ pc[t] = "send_put" /\ Go(t, "idle", << >>, << >>) /\ UNCHANGED <<server, signedIn, sent>>
        /\ local' = [local EXCEPT ![dev[t]] = Append(array[t], Head(batch[t]))]
        /\ view' = [view EXCEPT ![dev[t]] = Append(@, Head(batch[t]))]
    BY <1>4 DEF SendPut, Done
  <2>2. Head(batch[t]) \in Entries
    BY <1>1, <2>1 DEF Call, Sending
  <2>3. view' \in [Devices -> Seq(Entries)] /\ local' \in [Devices -> Seq(Entries)] /\ sent' \subseteq Sends
    BY <1>1, <2>1, <2>2 DEF TypeOK
  <2>4. /\ pc'[t] = "idle" /\ batch'[t] = << >>
        /\ \A u \in Tasks \ {t} : pc'[u] = pc[u] /\ batch'[u] = batch[u]
        /\ pc' \in [Tasks -> Steps \cup {"idle"}] /\ dev' \in [Tasks -> Devices]
        /\ batch' \in [Tasks -> Seq(Entries)] /\ array' \in [Tasks -> Seq(Entries)]
    BY <1>1, <2>1, GoMoves
  <2>5. Call(t)'
    BY <2>4 DEF Call, Carrying, Sending
  <2>6. QED
    BY <2>1, <2>3, <2>4, <2>5, ClientMoves
<1>5. QED
  BY <1>2, <1>3, <1>4

\* A message that storeMessage throws on is given up, the others are not.
LEMMA StoreErrorInbox ==
    ASSUME InboxInv, NEW t \in Tasks, StoreError(t) PROVE InboxInv'
<1>1. TypeOK /\ Call(t) /\ batch[t] \in Seq(Entries) /\ << >> \in Seq(Entries)
  BY Lists DEF InboxInv
<1>2. PICK b : b = Tail(batch[t])
  OBVIOUS
<1>3. UNCHANGED <<server, device>> /\ pc[t] \in {"read", "put"} /\ Loop(t, b)
  BY <1>2 DEF StoreError
<1>4. batch[t] # << >> /\ Range(batch[t]) \subseteq arrived
  BY <1>1, <1>3 DEF Call, Carrying
<1>5. b \in Seq(Entries) /\ Range(b) \subseteq arrived
  BY <1>1, <1>2, <1>4 DEF Range
<1>6. QED
  BY <1>1, <1>3, <1>5, LoopStep, GoOn DEF Loop

LEMMA DeviceInbox ==
    ASSUME InboxInv, NEW d \in Devices, EraseDevice(d) \/ SignIn(d)
    PROVE  InboxInv'
<1>1. UNCHANGED <<rows, delivered, arrived, due, sent, pc, dev, batch, array>>
  BY DEF EraseDevice, SignIn, server, task
<1>2. /\ local' \in [Devices -> Seq(Entries)] /\ view' \in [Devices -> Seq(Entries)]
      /\ signedIn' \in [Devices -> BOOLEAN]
  <2>1. << >> \in Seq(Entries) /\ TypeOK
    BY Lists DEF InboxInv
  <2>2. CASE EraseDevice(d)
    BY <2>1, <2>2 DEF TypeOK, EraseDevice
  <2>3. CASE SignIn(d)
    BY <2>1, <2>3 DEF TypeOK, SignIn
  <2>4. QED
    BY <2>2, <2>3
<1>3. QED
  BY <1>1, <1>2 DEF InboxInv, TypeOK, ServerKeeps, Call

LEMMA InboxInvInit == ASSUME Init PROVE InboxInv
  BY InboxAssumption DEF Init, InboxInv, TypeOK, ServerKeeps, Once, OldestIn, Call, Carrying, Sending,
                         Range, Entries

LEMMA InboxInvNext == ASSUME InboxInv, [Next]_vars PROVE InboxInv'
<1>1. CASE UNCHANGED vars
  BY <1>1 DEF vars, server, device, task, InboxInv, TypeOK, ServerKeeps, Call
<1>2. ASSUME NEW t \in Tasks, StartPoll(t) \/ StartSend(t) \/ Step(t) \/ CutOff(t) \/ StoreError(t)
      PROVE  InboxInv'
  BY <1>2, DeleteExpiredInbox, MarkDeliveredInbox, PollInbox, SendInbox, DoneInbox,
     StoreErrorInbox DEF Step, CutOff
<1>3. ASSUME NEW m \in Msgs, Arrive(m) \/ FallDue(m) PROVE InboxInv'
  BY <1>3, ArriveInbox, FallDueInbox
<1>4. ASSUME NEW d \in Devices, EraseDevice(d) \/ SignIn(d) PROVE InboxInv'
  BY <1>4, DeviceInbox
<1>5. QED
  BY <1>1, <1>2, <1>3, <1>4 DEF Next

THEOREM InboxInvHolds == Spec => []InboxInv
<1>1. Init => InboxInv
  BY InboxInvInit
<1>2. InboxInv /\ [Next]_vars => InboxInv'
  BY InboxInvNext
<1>3. QED
  BY <1>1, <1>2, PTL DEF Spec

\* However calls overlap and fail, the state is of its types.
THEOREM InboxTypes == Spec => []TypeOK
<1>1. InboxInv => TypeOK
  BY DEF InboxInv
<1>2. QED
  BY <1>1, InboxInvHolds, PTL

\* The server gives no message up before it has handed it out, or it has expired:
\* the poll deletes what is due and marks what it has selected.
THEOREM MessagesAreKept == Spec => []ServerKeeps
<1>1. InboxInv => ServerKeeps
  BY DEF InboxInv
<1>2. QED
  BY <1>1, InboxInvHolds, PTL

\* However polls overlap and fail, no message is marked delivered before an older
\* one: a poll that marks late marks what was oldest when it selected, and the
\* rows that have been marked or deleted since leave no gap.
THEOREM OldestAreMarked == Spec => []DeliveredFirst
<1>1. InboxInv => DeliveredFirst
  BY DEF InboxInv, DeliveredFirst, OldestIn
<1>2. QED
  BY <1>1, InboxInvHolds, PTL

-----------------------------------------------------------------------------
(* One call at a time, that ends, on devices that stay signed in.            *)

OneCall == (\A t, u \in Tasks : t = u) /\ FaultPoints = {} /\ "erase" \notin Ops

Storing == {"read", "put", "reload"}
DeviceInv ==
    /\ \A d \in Devices : signedIn[d]
    /\ HistoryComplete
    /\ \A t \in Tasks : pc[t] \in {"put", "send_put"} => array[t] = local[dev[t]]
    /\ \A d \in Devices : \/ view[d] = local[d]
                          \/ \E t \in Tasks : pc[t] \in Storing /\ dev[t] = d

LEMMA HistoryKept ==
    ASSUME InboxInv, HistoryComplete, NEW t \in Tasks, \A u \in Tasks : u = t,
           \A m \in delivered' : m \in delivered \/ m \in Range(batch'[t]),
           \A d \in Devices : Range(local[d]) \subseteq Range(local'[d]),
           \A m \in Range(batch[t]) : \/ m \in Range(batch'[t]) \/ m \notin Msgs
                                      \/ \E d \in Devices : m \in Range(local'[d])
    PROVE  HistoryComplete'
<1>1. delivered \subseteq Msgs
  BY DEF InboxInv, TypeOK
<1> SUFFICES ASSUME NEW m \in delivered', m \notin Range(batch'[t])
             PROVE  \E d \in Devices : m \in Range(local'[d])
  BY DEF HistoryComplete, InHand
<1>2. m \in delivered /\ m \in Msgs
  BY <1>1
<1>3. m \in Range(batch[t]) \/ \E d \in Devices : m \in Range(local[d])
  BY <1>2 DEF HistoryComplete, InHand
<1>4. QED
  BY <1>2, <1>3

\* What a row more, or one less at the front, does to the members of a list.
LEMMA ListEnds ==
    ASSUME NEW A, NEW s \in Seq(A), NEW x
    PROVE  /\ Range(Append(s, x)) = Range(s) \cup {x}
           /\ s # << >> => Range(s) = {Head(s)} \cup Range(Tail(s))
<1>1. DOMAIN s = 1..Len(s) /\ Len(s) \in Nat
  OBVIOUS
<1>2. /\ DOMAIN Append(s, x) = 1..(Len(s) + 1) /\ Append(s, x)[Len(s) + 1] = x
      /\ \A i \in 1..Len(s) : Append(s, x)[i] = s[i]
  BY <1>1
<1>3. Range(Append(s, x)) = Range(s) \cup {x}
  BY <1>1, <1>2 DEF Range
<1>4. ASSUME s # << >> PROVE Range(s) = {Head(s)} \cup Range(Tail(s))
  <2>1. Len(s) # 0
    BY <1>4, EmptySeq
  <2>2. /\ Head(s) = s[1] /\ Tail(s) \in Seq(A) /\ Len(Tail(s)) = Len(s) - 1
        /\ \A i \in 1..(Len(s) - 1) : Tail(s)[i] = s[i + 1]
    BY <1>4
  <2>3. DOMAIN Tail(s) = 1..(Len(s) - 1)
    BY <2>2
  <2>4. \A i \in 1..Len(s) : i = 1 \/ (i - 1 \in 1..(Len(s) - 1) /\ (i - 1) + 1 = i)
    BY <1>1
  <2>5. \A i \in 1..Len(s) : s[i] = Head(s) \/ s[i] \in Range(Tail(s))
    BY <2>2, <2>3, <2>4 DEF Range
  <2>6. \A i \in 1..(Len(s) - 1) : i + 1 \in 1..Len(s)
    BY <1>1
  <2>7. Head(s) \in Range(s) /\ Range(Tail(s)) \subseteq Range(s)
    BY <1>1, <2>1, <2>2, <2>3, <2>6 DEF Range
  <2>8. QED
    BY <1>1, <2>5, <2>7 DEF Range
<1>5. QED
  BY <1>3, <1>4

LEMMA DeviceInvNext ==
    ASSUME OneCall, InboxInv, DeviceInv, [Next]_vars
    PROVE  DeviceInv'
<1>0. TypeOK /\ HistoryComplete /\ \A d \in Devices : signedIn[d]
  BY DEF InboxInv, DeviceInv
<1>1. CASE UNCHANGED vars
  BY <1>1 DEF vars, server, device, task, DeviceInv, HistoryComplete, InHand
<1>2. ASSUME NEW m \in Msgs, Arrive(m) \/ FallDue(m) PROVE DeviceInv'
  BY <1>2 DEF Arrive, FallDue, device, task, DeviceInv, HistoryComplete, InHand
<1>3. ASSUME NEW d \in Devices, EraseDevice(d) \/ SignIn(d) PROVE DeviceInv'
  BY <1>0, <1>3 DEF EraseDevice, SignIn, OneCall
<1>4. ASSUME NEW t \in Tasks, StartPoll(t) \/ StartSend(t) \/ Step(t) \/ CutOff(t) \/ StoreError(t)
      PROVE  DeviceInv'
  <2>0. /\ \A u \in Tasks : u = t
        /\ Call(t) /\ dev[t] \in Devices /\ batch[t] \in Seq(Entries)
    BY Lists DEF OneCall, InboxInv
  \* Steps that leave view and stores alone.
  <2>1. ASSUME UNCHANGED <<local, view, signedIn>>,
               \A m \in delivered' : m \in delivered \/ m \in Range(batch'[t]),
               \A m \in Range(batch[t]) : \/ m \in Range(batch'[t])
                                          \/ \E d \in Devices : m \in Range(local[d]),
               pc[t] \in Storing => pc'[t] \in Storing /\ dev'[t] = dev[t],
               pc'[t] \in {"put", "send_put"} => array'[t] = local[dev'[t]]
        PROVE  DeviceInv'
    <3>1. HistoryComplete'
      BY <1>0, <2>0, <2>1, HistoryKept
    <3>2. \A d \in Devices : \/ view'[d] = local'[d]
                             \/ \E u \in Tasks : pc'[u] \in Storing /\ dev'[u] = d
      BY <2>0, <2>1 DEF DeviceInv
    <3>3. QED
      BY <1>0, <2>0, <2>1, <3>1, <3>2 DEF DeviceInv
  <2>2. CASE StartPoll(t)
    <3>1. /\ pc[t] = "idle" /\ pc'[t] = "expire" /\ UNCHANGED <<local, view, signedIn, delivered, batch>>
      BY <1>0, <2>2 DEF StartPoll, server, device, TypeOK
    <3>2. QED
      BY <2>1, <3>1 DEF Storing
  <2>3. CASE StartSend(t)
    <3>1. /\ pc[t] = "idle" /\ pc'[t] = "send_read" /\ UNCHANGED <<local, view, signedIn, delivered>>
      BY <1>0, <2>3 DEF StartSend, server, TypeOK
    <3>2. batch[t] = << >>
      BY <2>0, <3>1 DEF Call, Carrying, Sending
    <3>3. \A m \in Range(batch[t]) : FALSE
      BY <3>2 DEF Range
    <3>4. QED
      BY <2>1, <3>1, <3>3 DEF Storing
  <2>4. CASE DeleteExpired(t) \/ SelectInbox(t)
    <3>1. /\ pc[t] \in {"expire", "select"} /\ pc'[t] \in {"select", "mark", "idle"}
          /\ UNCHANGED <<local, view, signedIn, delivered>>
      BY <1>0, <2>4 DEF DeleteExpired, SelectInbox, Done, Go, server, device, TypeOK
    <3>2. batch[t] = << >>
      BY <2>0, <3>1 DEF Call, Carrying, Sending
    <3>3. \A m \in Range(batch[t]) : FALSE
      BY <3>2 DEF Range
    <3>4. QED
      BY <2>1, <3>1, <3>3 DEF Storing
  <2>5. CASE MarkDelivered(t)
    <3>1. /\ pc[t] = "mark" /\ pc'[t] = "answer" /\ UNCHANGED <<local, view, signedIn>>
          /\ batch'[t] = batch[t] /\ delivered' = delivered \cup Range(batch[t])
      BY <1>0, <2>5 DEF MarkDelivered, Go, device, TypeOK
    <3>2. QED
      BY <2>1, <3>1 DEF Storing
  <2>6. CASE Answer(t)
    <3>1. Go(t, "snapshot", batch[t], << >>) /\ UNCHANGED <<server, device>> /\ pc[t] = "answer"
      BY <1>0, <2>0, <2>6 DEF Answer
    <3>2. pc'[t] = "snapshot" /\ batch'[t] = batch[t] /\ UNCHANGED <<local, view, signedIn, delivered>>
      BY <1>0, <3>1 DEF Go, server, device, TypeOK
    <3>3. QED
      BY <2>1, <3>1, <3>2 DEF Storing
  <2>7. CASE Snapshot(t)
    <3>1. PICK b : b = Without(batch[t], Range(local[dev[t]]))
      OBVIOUS
    <3>2. /\ pc[t] = "snapshot" /\ UNCHANGED <<local, view, signedIn, delivered>> /\ batch'[t] = b
          /\ pc'[t] \in {"read", "reload"}
      BY <1>0, <2>7, <3>1 DEF Snapshot, Loop, Go, server, device, TypeOK
    <3>3. Range(b) = Range(batch[t]) \ Range(local[dev[t]])
      BY <2>0, <3>1, WithoutRange
    <3>4. QED
      BY <2>0, <2>1, <3>2, <3>3 DEF Storing
  <2>8. CASE StoreRead(t)
    <3>1. /\ pc[t] = "read" /\ pc'[t] = "put" /\ UNCHANGED <<local, view, signedIn, delivered>>
          /\ batch'[t] = batch[t] /\ array'[t] = local[dev[t]] /\ dev' = dev
      BY <1>0, <2>8 DEF StoreRead, Go, server, device, TypeOK
    <3>2. QED
      BY <2>1, <3>1 DEF Storing
  <2>9. CASE SendRead(t)
    <3>1. /\ pc[t] = "send_read" /\ pc'[t] = "send_put"
          /\ UNCHANGED <<local, view, signedIn, delivered>>
          /\ batch'[t] = batch[t] /\ array'[t] = local[dev[t]] /\ dev' = dev
      BY <1>0, <2>9 DEF SendRead, Go, server, device, TypeOK
    <3>2. QED
      BY <2>1, <3>1 DEF Storing
  <2>10. ASSUME NEW x, x = Head(batch[t]), pc[t] \in {"put", "send_put"},
                local' = [local EXCEPT ![dev[t]] = Append(array[t], x)],
                delivered' = delivered, batch'[t] = Tail(batch[t]),
                Range(batch[t]) = {x} \cup Range(Tail(batch[t]))
         PROVE  /\ HistoryComplete' /\ local'[dev[t]] = Append(local[dev[t]], x)
                /\ \A d \in Devices \ {dev[t]} : local'[d] = local[d]
    <3>1. array[t] = local[dev[t]]
      BY <2>10 DEF DeviceInv
    <3>2. /\ local'[dev[t]] = Append(local[dev[t]], x)
          /\ \A d \in Devices \ {dev[t]} : local'[d] = local[d]
      BY <1>0, <2>0, <2>10, <3>1 DEF TypeOK
    <3>3. Range(local'[dev[t]]) = Range(local[dev[t]]) \cup {x}
      BY <1>0, <3>2, Lists, ListEnds
    <3>4. \A d \in Devices : Range(local[d]) \subseteq Range(local'[d])
      BY <3>2, <3>3
    <3>5. \A m \in Range(batch[t]) : \/ m \in Range(batch'[t]) \/ m \notin Msgs
                                     \/ \E d \in Devices : m \in Range(local'[d])
      BY <2>0, <2>10, <3>3
    <3>6. QED
      BY <1>0, <2>0, <2>10, <3>2, <3>4, <3>5, HistoryKept
  <2>11. CASE StorePut(t)
    <3>1. /\ pc[t] = "put" /\ pc'[t] \in {"read", "reload"} /\ dev' = dev
          /\ batch'[t] = Tail(batch[t]) /\ UNCHANGED <<view, signedIn, delivered>>
          /\ local' = [local EXCEPT ![dev[t]] = Append(array[t], Head(batch[t]))]
      BY <1>0, <2>11 DEF StorePut, Loop, Go, server, TypeOK
    <3>2. Range(batch[t]) = {Head(batch[t])} \cup Range(Tail(batch[t]))
      <4>1. batch[t] # << >>
        BY <2>0, <3>1 DEF Call, Carrying
      <4>2. QED
        BY <2>0, <4>1, ListEnds
    <3>3. HistoryComplete' /\ \A d \in Devices \ {dev[t]} : local'[d] = local[d]
      BY <2>10, <3>1, <3>2
    <3>4. \A d \in Devices : \/ view'[d] = local'[d]
                             \/ \E u \in Tasks : pc'[u] \in Storing /\ dev'[u] = d
      BY <2>0, <3>1, <3>3 DEF DeviceInv, Storing
    <3>5. QED
      BY <1>0, <2>0, <3>1, <3>3, <3>4 DEF DeviceInv
  <2>12. CASE Reload(t)
    <3>1. /\ pc[t] = "reload" /\ pc'[t] = "idle" /\ UNCHANGED <<local, signedIn, delivered, dev>>
          /\ view' = [view EXCEPT ![dev[t]] = local[dev[t]]]
      BY <1>0, <2>12 DEF Reload, Done, Go, server, TypeOK
    <3>2. batch[t] = << >>
      BY <2>0, <3>1 DEF Call, Carrying, Sending
    <3>3. \A m \in Range(batch[t]) : FALSE
      BY <3>2 DEF Range
    <3>4. HistoryComplete'
      BY <1>0, <2>0, <3>1, <3>3, HistoryKept
    <3>5. \A d \in Devices : view'[d] = local'[d]
      BY <1>0, <2>0, <3>1 DEF DeviceInv, TypeOK
    <3>6. QED
      BY <1>0, <2>0, <3>1, <3>4, <3>5 DEF DeviceInv
  <2>13. CASE SendPut(t)
    <3>1. /\ pc[t] = "send_put" /\ pc'[t] = "idle" /\ UNCHANGED <<signedIn, delivered, dev>>
          /\ local' = [local EXCEPT ![dev[t]] = Append(array[t], Head(batch[t]))]
          /\ view' = [view EXCEPT ![dev[t]] = Append(@, Head(batch[t]))]
      BY <1>0, <2>13 DEF SendPut, Done, Go, server, TypeOK
    <3>2. batch[t] # << >> /\ Range(batch[t]) \subseteq Sends
      BY <2>0, <3>1 DEF Call, Sending
    <3>3. local'[dev[t]] = Append(local[dev[t]], Head(batch[t]))
          /\ \A d \in Devices \ {dev[t]} : local'[d] = local[d]
      <4>1. array[t] = local[dev[t]]
        BY <3>1 DEF DeviceInv
      <4>2. QED
        BY <1>0, <2>0, <3>1, <4>1 DEF TypeOK
    <3>4. \A d \in Devices : Range(local[d]) \subseteq Range(local'[d])
      <4>1. Range(local'[dev[t]]) = Range(local[dev[t]]) \cup {Head(batch[t])}
        BY <1>0, <3>3, Lists, ListEnds
      <4>2. QED
        BY <3>3, <4>1
    <3>5. \A m \in Range(batch[t]) : m \notin Msgs
      BY <3>2, InboxAssumption
    <3>6. HistoryComplete'
      BY <1>0, <2>0, <3>1, <3>4, <3>5, HistoryKept
    <3>7. \A d \in Devices : view'[d] = local'[d]
      <4>1. \A d \in Devices : view[d] = local[d]
        BY <2>0, <3>1 DEF DeviceInv, Storing
      <4>2. QED
        BY <1>0, <2>0, <3>1, <3>3, <4>1 DEF TypeOK
    <3>8. QED
      BY <1>0, <2>0, <3>1, <3>6, <3>7 DEF DeviceInv
  <2>14. CASE CutOff(t) \/ StoreError(t)
    BY <2>14 DEF CutOff, StoreError, OneCall
  <2>15. QED
    BY <1>4, <2>2, <2>3, <2>4, <2>5, <2>6, <2>7, <2>8, <2>9, <2>11, <2>12, <2>13, <2>14 DEF Step
<1>5. QED
  BY <1>1, <1>2, <1>3, <1>4 DEF Next

THEOREM DeviceInvHolds == ASSUME OneCall PROVE Spec => []DeviceInv
<1>1. Init => DeviceInv
  BY DEF Init, DeviceInv, HistoryComplete
<1>2. InboxInv /\ DeviceInv /\ [Next]_vars => DeviceInv'
  BY DeviceInvNext
<1>3. QED
  BY <1>1, <1>2, InboxInvHolds, PTL DEF Spec

\* One call at a time and no failure: what the server has marked delivered is in
\* the history of a device, or the call that has it in hand puts it there.
THEOREM HistoryIsComplete == ASSUME OneCall PROVE Spec => []HistoryComplete
<1>1. DeviceInv => HistoryComplete
  BY DEF DeviceInv
<1>2. QED
  BY <1>1, DeviceInvHolds, PTL

\* ... and between calls the page shows what IndexedDB holds, although
\* sendMessage appends to both and pollInbox reloads the page from the store.
THEOREM ViewSettles == ASSUME OneCall PROVE Spec => []SettledView
<1>1. DeviceInv /\ InboxInv => SettledView
  <2> SUFFICES ASSUME DeviceInv, InboxInv, \A t \in Tasks : pc[t] = "idle" PROVE view = local
    BY DEF SettledView
  <2>1. \A d \in Devices : view[d] = local[d]
    BY DEF DeviceInv, Storing
  <2>2. view \in [Devices -> Seq(Entries)] /\ local \in [Devices -> Seq(Entries)]
    BY DEF InboxInv, TypeOK
  <2>3. QED
    BY <2>1, <2>2
<1>2. QED
  BY <1>1, DeviceInvHolds, InboxInvHolds, PTL

-----------------------------------------------------------------------------
(* The mailbox.  Of the messages a call has in hand none is in the history   *)
(* yet, each is there once, and the server has marked them all or none.      *)

QueueInv ==
    /\ \A d \in Devices : Range(local[d]) \cap Msgs \subseteq delivered
    /\ \A t \in Tasks :
          /\ pc[t] \in Carrying => /\ Once(batch[t])
                                   /\ \A d \in Devices : Range(batch[t]) \cap Range(local[d]) = {}
          /\ pc[t] \in Carrying \ {"mark"} => Range(batch[t]) \subseteq delivered

LEMMA OnceFacts ==
    ASSUME NEW A, NEW s \in Seq(A), Once(s)
    PROVE  /\ s # << >> => Once(Tail(s)) /\ Head(s) \notin Range(Tail(s))
           /\ \A p \in Seq(A), r \in Seq(A) : s = p \o r => Once(p) /\ Range(p) \cap Range(r) = {}
<1>1. DOMAIN s = 1..Len(s) /\ Len(s) \in Nat
  OBVIOUS
<1>2. ASSUME s # << >> PROVE Once(Tail(s)) /\ Head(s) \notin Range(Tail(s))
  <2>1. /\ Head(s) = s[1] /\ Tail(s) \in Seq(A) /\ Len(s) # 0 /\ Len(Tail(s)) = Len(s) - 1
        /\ \A i \in 1..(Len(s) - 1) : Tail(s)[i] = s[i + 1]
    BY <1>2, EmptySeq
  <2>2. DOMAIN Tail(s) = 1..(Len(s) - 1)
    BY <2>1
  <2>3. \A i \in DOMAIN Tail(s) : Tail(s)[i] = s[i + 1] /\ i + 1 \in DOMAIN s /\ i \in Nat /\ i # 0
    BY <1>1, <2>1, <2>2
  <2>4. Once(Tail(s))
    BY <2>3 DEF Once
  <2>5. 1 \in DOMAIN s
    BY <1>1, <2>1
  <2>6. \A i \in DOMAIN Tail(s) : Tail(s)[i] # Head(s)
    BY <2>1, <2>3, <2>5 DEF Once
  <2>7. QED
    BY <2>4, <2>6 DEF Range
<1>3. ASSUME NEW p \in Seq(A), NEW r \in Seq(A), s = p \o r
      PROVE  Once(p) /\ Range(p) \cap Range(r) = {}
  <2>1. /\ Len(s) = Len(p) + Len(r) /\ Len(p) \in Nat /\ Len(r) \in Nat
        /\ \A i \in 1..Len(p) : s[i] = p[i] /\ i \in DOMAIN s
        /\ \A i \in 1..Len(r) : s[Len(p) + i] = r[i] /\ Len(p) + i \in DOMAIN s
    BY <1>3
  <2>2. DOMAIN p = 1..Len(p) /\ DOMAIN r = 1..Len(r)
    OBVIOUS
  <2>3. Once(p)
    BY <2>1, <2>2 DEF Once
  <2>4. ASSUME NEW i \in DOMAIN p, NEW j \in DOMAIN r, p[i] = r[j] PROVE FALSE
    <3>1. i = Len(p) + j
      BY <2>1, <2>2, <2>4 DEF Once
    <3>2. QED
      BY <2>1, <2>2, <3>1
  <2>5. QED
    BY <2>3, <2>4 DEF Range
<1>4. QED
  BY <1>2, <1>3

LEMMA QueueInvNext ==
    ASSUME OneCall, InboxInv, DeviceInv, QueueInv, [Next]_vars
    PROVE  QueueInv'
<1>0. TypeOK /\ \A d \in Devices : signedIn[d]
  BY DEF InboxInv, DeviceInv
<1>1. CASE UNCHANGED vars
  BY <1>1 DEF vars, server, device, task, QueueInv
<1>2. ASSUME NEW m \in Msgs, Arrive(m) \/ FallDue(m) PROVE QueueInv'
  BY <1>2 DEF Arrive, FallDue, device, task, QueueInv
<1>3. ASSUME NEW d \in Devices, EraseDevice(d) \/ SignIn(d) PROVE QueueInv'
  BY <1>0, <1>3 DEF EraseDevice, SignIn, OneCall
<1>4. ASSUME NEW t \in Tasks, StartPoll(t) \/ StartSend(t) \/ Step(t) \/ CutOff(t) \/ StoreError(t)
      PROVE  QueueInv'
  <2>0. /\ \A u \in Tasks : u = t
        /\ Call(t) /\ dev[t] \in Devices /\ batch[t] \in Seq(Entries)
    BY Lists DEF OneCall, InboxInv
  <2>1. ASSUME local' = local, delivered' = delivered, pc'[t] \notin Carrying PROVE QueueInv'
    BY <2>0, <2>1 DEF QueueInv
  <2>2. ASSUME local' = local, delivered' = delivered, pc[t] \in Carrying \ {"mark"}, pc'[t] # "mark",
               batch'[t] = batch[t]
        PROVE  QueueInv'
    BY <2>0, <2>2 DEF QueueInv
  <2>3. CASE StartPoll(t) \/ StartSend(t) \/ DeleteExpired(t) \/ SendRead(t) \/ Reload(t)
    BY <1>0, <2>1, <2>3 DEF StartPoll, StartSend, DeleteExpired, SendRead, Reload, Done, Go, server,
                            device, TypeOK, Carrying
  <2>4. CASE SelectInbox(t)
    <3>1. UNCHANGED <<local, delivered>>
      BY <2>4 DEF SelectInbox, server, device
    <3>2. CASE Done(t)
      BY <1>0, <2>1, <3>1, <3>2 DEF Done, Go, TypeOK, Carrying
    <3>3. CASE Go(t, "mark", InboxQuery, << >>)
      <4>1. pc'[t] = "mark" /\ batch'[t] = InboxQuery
        BY <1>0, <3>3 DEF Go, TypeOK
      <4>2. PICK r \in Seq(Msgs) : Undelivered = InboxQuery \o r
        BY <1>0, QueryFirst
      <4>3. Once(Undelivered)
        BY WithoutOrder DEF InboxInv, TypeOK, Undelivered
      <4>4. Once(InboxQuery) /\ Range(InboxQuery) \subseteq Msgs \ delivered
        <5>1. Range(rows) \subseteq Msgs
          BY DEF InboxInv, TypeOK
        <5>2. QED
          BY <1>0, <4>2, <4>3, <5>1, QueryFacts, OnceFacts
      <4>5. QED
        BY <2>0, <3>1, <4>1, <4>4 DEF QueueInv
    <3>4. QED
      BY <2>4, <3>2, <3>3 DEF SelectInbox
  <2>5. CASE MarkDelivered(t)
    <3>1. /\ pc[t] = "mark" /\ pc'[t] = "answer" /\ local' = local
          /\ batch'[t] = batch[t] /\ delivered' = delivered \cup Range(batch[t])
      BY <1>0, <2>5 DEF MarkDelivered, Go, device, TypeOK
    <3>2. QED
      BY <2>0, <3>1 DEF QueueInv, Carrying
  <2>6. CASE Answer(t) \/ StoreRead(t)
    <3>1. /\ UNCHANGED <<local, delivered>> /\ pc[t] \in {"answer", "read"}
          /\ pc'[t] \in {"snapshot", "put"} /\ batch'[t] = batch[t]
      BY <1>0, <2>0, <2>6 DEF Answer, StoreRead, Go, server, device, TypeOK
    <3>2. QED
      BY <2>2, <3>1 DEF Carrying
  <2>7. CASE Snapshot(t)
    <3>1. PICK b : b = Without(batch[t], Range(local[dev[t]]))
      OBVIOUS
    <3>2. /\ pc[t] = "snapshot" /\ UNCHANGED <<local, delivered>> /\ batch'[t] = b
          /\ pc'[t] \in {"read", "reload"}
      BY <1>0, <2>7, <3>1 DEF Snapshot, Loop, Go, server, device, TypeOK
    <3>3. Range(b) \subseteq Range(batch[t]) /\ (Once(batch[t]) => Once(b))
      BY <2>0, <3>1, WithoutRange, WithoutOrder
    <3>4. QED
      BY <2>0, <3>2, <3>3 DEF QueueInv, Carrying
  <2>8. ASSUME NEW x, x = Head(batch[t]), pc[t] \in {"put", "send_put"},
               local' = [local EXCEPT ![dev[t]] = Append(array[t], x)]
        PROVE  \A d \in Devices : Range(local'[d]) \subseteq Range(local[d]) \cup {x}
    <3>1. array[t] = local[dev[t]]
      BY <2>8 DEF DeviceInv
    <3>2. /\ local'[dev[t]] = Append(local[dev[t]], x)
          /\ \A d \in Devices \ {dev[t]} : local'[d] = local[d]
      BY <1>0, <2>0, <2>8, <3>1 DEF TypeOK
    <3>3. Range(local'[dev[t]]) = Range(local[dev[t]]) \cup {x}
      BY <1>0, <3>2, Lists, ListEnds
    <3>4. QED
      BY <3>2, <3>3
  <2>9. CASE StorePut(t)
    <3>1. /\ pc[t] = "put" /\ pc'[t] \in {"read", "reload"}
          /\ batch'[t] = Tail(batch[t]) /\ delivered' = delivered
          /\ local' = [local EXCEPT ![dev[t]] = Append(array[t], Head(batch[t]))]
      BY <1>0, <2>9 DEF StorePut, Loop, Go, server, TypeOK
    <3>2. \A d \in Devices : Range(local'[d]) \subseteq Range(local[d]) \cup {Head(batch[t])}
      BY <2>8, <3>1
    <3>3. batch[t] # << >> /\ Once(batch[t])
      BY <2>0, <3>1 DEF Call, QueueInv, Carrying
    <3>4. /\ Once(Tail(batch[t])) /\ Head(batch[t]) \notin Range(Tail(batch[t]))
          /\ Range(batch[t]) = {Head(batch[t])} \cup Range(Tail(batch[t]))
      BY <2>0, <3>3, OnceFacts, ListEnds
    <3>5. Range(batch[t]) \subseteq delivered
          /\ \A d \in Devices : Range(batch[t]) \cap Range(local[d]) = {}
      BY <3>1 DEF QueueInv, Carrying
    <3>6. \A d \in Devices : Range(local'[d]) \cap Msgs \subseteq delivered'
      <4>1. Head(batch[t]) \in delivered
        BY <3>4, <3>5
      <4>2. \A d \in Devices : Range(local[d]) \cap Msgs \subseteq delivered
        BY DEF QueueInv
      <4>3. QED
        BY <3>1, <3>2, <4>1, <4>2
    <3>7. \A d \in Devices : Range(batch'[t]) \cap Range(local'[d]) = {}
      BY <3>1, <3>2, <3>4, <3>5
    <3>8. Once(batch'[t]) /\ Range(batch'[t]) \subseteq delivered'
      BY <3>1, <3>4, <3>5
    <3>9. QED
      BY <2>0, <3>6, <3>7, <3>8 DEF QueueInv
  <2>10. CASE SendPut(t)
    <3>1. /\ pc[t] = "send_put" /\ pc'[t] = "idle" /\ delivered' = delivered
          /\ local' = [local EXCEPT ![dev[t]] = Append(array[t], Head(batch[t]))]
      BY <1>0, <2>10 DEF SendPut, Done, Go, server, TypeOK
    <3>2. \A d \in Devices : Range(local'[d]) \subseteq Range(local[d]) \cup {Head(batch[t])}
      BY <2>8, <3>1
    <3>3. batch[t] # << >> /\ Range(batch[t]) \subseteq Sends
      BY <2>0, <3>1 DEF Call, Sending
    <3>4. Head(batch[t]) \notin Msgs
      BY <2>0, <3>3, ListEnds, InboxAssumption
    <3>5. QED
      BY <2>0, <3>1, <3>2, <3>4 DEF QueueInv, Carrying
  <2>11. CASE CutOff(t) \/ StoreError(t)
    BY <2>11 DEF CutOff, StoreError, OneCall
  <2>12. QED
    BY <1>4, <2>3, <2>4, <2>5, <2>6, <2>7, <2>9, <2>10, <2>11 DEF Step
<1>5. QED
  BY <1>1, <1>2, <1>3, <1>4 DEF Next

\* The queue of the mailbox, for what is in hand, the rows and the marks.
Queue(b, s, D) == LET h == Without(b, Sends) IN h \o Without(Without(s, D), Range(h))

LEMMA QueueFacts ==
    ASSUME NEW b \in Seq(Entries), NEW s \in Seq(Msgs), NEW D
    PROVE  /\ Range(b) \subseteq Sends => Queue(b, s, D) = Without(s, D)
           /\ Range(b) \cap Sends = {} => Queue(b, s, D) = b \o Without(s, D \cup Range(b))
<1>1. Without(s, D) \in Seq(Msgs)
  BY WithoutIsList
<1>2. PICK u : u = Without(s, D)
  OBVIOUS
<1>3. ASSUME Range(b) \subseteq Sends PROVE Queue(b, s, D) = Without(s, D)
  <2>1. Without(b, Sends) = << >>
    BY <1>3, WithoutAll
  <2>2. Without(u, {}) = u
    BY <1>1, <1>2, WithoutNone
  <2>3. Range(<< >>) = {} /\ << >> \o u = u
    BY <1>1, <1>2, ConcatEmptySeq DEF Range
  <2>4. QED
    BY <1>2, <2>1, <2>2, <2>3 DEF Queue
<1>4. ASSUME Range(b) \cap Sends = {} PROVE Queue(b, s, D) = b \o Without(s, D \cup Range(b))
  <2>1. Without(b, Sends) = b
    BY <1>4, WithoutNone
  <2>2. Without(Without(s, D), Range(b)) = Without(s, D \cup Range(b))
    BY WithoutTwice
  <2>3. QED
    BY <2>1, <2>2 DEF Queue
<1>5. QED
  BY <1>3, <1>4

\* What is left of a list that a message has been appended to.
LEMMA LeftAppend ==
    ASSUME NEW q \in Seq(Msgs), NEW m \in Msgs, NEW D, m \notin D
    PROVE  Without(Append(q, m), D) = Append(Without(q, D), m)
<1>1. Without(Append(q, m), D) = IF m \in D THEN Without(q, D) ELSE Append(Without(q, D), m)
  BY WithoutAppend
<1>2. QED
  BY <1>1

\* A message that arrives is the last of the queue.
LEMMA QueueAppend ==
    ASSUME NEW b \in Seq(Entries), NEW s \in Seq(Msgs), NEW D, NEW m \in Msgs,
           m \notin D, m \notin Range(b)
    PROVE  Queue(b, Append(s, m), D) = Append(Queue(b, s, D), m)
<1>1. PICK h : h = Without(b, Sends)
  OBVIOUS
<1>2. h \in Seq(Entries) /\ m \notin Range(h)
  BY <1>1, WithoutIsList, WithoutRange
<1>3. PICK u : u = Without(s, D)
  OBVIOUS
<1>4. u \in Seq(Msgs) /\ Without(Append(s, m), D) = Append(u, m)
  <2>1. u \in Seq(Msgs)
    BY <1>3, WithoutIsList
  <2>2. Without(Append(s, m), D) = Append(Without(s, D), m)
    BY LeftAppend
  <2>3. QED
    BY <1>3, <2>1, <2>2
<1>5. PICK v \in Seq(Msgs) : v = Without(u, Range(h))
  BY <1>4, WithoutIsList
<1>6. v \in Seq(Msgs) /\ Without(Append(u, m), Range(h)) = Append(v, m)
  <2>1. PICK R : R = Range(h)
    OBVIOUS
  <2>2. v = Without(u, R) /\ m \notin R
    BY <1>2, <1>5, <2>1
  <2>3. v \in Seq(Msgs) /\ Without(Append(u, m), R) = Append(v, m)
    <3>1. u \in Seq(Msgs)
      BY <1>4
    <3>2. Without(Append(u, m), R) = Append(Without(u, R), m)
      BY <2>2, <3>1, LeftAppend
    <3>3. QED
      BY <1>5, <2>2, <3>2
  <2>4. QED
    BY <2>1, <2>3
<1>7. v \in Seq(Entries) /\ m \in Entries
  BY <1>6, SeqOverMore DEF Entries
<1>8. h \o Append(v, m) = Append(h \o v, m)
  BY <1>2, <1>7
<1>9. QED
  BY <1>1, <1>3, <1>4, <1>5, <1>6, <1>8 DEF Queue

\* A message that expires leaves it.
LEMMA QueueExpire ==
    ASSUME NEW s \in Seq(Msgs), NEW D, NEW E
    PROVE  Without(Without(s, E), D) = Without(Without(s, D), E)
<1>1. Without(Without(s, E), D) = Without(s, E \cup D)
  BY WithoutTwice
<1>2. Without(Without(s, D), E) = Without(s, D \cup E)
  BY WithoutTwice
<1>3. E \cup D = D \cup E
  OBVIOUS
<1>4. QED
  BY <1>1, <1>2, <1>3

\* Of a list in two parts the second stays when the first goes.
LEMMA WithoutFirst ==
    ASSUME NEW A, NEW p \in Seq(A), NEW r \in Seq(A), NEW R, Range(p) \subseteq R, Range(r) \cap R = {}
    PROVE  Without(p \o r, R) = r
<1>1. Without(p, R) = << >> /\ Without(r, R) = r
  BY WithoutAll, WithoutNone
<1>2. Without(p \o r, R) = Without(p, R) \o Without(r, R)
  BY WithoutConcat
<1>3. QED
  BY <1>1, <1>2, ConcatEmptySeq

\* The rows a poll selects are the first of it already.
LEMMA QueueSelect ==
    ASSUME NEW s \in Seq(Msgs), NEW D, NEW p \in Seq(Msgs), NEW r \in Seq(Msgs)
    PROVE  Without(s, D) = p \o r /\ Once(Without(s, D)) => Queue(p, s, D) = Without(s, D)
<1>0. \A X : Without(Without(s, D), X) = Without(s, D \cup X)
  BY WithoutTwice
<1> SUFFICES ASSUME NEW u, u = Without(s, D), u = p \o r, Once(u) PROVE Queue(p, s, D) = u
  OBVIOUS
<1>1. p \in Seq(Entries) /\ Range(p) \subseteq Msgs
  BY SeqOverMore DEF Entries, Range
<1>2. u \in Seq(Msgs)
  BY WithoutIsList
<1>3. Range(p) \cap Range(r) = {}
  BY <1>2, OnceFacts
<1>4. Without(u, Range(p)) = r
  BY <1>3, WithoutFirst
<1>5. Without(s, D \cup Range(p)) = r
  BY <1>0, <1>4
<1>6. Range(p) \cap Sends = {}
  BY <1>1, InboxAssumption
<1>7. Queue(p, s, D) = p \o Without(s, D \cup Range(p))
  BY <1>1, <1>6, QueueFacts
<1>8. QED
  BY <1>5, <1>7

\* Marking the rows in hand changes nothing.
LEMMA QueueMark ==
    ASSUME NEW b \in Seq(Entries), NEW s \in Seq(Msgs), NEW D, Range(b) \cap Sends = {}
    PROVE  Queue(b, s, D \cup Range(b)) = Queue(b, s, D)
<1>1. Queue(b, s, D) = b \o Without(s, D \cup Range(b))
  BY QueueFacts
<1>2. PICK E : E = D \cup Range(b)
  OBVIOUS
<1>3. Queue(b, s, E) = b \o Without(s, E \cup Range(b))
  BY QueueFacts
<1>4. E \cup Range(b) = E
  BY <1>2
<1>5. QED
  BY <1>1, <1>2, <1>3, <1>4

\* Storing the first of them takes it off the queue.
LEMMA QueueStore ==
    ASSUME NEW b \in Seq(Entries), NEW s \in Seq(Msgs), NEW D, b # << >>,
           Range(b) \subseteq D, Range(b) \cap Sends = {}
    PROVE  /\ Queue(b, s, D) # << >> /\ Head(Queue(b, s, D)) = Head(b)
           /\ Queue(Tail(b), s, D) = Tail(Queue(b, s, D))
<1>1. PICK t : t = Tail(b)
  OBVIOUS
<1>2. t \in Seq(Entries) /\ Range(t) \subseteq Range(b)
  BY <1>1, ListEnds
<1>3. PICK w : w = Without(s, D)
  OBVIOUS
<1>4. w \in Seq(Entries)
  BY <1>3, WithoutIsList, SeqOverMore DEF Entries
<1>5. D \cup Range(b) = D /\ D \cup Range(t) = D /\ Range(t) \cap Sends = {}
  BY <1>2
<1>6. Queue(b, s, D) = b \o w
  <2>1. Queue(b, s, D) = b \o Without(s, D \cup Range(b))
    BY QueueFacts
  <2>2. QED
    BY <1>3, <1>5, <2>1
<1>7. Queue(t, s, D) = t \o w
  <2>1. Queue(t, s, D) = t \o Without(s, D \cup Range(t))
    BY <1>2, <1>5, QueueFacts
  <2>2. QED
    BY <1>3, <1>5, <2>1
<1>8. b \o w # << >> /\ Head(b \o w) = Head(b) /\ Tail(b \o w) = t \o w
  <2>1. Len(b) \in Nat /\ Len(b) # 0 /\ Len(w) \in Nat
    BY <1>4, EmptySeq
  <2>2. b \o w \in Seq(Entries) /\ Len(b \o w) = Len(b) + Len(w) /\ (b \o w)[1] = b[1]
    BY <1>4, <2>1
  <2>3. b \o w # << >>
    BY <2>1, <2>2
  <2>4. Head(b \o w) = Head(b)
    BY <2>2
  <2>5. Tail(b \o w) = t \o w
    <3>1. b = << Head(b) >> \o t
      BY <1>1, <2>1
    <3>2. Tail(b \o w) \in Seq(Entries) /\ t \o w \in Seq(Entries)
      BY <1>2, <1>4, <2>2, <2>3
    <3>3. Len(t) = Len(b) - 1 /\ \A i \in 1..Len(t) : t[i] = b[i + 1]
      BY <1>1, <2>1
    <3>4. Len(Tail(b \o w)) = Len(b) + Len(w) - 1
          /\ \A i \in 1..(Len(b) + Len(w) - 1) : Tail(b \o w)[i] = (b \o w)[i + 1]
      BY <2>1, <2>2, <2>3
    <3>5. Len(t \o w) = Len(b) + Len(w) - 1
      <4>1. Len(t \o w) = Len(t) + Len(w) /\ Len(t) \in Nat
        BY <1>2, <1>4
      <4>2. QED
        BY <2>1, <3>3, <4>1
    <3>6. ASSUME NEW i \in 1..(Len(b) + Len(w) - 1) PROVE Tail(b \o w)[i] = (t \o w)[i]
      BY <1>2, <1>4, <2>1, <3>3, <3>4
    <3>7. QED
      BY <3>2, <3>4, <3>5, <3>6
  <2>6. QED
    BY <2>3, <2>4, <2>5
<1>9. QED
  BY <1>1, <1>6, <1>7, <1>8

-----------------------------------------------------------------------------
(* With one call at a time on one device every step is one of the Mailbox's, *)
(* or changes neither queue nor history.                                     *)

OneReader == OneCall /\ Tasks # {} /\ Devices # {} /\ \A c, d \in Devices : c = d

History == Without(local[TheDevice], Sends)

LEMMA TheReader ==
    ASSUME OneReader
    PROVE  /\ TheTask \in Tasks /\ \A t \in Tasks : t = TheTask
           /\ TheDevice \in Devices /\ \A d \in Devices : d = TheDevice
<1>1. TheTask \in Tasks
  BY DEF OneReader, TheTask
<1>2. TheDevice \in Devices
  BY DEF OneReader, TheDevice
<1>3. QED
  BY <1>1, <1>2 DEF OneReader, OneCall

\* The queue is that of what the call has in hand, and so after the step.
LEMMA TheQueue ==
    /\ OnTheWay = Queue(batch[TheTask], rows, delivered)
    /\ OnTheWay' = Queue(batch'[TheTask], rows', delivered')
  BY DEF OnTheWay, Queue, Undelivered

LEMMA ArriveRefines ==
    ASSUME OneReader, InboxInv, NEW m, Arrive(m)
    PROVE  /\ m \in Msgs \ arrived /\ arrived' = arrived \cup {m}
           /\ OnTheWay' = Append(OnTheWay, m) /\ History' = History
<1>1. /\ m \in Msgs \ arrived /\ arrived' = arrived \cup {m} /\ rows' = Append(rows, m)
      /\ delivered' = delivered /\ batch' = batch /\ local' = local
  BY DEF Arrive, device, task
<1>2. PICK b : b = batch[TheTask]
  OBVIOUS
<1>3. b \in Seq(Entries) /\ rows \in Seq(Msgs) /\ m \notin delivered
  BY <1>1, <1>2, Lists, TheReader DEF InboxInv, TypeOK
<1>4. m \notin Range(b)
  <2>1. Call(TheTask)
    BY TheReader DEF InboxInv
  <2>2. m \notin Sends /\ m \notin arrived /\ m \notin Range(<< >>)
    BY <1>1, InboxAssumption DEF Range
  <2>3. QED
    BY <1>2, <2>1, <2>2 DEF Call
<1>5. Queue(b, Append(rows, m), delivered) = Append(Queue(b, rows, delivered), m)
  BY <1>1, <1>3, <1>4, QueueAppend
<1>6. OnTheWay = Queue(b, rows, delivered) /\ OnTheWay' = Queue(b, Append(rows, m), delivered)
  BY <1>1, <1>2, TheQueue
<1>7. History' = History
  BY <1>1 DEF History
<1>8. QED
  BY <1>1, <1>5, <1>6, <1>7

\* What changes neither rows, marks, history nor what is in hand.
LEMMA SameQueue ==
    ASSUME rows' = rows, delivered' = delivered, batch'[TheTask] = batch[TheTask],
           local' = local, arrived' = arrived
    PROVE  UNCHANGED <<arrived, OnTheWay, History>>
<1>1. OnTheWay' = OnTheWay
  BY TheQueue
<1>2. History' = History
  BY DEF History
<1>3. QED
  BY <1>1, <1>2

LEMMA EmptyHanded ==
    ASSUME NEW b \in Seq(Entries), b = << >> \/ Range(b) \subseteq Sends,
           NEW s \in Seq(Msgs), NEW D
    PROVE  Queue(b, s, D) = Without(s, D)
<1>1. Range(<< >>) = {}
  BY DEF Range
<1>2. Range(b) \subseteq Sends
  BY <1>1
<1>3. QED
  BY <1>2, QueueFacts

LEMMA DeleteExpiredRefines ==
    ASSUME OneReader, InboxInv, DeleteExpired(TheTask)
    PROVE  /\ OnTheWay' = Without(OnTheWay, due) /\ due \in SUBSET Expiring
           /\ UNCHANGED <<arrived, History>>
<1>0. TypeOK /\ Call(TheTask)
  BY TheReader DEF InboxInv
<1>1. /\ rows' = Without(rows, due) /\ batch'[TheTask] = << >> /\ batch[TheTask] = << >>
      /\ UNCHANGED <<delivered, arrived, local>>
  BY <1>0, TheReader DEF DeleteExpired, Go, TypeOK, Call, Carrying, Sending, device
<1>2. rows \in Seq(Msgs) /\ << >> \in Seq(Entries) /\ rows' \in Seq(Msgs) /\ due \in SUBSET Expiring
  BY <1>0, <1>1, WithoutIsList DEF TypeOK
<1>3. OnTheWay = Without(rows, delivered)
  BY <1>1, <1>2, TheQueue, EmptyHanded
<1>4. OnTheWay' = Without(rows', delivered)
  BY <1>1, <1>2, TheQueue, EmptyHanded
<1>5. Without(Without(rows, due), delivered) = Without(Without(rows, delivered), due)
  BY <1>2, QueueExpire
<1>6. History' = History
  BY <1>1 DEF History
<1>7. QED
  BY <1>1, <1>2, <1>3, <1>4, <1>5, <1>6

LEMMA SelectRefines ==
    ASSUME OneReader, InboxInv, SelectInbox(TheTask)
    PROVE  UNCHANGED <<arrived, OnTheWay, History>>
<1>0. TypeOK /\ Call(TheTask) /\ Once(rows) /\ TheTask \in Tasks
  BY TheReader DEF InboxInv
<1>1. /\ UNCHANGED <<rows, delivered, arrived, local>> /\ batch[TheTask] = << >>
  BY <1>0 DEF SelectInbox, server, device, Call, Carrying, Sending
<1>2. CASE Done(TheTask)
  <2>1. batch'[TheTask] = << >>
    BY <1>0, <1>2 DEF Done, Go, TypeOK
  <2>2. QED
    BY <1>1, <2>1, SameQueue
<1>3. CASE Go(TheTask, "mark", InboxQuery, << >>)
  <2>1. PICK p : p = InboxQuery
    OBVIOUS
  <2>2. batch'[TheTask] = p
    BY <1>0, <1>3, <2>1 DEF Go, TypeOK
  <2>3. rows \in Seq(Msgs) /\ p \in Seq(Msgs) /\ << >> \in Seq(Entries) /\ Limit \in Nat
    BY <1>0, <2>1, QueryFacts, InboxAssumption DEF TypeOK
  <2>4. PICK u \in Seq(Msgs) : u = Without(rows, delivered)
    BY <2>3, WithoutIsList
  <2>5. \E r \in Seq(Msgs) : u = p \o r
    BY <1>0, <2>1, <2>4, QueryFirst DEF Undelivered
  <2>6. Once(u)
    BY <1>0, <2>3, <2>4, WithoutOrder
  <2>7. Queue(p, rows, delivered) = Without(rows, delivered)
    BY <2>3, <2>4, <2>5, <2>6, QueueSelect
  <2>8. OnTheWay = Without(rows, delivered)
    BY <1>1, <2>3, TheQueue, EmptyHanded
  <2>9. OnTheWay' = Queue(p, rows, delivered)
    BY <1>1, <2>2, TheQueue
  <2>10. History' = History
    BY <1>1 DEF History
  <2>11. QED
    BY <1>1, <2>7, <2>8, <2>9, <2>10
<1>4. QED
  BY <1>2, <1>3 DEF SelectInbox

LEMMA MarkRefines ==
    ASSUME OneReader, InboxInv, MarkDelivered(TheTask)
    PROVE  UNCHANGED <<arrived, OnTheWay, History>>
<1>0. TypeOK /\ Call(TheTask) /\ TheTask \in Tasks
  BY TheReader DEF InboxInv
<1>1. PICK b : b = batch[TheTask]
  OBVIOUS
<1>2. /\ pc[TheTask] = "mark" /\ UNCHANGED <<rows, arrived, local>>
      /\ delivered' = delivered \cup Range(b) /\ batch'[TheTask] = b
  BY <1>0, <1>1 DEF MarkDelivered, Go, TypeOK, device
<1>3. b \in Seq(Entries) /\ rows \in Seq(Msgs) /\ Range(b) \subseteq arrived /\ arrived \subseteq Msgs
  BY <1>0, <1>1, <1>2, Lists DEF Call, Carrying, TypeOK
<1>4. Range(b) \cap Sends = {}
  BY <1>3, InboxAssumption
<1>5. Queue(b, rows, delivered \cup Range(b)) = Queue(b, rows, delivered)
  BY <1>3, <1>4, QueueMark
<1>6. OnTheWay' = OnTheWay
  BY <1>1, <1>2, <1>5, TheQueue
<1>7. History' = History
  BY <1>2 DEF History
<1>8. QED
  BY <1>2, <1>6, <1>7

LEMMA SnapshotRefines ==
    ASSUME OneReader, InboxInv, QueueInv, Snapshot(TheTask)
    PROVE  UNCHANGED <<arrived, OnTheWay, History>>
<1>0. TypeOK /\ TheTask \in Tasks /\ dev[TheTask] \in Devices
  BY TheReader DEF InboxInv, TypeOK
<1>1. PICK b : b = batch[TheTask]
  OBVIOUS
<1>2. PICK R : R = Range(local[dev[TheTask]])
  OBVIOUS
<1>3. b \in Seq(Entries) /\ pc[TheTask] = "snapshot"
  BY <1>0, <1>1, Lists DEF Snapshot
<1>4. Range(b) \cap R = {}
  BY <1>0, <1>1, <1>2, <1>3 DEF QueueInv, Carrying
<1>5. Without(b, R) = b
  BY <1>3, <1>4, WithoutNone
<1>6. /\ UNCHANGED <<rows, delivered, arrived, local>>
      /\ batch'[TheTask] = Without(b, R)
  BY <1>0, <1>1, <1>2 DEF Snapshot, Loop, Go, TypeOK, server, device
<1>7. QED
  BY <1>1, <1>5, <1>6, SameQueue

LEMMA StorePutRefines ==
    ASSUME OneReader, InboxInv, DeviceInv, QueueInv, StorePut(TheTask)
    PROVE  /\ OnTheWay # << >>
           /\ OnTheWay' = Tail(OnTheWay) /\ History' = Append(History, Head(OnTheWay))
           /\ arrived' = arrived
<1>0. /\ TypeOK /\ Call(TheTask) /\ TheTask \in Tasks /\ dev[TheTask] = TheDevice
      /\ TheDevice \in Devices
  BY TheReader DEF InboxInv, TypeOK
<1>1. PICK b : b = batch[TheTask]
  OBVIOUS
<1>2. PICK l : l = local[TheDevice]
  OBVIOUS
<1>3. /\ pc[TheTask] = "put" /\ UNCHANGED <<rows, delivered, arrived>>
      /\ batch'[TheTask] = Tail(b)
      /\ local' = [local EXCEPT ![TheDevice] = Append(array[TheTask], Head(b))]
  BY <1>0, <1>1 DEF StorePut, Loop, Go, TypeOK, server
<1>4. array[TheTask] = l
  BY <1>0, <1>2, <1>3 DEF DeviceInv
<1>5. local'[TheDevice] = Append(l, Head(b))
  BY <1>0, <1>3, <1>4 DEF TypeOK
<1>6. /\ b \in Seq(Entries) /\ b # << >> /\ rows \in Seq(Msgs) /\ l \in Seq(Entries)
      /\ Range(b) \subseteq arrived /\ arrived \subseteq Msgs
  BY <1>0, <1>1, <1>2, <1>3, Lists DEF Call, Carrying, TypeOK
<1>7. Range(b) \subseteq delivered /\ Range(b) \cap Sends = {}
  <2>1. Range(b) \subseteq delivered
    BY <1>0, <1>1, <1>3 DEF QueueInv, Carrying
  <2>2. QED
    BY <1>6, <2>1, InboxAssumption
<1>8. Head(b) \in Entries /\ Head(b) \notin Sends
  BY <1>6, <1>7, ListEnds, InboxAssumption DEF Entries
<1>9. Without(Append(l, Head(b)), Sends) = Append(Without(l, Sends), Head(b))
  <2>1. PICK x : x = Head(b)
    OBVIOUS
  <2>2. x \in Entries /\ x \notin Sends
    BY <1>8, <2>1
  <2>3. Without(Append(l, x), Sends) = Append(Without(l, Sends), x)
    BY <1>6, <2>2, WithoutAppend
  <2>4. QED
    BY <2>1, <2>3
<1>10. /\ Queue(b, rows, delivered) # << >> /\ Head(Queue(b, rows, delivered)) = Head(b)
       /\ Queue(Tail(b), rows, delivered) = Tail(Queue(b, rows, delivered))
  BY <1>6, <1>7, QueueStore
<1>11. OnTheWay = Queue(b, rows, delivered) /\ OnTheWay' = Queue(Tail(b), rows, delivered)
  BY <1>1, <1>3, TheQueue
<1>12. History = Without(l, Sends) /\ History' = Without(Append(l, Head(b)), Sends)
  BY <1>2, <1>5 DEF History
<1>13. QED
  BY <1>3, <1>9, <1>10, <1>11, <1>12

LEMMA SendRefines ==
    ASSUME OneReader, InboxInv, DeviceInv, StartSend(TheTask) \/ SendPut(TheTask)
    PROVE  UNCHANGED <<arrived, OnTheWay, History>>
<1>0. /\ TypeOK /\ Call(TheTask) /\ TheTask \in Tasks /\ dev[TheTask] = TheDevice
      /\ TheDevice \in Devices
  BY TheReader DEF InboxInv, TypeOK
<1>1. PICK b : b = batch[TheTask]
  OBVIOUS
<1>2. PICK c : c = batch'[TheTask]
  OBVIOUS
<1>3. UNCHANGED <<rows, delivered, arrived>>
  BY DEF StartSend, SendPut, server
<1>4. b \in Seq(Entries) /\ rows \in Seq(Msgs) /\ (b = << >> \/ Range(b) \subseteq Sends)
  BY <1>0, <1>1, Lists DEF StartSend, SendPut, Call, Carrying, Sending, TypeOK
<1>5. c \in Seq(Entries) /\ (c = << >> \/ Range(c) \subseteq Sends)
  <2>1. CASE StartSend(TheTask)
    <3>1. PICK s \in Sends : batch' = [batch EXCEPT ![TheTask] = << s >>]
      BY <2>1 DEF StartSend
    <3>2. c = << s >>
      BY <1>0, <1>2, <3>1 DEF TypeOK
    <3>3. Range(<< s >>) = {s} /\ << s >> \in Seq(Entries)
      BY DEF Range, Entries
    <3>4. QED
      BY <3>2, <3>3
  <2>2. CASE SendPut(TheTask)
    BY <1>0, <1>2, <2>2 DEF SendPut, Done, Go, TypeOK
  <2>3. QED
    BY <2>1, <2>2
<1>6. OnTheWay' = OnTheWay
  <2>1. Queue(b, rows, delivered) = Without(rows, delivered)
    BY <1>4, EmptyHanded
  <2>2. Queue(c, rows, delivered) = Without(rows, delivered)
    BY <1>4, <1>5, EmptyHanded
  <2>3. QED
    BY <1>1, <1>2, <1>3, <2>1, <2>2, TheQueue
<1>7. History' = History
  <2>1. CASE StartSend(TheTask)
    BY <2>1 DEF StartSend, History
  <2>2. CASE SendPut(TheTask)
    <3>1. PICK x : x = Head(b)
      OBVIOUS
    <3>2. PICK l : l = local[TheDevice]
      OBVIOUS
    <3>3. pc[TheTask] = "send_put" /\ array[TheTask] = l
      BY <1>0, <2>2, <3>2 DEF SendPut, DeviceInv
    <3>4. local'[TheDevice] = Append(l, x)
      BY <1>0, <1>1, <2>2, <3>1, <3>3 DEF SendPut, TypeOK
    <3>5. b # << >> /\ Range(b) \subseteq Sends /\ l \in Seq(Entries)
      BY <1>0, <1>1, <3>2, <3>3, Lists DEF Call, Sending, TypeOK
    <3>6. x \in Sends /\ x \in Entries
      BY <1>4, <3>1, <3>5, ListEnds DEF Entries
    <3>7. Without(Append(l, x), Sends) = Without(l, Sends)
      BY <3>5, <3>6, WithoutAppend
    <3>8. QED
      BY <3>2, <3>4, <3>7 DEF History
  <2>3. QED
    BY <2>1, <2>2
<1>8. QED
  BY <1>3, <1>6, <1>7

\* Every step of the calls is a step of the mailbox or none.
LEMMA StepRefines ==
    ASSUME OneReader, InboxInv, DeviceInv, QueueInv, [Next]_vars
    PROVE  [Abstract!Arrive \/ Abstract!Deliver \/ Abstract!Expire]_<<arrived, OnTheWay, History>>
<1> DEFINE same == UNCHANGED <<arrived, OnTheWay, History>>
<1>0. /\ TypeOK /\ Call(TheTask) /\ TheTask \in Tasks /\ \A t \in Tasks : t = TheTask
      /\ \A d \in Devices : signedIn[d]
  BY TheReader DEF InboxInv, DeviceInv
<1>1. CASE UNCHANGED vars
  <2>1. same
    BY <1>1, SameQueue DEF vars, server, device, task
  <2>2. QED
    BY <2>1
<1>2. ASSUME NEW m \in Msgs, Arrive(m) PROVE Abstract!Arrive
  BY <1>2, ArriveRefines DEF Abstract!Arrive, History
<1>3. ASSUME NEW m \in Msgs, FallDue(m) PROVE same
  BY <1>3, SameQueue DEF FallDue, device, task
<1>4. ASSUME NEW d \in Devices, EraseDevice(d) \/ SignIn(d) PROVE FALSE
  BY <1>0, <1>4 DEF EraseDevice, SignIn, OneReader, OneCall
<1>5. ASSUME NEW t \in Tasks, StartPoll(t) \/ StartSend(t) \/ Step(t) \/ CutOff(t) \/ StoreError(t)
      PROVE  Abstract!Deliver \/ Abstract!Expire \/ same
  <2>0. t = TheTask
    BY <1>0
  <2>1. CASE StartPoll(t)
    BY <2>1, SameQueue DEF StartPoll, server, device
  <2>2. CASE StartSend(t) \/ SendPut(t)
    BY <2>0, <2>2, SendRefines
  <2>3. CASE DeleteExpired(t)
    <3>1. PICK S : S = due
      OBVIOUS
    <3>2. S \in SUBSET Expiring /\ OnTheWay' = Without(OnTheWay, S) /\ UNCHANGED <<arrived, History>>
      BY <2>0, <2>3, <3>1, DeleteExpiredRefines
    <3>3. Abstract!Without(OnTheWay, S) = Without(OnTheWay, S)
      BY DEF Abstract!Without, Without
    <3>4. QED
      BY <3>2, <3>3 DEF Abstract!Expire, History
  <2>4. CASE SelectInbox(t)
    BY <2>0, <2>4, SelectRefines
  <2>5. CASE MarkDelivered(t)
    BY <2>0, <2>5, MarkRefines
  <2>6. CASE Answer(t)
    <3>1. Go(t, "snapshot", batch[t], << >>) /\ UNCHANGED <<server, device>>
      BY <1>0, <2>6 DEF Answer, TypeOK
    <3>2. batch'[TheTask] = batch[TheTask]
      BY <1>0, <2>0, <3>1 DEF Go, TypeOK
    <3>3. QED
      BY <3>1, <3>2, SameQueue DEF server, device
  <2>7. CASE Snapshot(t)
    BY <2>0, <2>7, SnapshotRefines
  <2>8. CASE StoreRead(t) \/ SendRead(t)
    <3>1. batch'[TheTask] = batch[TheTask] /\ UNCHANGED <<server, device>>
      BY <1>0, <2>0, <2>8 DEF StoreRead, SendRead, Go, TypeOK
    <3>2. QED
      BY <3>1, SameQueue DEF server, device
  <2>9. CASE StorePut(t)
    BY <2>0, <2>9, StorePutRefines DEF Abstract!Deliver, History
  <2>10. CASE Reload(t)
    <3>1. /\ batch[TheTask] = << >> /\ batch'[TheTask] = << >>
          /\ UNCHANGED <<server, local>>
      BY <1>0, <2>0, <2>10 DEF Reload, Done, Go, TypeOK, Call, Carrying, Sending
    <3>2. QED
      BY <3>1, SameQueue DEF server
  <2>11. CASE CutOff(t) \/ StoreError(t)
    BY <2>11 DEF CutOff, StoreError, OneReader, OneCall
  <2>12. QED
    BY <1>5, <2>1, <2>2, <2>3, <2>4, <2>5, <2>6, <2>7, <2>8, <2>9, <2>10, <2>11 DEF Step
<1>6. QED
  BY <1>1, <1>2, <1>3, <1>4, <1>5 DEF Next

\* Direct messages do what the Mailbox promises: each reaches the history once
\* and in the order of arrival, or expires, where calls run one at a time and end.
THEOREM InboxIsMailbox == ASSUME OneReader PROVE Spec => ImplementsMailbox
<1>1. Init => Abstract!MailboxInit
  <2> SUFFICES ASSUME Init PROVE Abstract!MailboxInit
    OBVIOUS
  <2>1. /\ rows = << >> /\ arrived = {} /\ delivered = {}
        /\ batch[TheTask] = << >> /\ local[TheDevice] = << >>
    BY TheReader DEF Init
  <2>2. Queue(<< >>, << >>, {}) = << >>
    <3>1. Queue(<< >>, << >>, {}) = << >> \o << >>
      BY WithoutEmpty DEF Queue
    <3>2. QED
      BY <3>1
  <2>3. OnTheWay = << >>
    BY <2>1, <2>2, TheQueue
  <2>4. Without(local[TheDevice], Sends) = << >>
    BY <2>1, WithoutEmpty
  <2>5. QED
    BY <2>1, <2>3, <2>4 DEF Abstract!MailboxInit
<1>2. Init => QueueInv
  <2> SUFFICES ASSUME Init PROVE QueueInv
    OBVIOUS
  <2>1. Range(<< >>) = {}
    BY DEF Range
  <2>2. QED
    BY <2>1 DEF Init, QueueInv, Carrying
<1>3. OneCall
  BY DEF OneReader
<1>4. InboxInv /\ DeviceInv /\ QueueInv /\ [Next]_vars => QueueInv'
  BY <1>3, QueueInvNext
<1>5. Spec => []InboxInv /\ []DeviceInv
  BY <1>3, InboxInvHolds, DeviceInvHolds
<1>6. InboxInv /\ DeviceInv /\ QueueInv /\ [Next]_vars =>
        [Abstract!Arrive \/ Abstract!Deliver \/ Abstract!Expire]_<<arrived, OnTheWay, Without(local[TheDevice], Sends)>>
  BY StepRefines DEF History
<1>7. QED
  BY <1>1, <1>2, <1>4, <1>5, <1>6, PTL DEF Spec, ImplementsMailbox, Abstract!MailboxSpec
=============================================================================
