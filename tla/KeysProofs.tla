----------------------------- MODULE KeysProofs -----------------------------
(* What holds of ChannelKeys for all values of its constants.               *)
EXTENDS ChannelKeys, RowsProofs

(* The types.  What the bounds on channels and keys leave is counted: each   *)
(* call that has still to make a channel or to generate keys has its room.   *)

TxSteps == {"rotate_max", "rotate_delete", "rotate_wait", "rotate_insert", "rotate_commit"}
CreateSteps == {"create_role", "create_insert", "create_keys", "create_store"}
RotateSteps == {"rotate_store", "rotate_role"} \cup TxSteps
ChannelSteps == {"create_members", "create_list", "create_role", "create_insert"}
GenerateSteps == {"create_members", "create_list", "rotate_members", "rotate_list",
                  "rotate_channels", "rotate_open"}
At(S) == {w \in Workers : pc[w] \in S}

KeyFunctions == UNION {[S -> 1..MaxKeys] : S \in SUBSET (0..MaxChannels)}
Keyed(w) == {req[w].key[c] : c \in DOMAIN req[w].key}

Local(w) ==
    /\ pc[w] \notin TxSteps => tx[w] = NoTx
    /\ pc[w] \in {"create_role", "create_insert"} => DOMAIN req[w].key = {0}
    /\ pc[w] \in {"create_keys", "create_store"} =>
          \E c \in DOMAIN level : req[w].todo = {c} /\ DOMAIN req[w].key = {c}
    /\ pc[w] \in RotateSteps =>
          req[w].todo \subseteq DOMAIN req[w].key /\ DOMAIN req[w].key \subseteq DOMAIN level
    /\ pc[w] \in TxSteps \ {"rotate_commit"} => req[w].todo # {}
    /\ pc[w] \in {"rotate_delete", "rotate_wait", "rotate_insert"} => req[w].next # 0
    /\ Keyed(w) \subseteq DOMAIN made
    /\ IsFiniteSet(tx[w].ins)

Counted ==
    /\ Len(level) + Cardinality(At(ChannelSteps)) <= MaxChannels
    /\ Len(made) + Cardinality(At(GenerateSteps)) * MaxChannels <= MaxKeys

KeysInv == TypeOK /\ IsFiniteSet(rows) /\ Counted /\ \A w \in Workers : Local(w)

\* Only slot w has moved.
Alone(w) == \A v \in Workers \ {w} : pc'[v] = pc[v] /\ req'[v] = req[v] /\ tx'[v] = tx[v]

\* The channels and keys there are.
LEMMA Domains ==
    ASSUME TypeOK
    PROVE  /\ Len(level) \in Nat /\ DOMAIN level = 1..Len(level)
           /\ Len(made) \in Nat /\ DOMAIN made = 1..Len(made)
           /\ DOMAIN level \subseteq Channels /\ DOMAIN made \subseteq 1..MaxKeys
<1>1. level \in Seq(Roles) /\ made \in Seq(Key) /\ Len(level) <= MaxChannels
      /\ Len(made) <= MaxKeys
  BY DEF TypeOK
<1>2. MaxChannels \in Nat /\ MaxKeys \in Nat
  BY ChannelKeysAssumption
<1>3. QED
  BY <1>1, <1>2 DEF Channels

\* FreshKeys gives each channel of S a key of its own, after those there are.
LEMMA FreshKeysFacts ==
    ASSUME NEW S \in SUBSET Nat, IsFiniteSet(S), Len(made) \in Nat
    PROVE  /\ Cardinality(S) \in Nat
           /\ FreshKeys(S) \in [S -> (Len(made) + 1)..(Len(made) + Cardinality(S))]
           /\ \A c, d \in S : FreshKeys(S)[c] = FreshKeys(S)[d] => c = d
<1> DEFINE B(c) == {d \in S : d <= c}
<1>1. Cardinality(S) \in Nat
  BY FS_CardinalityType
<1>2. ASSUME NEW c \in S
      PROVE  IsFiniteSet(B(c)) /\ Cardinality(B(c)) \in 1..Cardinality(S)
  <2>1. B(c) \in SUBSET S /\ c \in B(c)
    OBVIOUS
  <2>2. IsFiniteSet(B(c)) /\ Cardinality(B(c)) <= Cardinality(S)
    BY <2>1, FS_Subset
  <2>3. Cardinality(B(c)) \in Nat /\ Cardinality(B(c)) # 0
    BY <2>1, <2>2, FS_CardinalityType, FS_EmptySet
  <2>4. QED
    BY <1>1, <2>2, <2>3
<1>3. ASSUME NEW c \in S, NEW d \in S, c < d
      PROVE  Cardinality(B(c)) # Cardinality(B(d))
  <2>1. B(c) \in SUBSET B(d) /\ d \in B(d) /\ d \notin B(c)
    <3>1. c \in Nat /\ d \in Nat /\ S \subseteq Nat
      OBVIOUS
    <3>2. \A e \in S : e <= c => e <= d
      BY <1>3, <3>1
    <3>3. d <= d /\ ~(d <= c)
      BY <1>3, <3>1
    <3>4. QED
      BY <3>2, <3>3
  <2>2. QED
    BY <1>2, <2>1, FS_Subset
<1>4. FreshKeys(S) = [c \in S |-> Len(made) + Cardinality(B(c))]
  BY DEF FreshKeys
<1> HIDE DEF B
<1>5. \A c \in S : FreshKeys(S)[c] = Len(made) + Cardinality(B(c))
  BY <1>4
<1>6. FreshKeys(S) \in [S -> (Len(made) + 1)..(Len(made) + Cardinality(S))]
  BY <1>1, <1>2, <1>4
<1>7. ASSUME NEW c \in S, NEW d \in S, FreshKeys(S)[c] = FreshKeys(S)[d] PROVE c = d
  <2>1. Cardinality(B(c)) = Cardinality(B(d))
    BY <1>2, <1>5, <1>7
  <2>2. ~(c < d) /\ ~(d < c)
    BY <1>3, <2>1
  <2>3. QED
    BY <2>2
<1>8. QED
  BY <1>1, <1>6, <1>7

\* Generate adds keys and leaves those there are.
LEMMA GenerateFacts ==
    ASSUME made \in Seq(Key), NEW S, IsFiniteSet(S), NEW L \in SUBSET Users,
           NEW op \in {"create", "rotate"}, Generate(S, L, op)
    PROVE  /\ made' \in Seq(Key) /\ Len(made') = Len(made) + Cardinality(S)
           /\ \A k \in 1..Len(made) : made'[k] = made[k]
           /\ \A k \in (Len(made) + 1)..(Len(made) + Cardinality(S)) :
                 made'[k] = [for |-> L, by |-> op, up |-> FALSE]
<1> DEFINE n == Cardinality(S)
           new == [i \in 1..n |-> [for |-> L, by |-> op, up |-> FALSE]]
<1>1. n \in Nat
  BY FS_CardinalityType
<1> HIDE DEF n
<1>2. new \in Seq(Key) /\ Len(new) = n
  BY <1>1 DEF Key
<1>3. \A i \in 1..n : new[i] = [for |-> L, by |-> op, up |-> FALSE]
  OBVIOUS
<1>4. made' = made \o new
  BY DEF Generate, n
<1> HIDE DEF new
<1>5. made' \in Seq(Key) /\ Len(made') = Len(made) + n
      /\ \A k \in 1..(Len(made) + n) :
            made'[k] = IF k <= Len(made) THEN made[k] ELSE new[k - Len(made)]
  BY <1>1, <1>2, <1>4
<1>6. \A k \in 1..Len(made) : made'[k] = made[k]
  BY <1>1, <1>5
<1>7. ASSUME NEW k \in (Len(made) + 1)..(Len(made) + n)
      PROVE  made'[k] = [for |-> L, by |-> op, up |-> FALSE]
  <2>1. k \in 1..(Len(made) + n) /\ ~(k <= Len(made)) /\ k - Len(made) \in 1..n
    BY <1>1
  <2>2. QED
    BY <1>3, <1>5, <2>1
<1>8. QED
  BY <1>5, <1>6, <1>7 DEF n

\* Uploaded sets up and nothing else.
LEMMA UploadedFacts ==
    ASSUME made \in Seq(Key), NEW ks, Uploaded(ks)
    PROVE  /\ made' \in Seq(Key) /\ Len(made') = Len(made)
           /\ \A k \in 1..Len(made) : /\ made'[k].for = made[k].for /\ made'[k].by = made[k].by
                                     /\ made'[k].up = (made[k].up \/ k \in ks)
<1>1. DOMAIN made = 1..Len(made) /\ Len(made) \in Nat
      /\ \A k \in 1..Len(made) : made[k] \in Key
  OBVIOUS
<1>2. \A k \in 1..Len(made) :
         made'[k] = IF k \in ks THEN [made[k] EXCEPT !.up = TRUE] ELSE made[k]
  BY <1>1 DEF Uploaded
<1>3. ASSUME NEW k \in 1..Len(made)
      PROVE  /\ made'[k] \in Key
             /\ made'[k].for = made[k].for /\ made'[k].by = made[k].by
             /\ made'[k].up = (made[k].up \/ k \in ks)
  BY <1>1, <1>2 DEF Key
<1>4. DOMAIN made' = 1..Len(made)
  BY <1>1 DEF Uploaded
<1>5. made' \in [1..Len(made) -> Key]
  <2>1. made' = [k \in 1..Len(made) |->
                    IF k \in ks THEN [made[k] EXCEPT !.up = TRUE] ELSE made[k]]
    BY <1>1 DEF Uploaded
  <2>2. QED
    BY <1>2, <1>3, <2>1
<1>6. QED
  BY <1>1, <1>3, <1>5
\* Keep moves one slot.
LEMMA KeepMoves ==
    ASSUME TypeOK, NEW w \in Workers, NEW s, NEW r, Keep(w, s, r)
    PROVE  /\ pc'[w] = s /\ req'[w] = r
           /\ \A v \in Workers \ {w} : pc'[v] = pc[v] /\ req'[v] = req[v]
           /\ s \in Steps \cup {"idle"} => pc' \in [Workers -> Steps \cup {"idle"}]
           /\ r \in Request => req' \in [Workers -> Request]
<1>1. pc \in [Workers -> Steps \cup {"idle"}] /\ req \in [Workers -> Request]
  BY DEF TypeOK
<1>2. pc' = [pc EXCEPT ![w] = s] /\ req' = [req EXCEPT ![w] = r]
  BY DEF Keep, Goto
<1>3. QED
  BY <1>1, <1>2

\* How many slots are at the steps S after slot w has moved.
LEMMA Counting ==
    ASSUME NEW w \in Workers, \A v \in Workers \ {w} : pc'[v] = pc[v], NEW S
    PROVE  LET n == Cardinality(At(S)) IN
           /\ n \in Nat
           /\ Cardinality(At(S))' <= n + 1 /\ Cardinality(At(S))' \in Nat
           /\ pc'[w] \notin S \/ pc[w] \in S => Cardinality(At(S))' <= n
           /\ pc'[w] \notin S /\ pc[w] \in S => Cardinality(At(S))' = n - 1
           /\ pc[w] \in S => n >= 1
<1> DEFINE A == At(S)
           B == At(S)'
<1>1. IsFiniteSet(A) /\ IsFiniteSet(B)
  <2>1. A \in SUBSET Workers /\ B \in SUBSET Workers /\ IsFiniteSet(Workers)
    BY ChannelKeysAssumption DEF At
  <2>2. QED
    BY <2>1, FS_Subset
<1>2. Cardinality(A) \in Nat /\ Cardinality(B) \in Nat
  BY <1>1, FS_CardinalityType
<1>3. B \subseteq A \cup {w} /\ (w \notin B => B = A \ {w}) /\ (w \in A => B \subseteq A)
      /\ (w \in A <=> pc[w] \in S) /\ (w \in B <=> pc'[w] \in S)
  <2>1. (w \in A <=> pc[w] \in S) /\ (w \in B <=> pc'[w] \in S)
    BY DEF At
  <2>2. \A v : v # w => (v \in A <=> v \in B)
    BY DEF At
  <2> HIDE DEF A, B
  <2>3. QED
    BY <2>1, <2>2
<1> HIDE DEF A, B
<1>4. IsFiniteSet(A \cup {w}) /\ Cardinality(A \cup {w}) <= Cardinality(A) + 1
  <2>1. /\ IsFiniteSet(A \cup {w})
        /\ Cardinality(A \cup {w}) = IF w \in A THEN Cardinality(A) ELSE Cardinality(A) + 1
    BY <1>1, FS_AddElement
  <2>2. QED
    BY <1>2, <2>1
<1>5. IsFiniteSet(A \ {w}) /\ Cardinality(A \ {w}) <= Cardinality(A)
      /\ (w \in A => Cardinality(A \ {w}) = Cardinality(A) - 1)
  BY <1>1, <1>2, FS_RemoveElement
<1>6. Cardinality(B) <= Cardinality(A \cup {w})
  BY <1>3, <1>4, FS_Subset
<1>7. w \in A => Cardinality(B) <= Cardinality(A)
  BY <1>1, <1>3, FS_Subset
<1>8. w \notin B => Cardinality(B) = Cardinality(A \ {w})
  BY <1>3
<1>9. Cardinality(A \cup {w}) \in Nat /\ Cardinality(A \ {w}) \in Nat
  BY <1>4, <1>5, FS_CardinalityType
<1>10. /\ Cardinality(B) <= Cardinality(A) + 1
       /\ w \notin B \/ w \in A => Cardinality(B) <= Cardinality(A)
       /\ w \notin B /\ w \in A => Cardinality(B) = Cardinality(A) - 1
       /\ w \in A => Cardinality(A) >= 1
  BY <1>2, <1>4, <1>5, <1>6, <1>7, <1>8, <1>9
<1>11. QED
  BY <1>2, <1>3, <1>10 DEF A, B

\* A slot that has neither channels nor keys to come needs no room.
LEMMA CountedKept ==
    ASSUME KeysInv, NEW w \in Workers, Alone(w), Len(level') = Len(level),
           Len(made') = Len(made),
           pc'[w] \in ChannelSteps => pc[w] \in ChannelSteps,
           pc'[w] \in GenerateSteps => pc[w] \in GenerateSteps
    PROVE  Counted'
<1> DEFINE c == Cardinality(At(ChannelSteps))
           g == Cardinality(At(GenerateSteps))
<1>1. \A v \in Workers \ {w} : pc'[v] = pc[v]
  BY DEF Alone
<1>2. c \in Nat /\ c' \in Nat /\ c' <= c /\ g \in Nat /\ g' \in Nat /\ g' <= g
  BY <1>1, Counting
<1>3. Len(level) \in Nat /\ Len(made) \in Nat /\ MaxChannels \in Nat /\ MaxKeys \in Nat
  BY Domains, ChannelKeysAssumption DEF KeysInv
<1>4. Len(level) + c <= MaxChannels /\ Len(made) + g * MaxChannels <= MaxKeys
  BY DEF KeysInv, Counted
<1> HIDE DEF c, g
<1>5. g' * MaxChannels <= g * MaxChannels /\ g' * MaxChannels \in Nat /\ g * MaxChannels \in Nat
  BY <1>2, <1>3, Products
<1>6. Len(level) + c' <= MaxChannels
  BY <1>2, <1>3, <1>4
<1>7. Len(made) + g' * MaxChannels <= MaxKeys
  BY <1>3, <1>4, <1>5
<1>8. QED
  BY <1>6, <1>7 DEF Counted, c, g

\* A step of slot w keeps the locals of the others.
LEMMA LocalsKept ==
    ASSUME KeysInv, NEW w \in Workers, Alone(w), Local(w)',
           DOMAIN level \subseteq DOMAIN level', DOMAIN made \subseteq DOMAIN made'
    PROVE  \A v \in Workers : Local(v)'
<1> SUFFICES ASSUME NEW v \in Workers, v # w PROVE Local(v)'
  OBVIOUS
<1>1. pc'[v] = pc[v] /\ req'[v] = req[v] /\ tx'[v] = tx[v]
  BY DEF Alone
<1>2. Local(v) /\ Keyed(v)' = Keyed(v)
  BY <1>1 DEF KeysInv, Keyed
<1>3. QED
  BY <1>1, <1>2 DEF Local
Transaction == [del : SUBSET Row, ins : SUBSET Row, seen : SUBSET Row]
Locals == [Users -> [Channels -> 0..MaxKeys]]

\* What a call keeps, field by field.
LEMMA Requests ==
    /\ Idle \in Request /\ NoTx \in Transaction
    /\ TypeOK => \A w \in Workers :
          /\ req[w] \in Request /\ tx[w] \in Transaction
          /\ req[w].actor \in Users /\ req[w].op \in Calls /\ req[w].list \in SUBSET Users
          /\ req[w].opens \in Roles /\ req[w].as \in Roles
          /\ req[w].todo \in SUBSET Channels
          /\ req[w].next \in Nat /\ req[w].key \in KeyFunctions
<1>1. Idle.key \in KeyFunctions
  <2>1. << >> \in [{} -> 1..MaxKeys]
    OBVIOUS
  <2>2. {} \in SUBSET (0..MaxChannels)
    OBVIOUS
  <2>3. QED
    BY <2>1, <2>2 DEF KeyFunctions, Idle
<1>2. Request = [actor : Users, op : Calls, list : SUBSET Users, opens : Roles,
                 as : Roles, todo : SUBSET Channels, next : Nat, key : KeyFunctions]
  BY DEF Request, KeyFunctions
<1>3. Idle \in Request
  BY <1>1, <1>2, ChannelKeysAssumption DEF Idle, Calls, Roles
<1>4. NoTx \in Transaction
  BY DEF NoTx, Transaction
<1>5. ASSUME TypeOK, NEW w \in Workers
      PROVE  req[w] \in Request /\ tx[w] \in Transaction
  BY <1>5 DEF TypeOK, Transaction
<1>6. QED
  BY <1>2, <1>3, <1>4, <1>5

\* A function from channels to keys is one that a call may keep.
LEMMA KeyFunction ==
    ASSUME NEW S \in SUBSET (0..MaxChannels), NEW f \in [S -> 1..MaxKeys]
    PROVE  f \in KeyFunctions
  BY DEF KeyFunctions

\* A step that moves slot w, adds to the tables and does not break the counts.
LEMMA SlotMoves ==
    ASSUME KeysInv, NEW w \in Workers, NEW s \in Steps \cup {"idle"}, NEW r \in Request,
           Keep(w, s, r), NEW t \in Transaction, tx' = [tx EXCEPT ![w] = t],
           role' \in [Users -> Roles \cup {"none"}], changes' \in 0..MaxChanges,
           gone' \in SUBSET Users, dropped' \in BOOLEAN,
           level' \in Seq(Roles), Len(level) <= Len(level'),
           made' \in Seq(Key), Len(made) <= Len(made'),
           rows' \subseteq Row, IsFiniteSet(rows'), local' \in Locals, calm' \in BOOLEAN,
           Counted', Local(w)'
    PROVE  KeysInv'
<1>1. /\ pc'[w] = s /\ pc' \in [Workers -> Steps \cup {"idle"}] /\ req' \in [Workers -> Request]
      /\ \A v \in Workers \ {w} : pc'[v] = pc[v] /\ req'[v] = req[v]
  BY KeepMoves DEF KeysInv
<1>2. tx' \in [Workers -> Transaction] /\ \A v \in Workers \ {w} : tx'[v] = tx[v]
  BY DEF KeysInv, TypeOK, Transaction
<1>3. Alone(w)
  BY <1>1, <1>2 DEF Alone
<1>4. DOMAIN level \subseteq DOMAIN level' /\ DOMAIN made \subseteq DOMAIN made'
      /\ Len(level') \in Nat /\ Len(made') \in Nat
  BY Domains DEF KeysInv
<1>5. \A v \in Workers : Local(v)'
  BY <1>3, <1>4, LocalsKept
<1>6. Len(level') <= MaxChannels /\ Len(made') <= MaxKeys
  <2>1. Cardinality(At(ChannelSteps))' \in Nat /\ Cardinality(At(GenerateSteps))' \in Nat
    BY <1>1, Counting
  <2>2. MaxChannels \in Nat /\ MaxKeys \in Nat
    BY ChannelKeysAssumption
  <2>3. Cardinality(At(GenerateSteps))' * MaxChannels \in Nat
    BY <2>1, <2>2, Products
  <2>4. QED
    BY <1>4, <2>1, <2>2, <2>3 DEF Counted
<1>7. TypeOK'
  BY <1>1, <1>2, <1>6 DEF TypeOK, Transaction, Locals
<1>8. QED
  BY <1>5, <1>7 DEF KeysInv

\* A step of slot w that leaves the tables alone.
LEMMA SlotKeeps ==
    ASSUME KeysInv, NEW w \in Workers, NEW s \in Steps \cup {"idle"}, NEW r \in Request,
           Keep(w, s, r), NEW t \in Transaction,
           tx' = [tx EXCEPT ![w] = t],
           UNCHANGED <<members, level, rows, made>>, local' \in Locals,
           calm' \in BOOLEAN,
           \/ Counted'
           \/ /\ s \in ChannelSteps => pc[w] \in ChannelSteps
              /\ s \in GenerateSteps => pc[w] \in GenerateSteps,
           Local(w)'
    PROVE  KeysInv'
<1>1. /\ pc'[w] = s
      /\ \A v \in Workers \ {w} : pc'[v] = pc[v] /\ req'[v] = req[v]
  BY KeepMoves DEF KeysInv
<1>2. \A v \in Workers \ {w} : tx'[v] = tx[v]
  BY DEF KeysInv, TypeOK
<1>3. Alone(w)
  BY <1>1, <1>2 DEF Alone
<1>4. Counted'
  BY <1>1, <1>3, CountedKept
<1>5. /\ role' \in [Users -> Roles \cup {"none"}] /\ changes' \in 0..MaxChanges
      /\ gone' \in SUBSET Users /\ dropped' \in BOOLEAN
      /\ level' \in Seq(Roles) /\ made' \in Seq(Key) /\ rows' \subseteq Row /\ IsFiniteSet(rows')
  BY DEF KeysInv, TypeOK, members
<1>6. Len(level) <= Len(level') /\ Len(made) <= Len(made')
  BY Domains DEF KeysInv
<1>7. QED
  BY <1>4, <1>5, <1>6, SlotMoves

\* The call ends.
LEMMA EndKeeps ==
    ASSUME KeysInv, NEW w \in Workers, End(w),
           UNCHANGED <<members, level, rows, made>>, local' \in Locals,
           calm' \in BOOLEAN
    PROVE  KeysInv'
<1>1. pc'[w] = "idle" /\ req'[w] = Idle /\ tx'[w] = NoTx
  BY KeepMoves DEF End, KeysInv, TypeOK
<1>2. Local(w)'
  <2>1. Keyed(w)' = {}
    BY <1>1 DEF Keyed, Idle
  <2>2. IsFiniteSet(tx'[w].ins)
    BY <1>1, FS_EmptySet DEF NoTx
  <2>3. QED
    BY <1>1, <2>1, <2>2 DEF Local, RotateSteps, TxSteps
<1>3. Idle \in Request /\ NoTx \in Transaction
  BY Requests
<1>4. Keep(w, "idle", Idle) /\ tx' = [tx EXCEPT ![w] = NoTx]
  BY DEF End
<1>5. "idle" \in Steps \cup {"idle"} /\ "idle" \notin ChannelSteps /\ "idle" \notin GenerateSteps
  BY DEF ChannelSteps, GenerateSteps
<1>6. QED
  BY <1>2, <1>3, <1>4, <1>5, SlotKeeps
\* A call starts only while there is room for what it will make.
LEMMA StartCounted ==
    ASSUME KeysInv, NEW w \in Workers, \A v \in Workers \ {w} : pc'[v] = pc[v],
           UNCHANGED <<level, made>>, RoomForKeys, pc'[w] \in ChannelSteps => RoomForChannel
    PROVE  Counted'
<1> DEFINE c == Cardinality(At(ChannelSteps))
           g == Cardinality(At(GenerateSteps))
<1>1. /\ c \in Nat /\ c' \in Nat /\ c' <= c + 1 /\ (pc'[w] \notin ChannelSteps => c' <= c)
      /\ g \in Nat /\ g' \in Nat /\ g' <= g + 1
  BY Counting
<1>2. Len(level) \in Nat /\ Len(made) \in Nat /\ MaxChannels \in Nat /\ MaxKeys \in Nat
  BY Domains, ChannelKeysAssumption DEF KeysInv
<1>3. Creating = At(ChannelSteps) /\ ToGenerate = At(GenerateSteps)
  BY DEF Creating, ToGenerate, At, ChannelSteps, GenerateSteps
<1>4. Len(level) + c <= MaxChannels /\ Len(made) + (g + 1) * MaxChannels <= MaxKeys
      /\ (pc'[w] \in ChannelSteps => Len(level) + c < MaxChannels)
  BY <1>3 DEF KeysInv, Counted, RoomForKeys, RoomForChannel
<1> HIDE DEF c, g
<1>5. g' * MaxChannels <= (g + 1) * MaxChannels /\ g' * MaxChannels \in Nat
      /\ (g + 1) * MaxChannels \in Nat
  <2>1. g + 1 \in Nat /\ g' \in Nat /\ g' <= g + 1 /\ MaxChannels \in Nat
    BY <1>1, <1>2
  <2>2. QED
    BY <2>1, Products
<1>6. Len(level) + c' <= MaxChannels
  BY <1>1, <1>2, <1>4
<1>7. Len(made) + g' * MaxChannels <= MaxKeys
  BY <1>2, <1>4, <1>5
<1>8. QED
  BY <1>6, <1>7 DEF Counted, c, g

\* The calls that write keys start.
LEMMA BeginTypes ==
    ASSUME KeysInv, NEW w \in Workers,
           StartCreate(w) \/ StartGeneral(w) \/ StartRotate(w)
    PROVE  KeysInv'
<1>1. PICK u \in Users, op \in Calls, first \in {"create_members", "rotate_members"},
           opens \in Roles :
              /\ Keep(w, first, [Idle EXCEPT !.actor = u, !.op = op, !.opens = opens])
              /\ first \in ChannelSteps => RoomForChannel
  BY ChannelKeysAssumption
     DEF StartCreate, StartGeneral, StartRotate, Begin, ChannelSteps, Calls, Roles
<1>2. /\ UNCHANGED <<members, level, rows, made, local, tx>> /\ RoomForKeys
      /\ calm' \in BOOLEAN
  BY DEF StartCreate, StartGeneral, StartRotate, Begin, KeysInv, TypeOK, members, server
<1> DEFINE r == [Idle EXCEPT !.actor = u, !.op = op, !.opens = opens]
<1>3. r \in Request /\ r.key = << >>
  BY Requests DEF Request, Idle
<1>4. pc'[w] = first /\ req'[w] = r /\ \A v \in Workers \ {w} : pc'[v] = pc[v]
  BY <1>1, KeepMoves DEF KeysInv
<1>5. Counted'
  BY <1>1, <1>2, <1>4, StartCounted
<1>6. pc[w] = "idle"
  BY DEF StartCreate, StartGeneral, StartRotate, Begin
<1>7. tx[w] = NoTx /\ tx' = [tx EXCEPT ![w] = tx[w]] /\ NoTx \in Transaction
  BY <1>2, <1>6, Requests DEF KeysInv, Local, TxSteps, TypeOK
<1>8. Local(w)'
  <2>1. Keyed(w)' = {}
    BY <1>3, <1>4 DEF Keyed
  <2>2. tx'[w] = NoTx /\ IsFiniteSet(tx'[w].ins)
    BY <1>2, <1>7, FS_EmptySet DEF NoTx
  <2>3. QED
    BY <1>4, <2>1, <2>2 DEF Local, RotateSteps, TxSteps
<1>9. first \in Steps \cup {"idle"} /\ local' \in Locals
  BY <1>2 DEF Steps, KeysInv, TypeOK, Locals
<1>10. QED
  BY <1>1, <1>2, <1>3, <1>5, <1>7, <1>8, <1>9, SlotKeeps
\* What the unchanged parts of a step say of the types.
LEMMA KeptTypes ==
    ASSUME KeysInv
    PROVE  /\ rows' = rows => rows' \subseteq Row /\ IsFiniteSet(rows')
           /\ made' = made => made' \in Seq(Key) /\ Len(made) <= Len(made')
           /\ level' = level => level' \in Seq(Roles) /\ Len(level) <= Len(level')
           /\ UNCHANGED members =>
                 /\ role' \in [Users -> Roles \cup {"none"}] /\ changes' \in 0..MaxChanges
                 /\ gone' \in SUBSET Users /\ dropped' \in BOOLEAN
           /\ local' = local => local' \in Locals
           /\ \A w \in Workers : tx' = tx => tx' = [tx EXCEPT ![w] = tx[w]]
  BY Domains DEF KeysInv, TypeOK, Locals, members

\* A write to one browser's store.
LEMMA StoreTypes ==
    ASSUME KeysInv, NEW u \in Users, NEW c \in Channels, NEW k \in 1..MaxKeys,
           local' = [local EXCEPT ![u][c] = k]
    PROVE  local' \in Locals
<1>1. local \in Locals /\ k \in 0..MaxKeys
  BY ChannelKeysAssumption DEF KeysInv, TypeOK, Locals
<1>2. QED
  BY <1>1 DEF Locals

LEMMA StartLeaveTypes ==
    ASSUME KeysInv, NEW w \in Workers, StartLeave(w)
    PROVE  KeysInv'
<1>1. PICK u \in Users :
         /\ Remove(u)
         /\ Keep(w, "leave_clear", [Idle EXCEPT !.actor = u, !.op = "leave"])
  BY DEF StartLeave
<1>2. pc[w] = "idle" /\ changes < MaxChanges /\ changes' = changes + 1
      /\ UNCHANGED <<gone, dropped, level, rows, made, local, tx, calm>>
  BY DEF StartLeave, server
<1> DEFINE r == [Idle EXCEPT !.actor = u, !.op = "leave"]
<1>3. r \in Request /\ r.key = << >>
  BY Requests DEF Request, Idle, Calls
<1>4. pc'[w] = "leave_clear" /\ req'[w] = r
      /\ \A v \in Workers \ {w} : pc'[v] = pc[v] /\ req'[v] = req[v]
  BY <1>1, KeepMoves DEF KeysInv
<1>5. tx[w] = NoTx /\ tx' = [tx EXCEPT ![w] = tx[w]] /\ NoTx \in Transaction
  BY <1>2, Requests DEF KeysInv, Local, TxSteps, TypeOK
<1>6. Alone(w)
  BY <1>2, <1>4 DEF Alone
<1>7. Counted'
  <2>1. "leave_clear" \notin ChannelSteps /\ "leave_clear" \notin GenerateSteps
    BY DEF ChannelSteps, GenerateSteps
  <2>2. QED
    BY <1>2, <1>4, <1>6, <2>1, CountedKept
<1>8. Local(w)'
  <2>1. Keyed(w)' = {}
    BY <1>3, <1>4 DEF Keyed
  <2>2. tx'[w] = NoTx /\ IsFiniteSet(tx'[w].ins)
    BY <1>2, <1>5, FS_EmptySet DEF NoTx
  <2>3. QED
    BY <1>4, <2>1, <2>2 DEF Local, RotateSteps, TxSteps
<1>9. /\ role' \in [Users -> Roles \cup {"none"}] /\ changes' \in 0..MaxChanges
      /\ gone' \in SUBSET Users /\ dropped' \in BOOLEAN
  BY <1>1, <1>2, ChannelKeysAssumption DEF Remove, Put, KeysInv, TypeOK
<1>10. "leave_clear" \in Steps \cup {"idle"} /\ calm' \in BOOLEAN
  BY <1>2 DEF Steps, KeysInv, TypeOK
<1>11. /\ level' \in Seq(Roles) /\ Len(level) <= Len(level') /\ made' \in Seq(Key)
       /\ Len(made) <= Len(made') /\ rows' \subseteq Row /\ IsFiniteSet(rows')
       /\ local' \in Locals
  BY <1>2, KeptTypes
<1>12. QED
  BY <1>1, <1>3, <1>5, <1>7, <1>8, <1>9, <1>10, <1>11, SlotMoves

\* The two reads of the list of members: the caller's row, and the list.
LEMMA CreateReads ==
    ASSUME NEW w \in Workers, CreateMembers(w) \/ CreateList(w)
    PROVE  /\ pc[w] \in {"create_members", "create_list"}
           /\ UNCHANGED <<members, server, local, tx>>
           /\ \/ Goto(w, "create_list") /\ UNCHANGED <<made, req, calm>>
              \/ \E L \in SUBSET Users : CreateTold(w, L)
<1>1. CASE CreateMembers(w)
  BY <1>1 DEF CreateMembers
<1>2. CASE CreateList(w)
  <2>1. PICK L \in {Members} \cup NoList : CreateTold(w, L)
    BY <1>2 DEF CreateList
  <2>2. L \in SUBSET Users
    BY DEF Members, NoList
  <2>3. QED
    BY <1>2, <2>1, <2>2 DEF CreateList
<1>3. QED
  BY <1>1, <1>2

LEMMA RotateReads ==
    ASSUME NEW w \in Workers, RotateMembers(w) \/ RotateList(w)
    PROVE  /\ pc[w] \in {"rotate_members", "rotate_list"}
           /\ UNCHANGED <<members, server, made, local, tx>>
           /\ \/ Goto(w, "rotate_list") /\ UNCHANGED <<req, calm>>
              \/ \E L \in SUBSET Users : RotateTold(w, L)
<1>1. CASE RotateMembers(w)
  BY <1>1 DEF RotateMembers
<1>2. CASE RotateList(w)
  <2>1. PICK L \in {Members} \cup NoList : RotateTold(w, L)
    BY <1>2 DEF RotateList
  <2>2. L \in SUBSET Users
    BY DEF Members, NoList
  <2>3. QED
    BY <1>2, <2>1, <2>2 DEF RotateList
<1>3. QED
  BY <1>1, <1>2

\* The two reads of the list of channels.
LEMMA RotateOpens ==
    ASSUME TypeOK, NEW w \in Workers, RotateChannels(w) \/ RotateOpen(w)
    PROVE  /\ pc[w] \in {"rotate_channels", "rotate_open"}
           /\ UNCHANGED <<members, server, local, tx, calm>>
           /\ \/ \E q \in Roles : Keep(w, "rotate_open", [req[w] EXCEPT !.as = q])
                                /\ made' = made
              \/ \E S \in SUBSET DOMAIN level : Renew(w, S)
<1>1. CASE RotateChannels(w)
  <2> DEFINE u == req[w].actor
  <2>1. u \in Members => role[u] \in Roles
    BY DEF Members, TypeOK
  <2>2. QED
    BY <1>1, <2>1 DEF RotateChannels
<1>2. CASE RotateOpen(w)
  <2>1. PICK S \in {OpenTo(req[w].as)} \cup NoList : Renew(w, S)
    BY <1>2 DEF RotateOpen
  <2>2. S \in SUBSET DOMAIN level
    BY DEF OpenTo, NoList
  <2>3. QED
    BY <1>2, <2>1, <2>2 DEF RotateOpen
<1>3. QED
  BY <1>1, <1>2

\* A step of slot w between two requests, before it has keys.
LEMMA ReadKeeps ==
    ASSUME KeysInv, NEW w \in Workers, NEW s \in Steps, NEW r \in Request, Keep(w, s, r),
           UNCHANGED <<members, level, rows, made, local, tx>>, calm' \in BOOLEAN,
           r.key = req[w].key, pc[w] \notin TxSteps,
           s \in {"create_list", "rotate_list", "rotate_channels", "rotate_open"},
           s \in ChannelSteps => pc[w] \in ChannelSteps,
           s \in GenerateSteps => pc[w] \in GenerateSteps
    PROVE  KeysInv'
<1>1. pc'[w] = s /\ req'[w] = r
  BY KeepMoves DEF KeysInv
<1>2. tx' = [tx EXCEPT ![w] = tx[w]] /\ tx[w] \in Transaction /\ tx'[w] = tx[w]
  BY Requests DEF KeysInv, TypeOK
<1>3. Local(w)'
  <2>1. Local(w) /\ Keyed(w)' = Keyed(w)
    BY <1>1 DEF KeysInv, Keyed
  <2>2. QED
    BY <1>1, <1>2, <2>1 DEF Local, RotateSteps, TxSteps
<1>4. s \in Steps \cup {"idle"} /\ local' \in Locals
  BY KeptTypes
<1>5. QED
  BY <1>2, <1>3, <1>4, SlotKeeps

LEMMA CreateMembersTypes ==
    ASSUME KeysInv, NEW w \in Workers, CreateMembers(w) \/ CreateList(w)
    PROVE  KeysInv'
<1> DEFINE r(L) == [req[w] EXCEPT !.list = L, !.key = FreshKeys({0})]
<1>0. CASE Goto(w, "create_list") /\ UNCHANGED <<made, req, calm>>
  <2>1. pc[w] \in {"create_members", "create_list"} /\ UNCHANGED <<members, level, rows, local, tx>>
    BY CreateReads DEF server
  <2>2. Keep(w, "create_list", req[w]) /\ req[w] \in Request /\ calm' \in BOOLEAN
    BY <1>0, Requests DEF Keep, KeysInv, TypeOK
  <2>3. "create_list" \in Steps /\ pc[w] \notin TxSteps /\ pc[w] \in ChannelSteps
        /\ pc[w] \in GenerateSteps
    BY <2>1 DEF Steps, TxSteps, ChannelSteps, GenerateSteps
  <2>4. QED
    BY <1>0, <2>1, <2>2, <2>3, ReadKeeps
<1> SUFFICES ASSUME \E L \in SUBSET Users : CreateTold(w, L) PROVE KeysInv'
  BY <1>0, CreateReads
<1>1. PICK L \in SUBSET Users : CreateTold(w, L)
  OBVIOUS
<1>2. /\ pc[w] \in {"create_members", "create_list"} /\ calm' \in BOOLEAN
      /\ UNCHANGED <<role, changes, gone, dropped, level, rows, local, tx>>
      /\ Generate({0}, L, "create") /\ Keep(w, "create_role", r(L))
  BY <1>1, CreateReads DEF CreateTold, members, server, KeysInv, TypeOK
<1>3. IsFiniteSet({0}) /\ Cardinality({0}) = 1
  BY FS_Singleton
<1>4. made' \in Seq(Key) /\ Len(made') = Len(made) + 1
  BY <1>2, <1>3, GenerateFacts DEF KeysInv, TypeOK
<1> DEFINE c == Cardinality(At(ChannelSteps))
           g == Cardinality(At(GenerateSteps))
<1>5. pc'[w] = "create_role" /\ req'[w] = r(L)
      /\ \A v \in Workers \ {w} : pc'[v] = pc[v] /\ req'[v] = req[v]
  BY <1>2, KeepMoves DEF KeysInv
<1>6. c \in Nat /\ c' \in Nat /\ c' <= c /\ c >= 1 /\ g \in Nat /\ g' \in Nat /\ g' = g - 1
  <2>1. pc[w] \in ChannelSteps /\ pc[w] \in GenerateSteps /\ pc'[w] \in ChannelSteps
        /\ pc'[w] \notin GenerateSteps
    BY <1>2, <1>5 DEF ChannelSteps, GenerateSteps
  <2>2. QED
    BY <1>5, <2>1, Counting
<1>7. Len(level) \in Nat /\ Len(made) \in Nat /\ MaxChannels \in Nat /\ MaxKeys \in Nat
  BY Domains, ChannelKeysAssumption DEF KeysInv
<1>8. Len(level) + c <= MaxChannels /\ Len(made) + g * MaxChannels <= MaxKeys
  BY DEF KeysInv, Counted
<1> HIDE DEF c, g
<1>9. g' * MaxChannels \in Nat /\ g * MaxChannels = g' * MaxChannels + MaxChannels
  <2>1. (g' + 1) * MaxChannels = g' * MaxChannels + MaxChannels /\ g' * MaxChannels \in Nat
    BY <1>6, <1>7, Products
  <2>2. g = g' + 1
    BY <1>6
  <2>3. QED
    BY <2>1, <2>2
<1>10. Len(made') + g' * MaxChannels <= MaxKeys /\ Len(made') <= MaxKeys
       /\ Len(level') + c' <= MaxChannels
  <2>1. level' = level
    BY <1>2
  <2> DEFINE x == g' * MaxChannels
             y == g * MaxChannels
  <2>2. x \in Nat /\ y = x + MaxChannels /\ Len(made) + y <= MaxKeys
    BY <1>8, <1>9
  <2> HIDE DEF x, y
  <2>3. Len(made') + x <= MaxKeys /\ Len(made') <= MaxKeys
    <3>1. CASE MaxChannels = 0
      BY <1>4, <1>6, <1>7, <1>8, <3>1
    <3>2. CASE MaxChannels # 0
      BY <1>4, <1>7, <2>2, <3>2
    <3>3. QED
      BY <3>1, <3>2
  <2>4. QED
    BY <1>6, <1>7, <1>8, <2>1, <2>3 DEF x
<1>11. Counted'
  BY <1>10 DEF Counted, c, g
<1>12. FreshKeys({0}) \in [{0} -> (Len(made) + 1)..(Len(made) + 1)]
  BY <1>3, <1>7, FreshKeysFacts
<1>13. FreshKeys({0}) \in [{0} -> 1..MaxKeys] /\ FreshKeys({0})[0] = Len(made) + 1
  BY <1>4, <1>7, <1>10, <1>12
<1>14. r(L) \in Request
  <2>1. FreshKeys({0}) \in KeyFunctions
    BY <1>7, <1>13, KeyFunction
  <2>2. QED
    BY <2>1, Requests DEF KeysInv, Request, KeyFunctions
<1>15. r(L).key = FreshKeys({0}) /\ DOMAIN r(L).key = {0}
  BY <1>13, Requests DEF KeysInv, Request
<1>16. tx[w] = NoTx /\ tx' = [tx EXCEPT ![w] = tx[w]] /\ tx[w] \in Transaction
  BY <1>2, Requests DEF KeysInv, Local, TxSteps, TypeOK
<1>17. Local(w)'
  <2>1. Keyed(w)' = {Len(made) + 1}
    BY <1>5, <1>13, <1>15 DEF Keyed
  <2>2. DOMAIN made' = 1..(Len(made) + 1)
    BY <1>4
  <2>3. Keyed(w)' \subseteq DOMAIN made'
    BY <1>7, <2>1, <2>2
  <2>4. tx'[w] = NoTx /\ IsFiniteSet(tx'[w].ins)
    BY <1>2, <1>16, FS_EmptySet DEF NoTx
  <2>5. DOMAIN req'[w].key = {0}
    BY <1>5, <1>15
  <2> HIDE DEF r
  <2>6. QED
    BY <1>5, <2>3, <2>4, <2>5 DEF Local, RotateSteps, TxSteps
<1>18. "create_role" \in Steps \cup {"idle"} /\ Len(made) <= Len(made')
  BY <1>4, <1>7 DEF Steps
<1>19. /\ role' \in [Users -> Roles \cup {"none"}] /\ changes' \in 0..MaxChanges
       /\ gone' \in SUBSET Users /\ dropped' \in BOOLEAN
       /\ level' \in Seq(Roles) /\ Len(level) <= Len(level') /\ rows' \subseteq Row
       /\ IsFiniteSet(rows') /\ local' \in Locals
  BY <1>2, KeptTypes DEF members
<1>20. QED
  BY <1>2, <1>4, <1>11, <1>14, <1>16, <1>17, <1>18, <1>19, SlotMoves

LEMMA CreateRoleTypes ==
    ASSUME KeysInv, NEW w \in Workers, CreateRole(w)
    PROVE  KeysInv'
<1>1. pc[w] = "create_role" /\ UNCHANGED <<members, level, rows, made, local>>
      /\ calm' \in BOOLEAN
  BY DEF CreateRole, server, KeysInv, TypeOK
<1>2. local' \in Locals
  BY <1>1, KeptTypes
<1>3. CASE End(w)
  BY <1>1, <1>2, <1>3, EndKeeps
<1>4. CASE Goto(w, "create_insert") /\ UNCHANGED <<req, tx, calm>>
  <2>1. Keep(w, "create_insert", req[w]) /\ req[w] \in Request /\ tx[w] \in Transaction
        /\ tx' = [tx EXCEPT ![w] = tx[w]]
    BY <1>4, Requests DEF Keep, KeysInv, TypeOK
  <2>2. pc'[w] = "create_insert" /\ req'[w] = req[w] /\ tx'[w] = tx[w]
    BY <1>4, <2>1, KeepMoves DEF KeysInv
  <2>3. Local(w)'
    <3>1. Local(w) /\ Keyed(w)' = Keyed(w)
      BY <2>2 DEF KeysInv, Keyed
    <3>2. QED
      BY <1>1, <2>2, <3>1 DEF Local, RotateSteps, TxSteps
  <2>4. "create_insert" \in Steps \cup {"idle"} /\ pc[w] \in ChannelSteps
        /\ "create_insert" \notin GenerateSteps
    BY <1>1 DEF Steps, ChannelSteps, GenerateSteps
  <2>5. QED
    BY <1>1, <1>2, <2>1, <2>3, <2>4, SlotKeeps
<1>5. QED
  BY <1>3, <1>4 DEF CreateRole

LEMMA CreateInsertTypes ==
    ASSUME KeysInv, NEW w \in Workers, CreateInsert(w)
    PROVE  KeysInv'
<1> DEFINE c == Len(level) + 1
           k == req[w].key[0]
           r == [req[w] EXCEPT !.key = [d \in {c} |-> k], !.todo = {c}]
<1>0. CASE dropped
  <2>1. UNCHANGED <<members, level, rows, made, local>> /\ End(w) /\ calm' \in BOOLEAN
    BY <1>0 DEF CreateInsert
  <2>2. QED
    BY <2>1, KeptTypes, EndKeeps
<1> SUFFICES ASSUME ~dropped PROVE KeysInv'
  BY <1>0
<1>1. /\ pc[w] = "create_insert" /\ level' = Append(level, req[w].opens)
      /\ Keep(w, "create_keys", r) /\ Uploaded({k})
      /\ UNCHANGED <<members, rows, local, tx, calm>>
  BY DEF CreateInsert
<1>2. Len(level) \in Nat /\ Len(made) \in Nat /\ MaxChannels \in Nat /\ MaxKeys \in Nat
  BY Domains, ChannelKeysAssumption DEF KeysInv
<1>3. level' \in Seq(Roles) /\ Len(level') = Len(level) + 1
  BY <1>1, Requests DEF KeysInv, TypeOK
<1>4. made' \in Seq(Key) /\ Len(made') = Len(made)
  BY <1>1, UploadedFacts DEF KeysInv, TypeOK
<1> DEFINE n == Cardinality(At(ChannelSteps))
           g == Cardinality(At(GenerateSteps))
<1>5. pc'[w] = "create_keys" /\ req'[w] = r
      /\ \A v \in Workers \ {w} : pc'[v] = pc[v] /\ req'[v] = req[v]
  BY <1>1, KeepMoves DEF KeysInv
<1>6. n \in Nat /\ n' \in Nat /\ n' = n - 1 /\ g \in Nat /\ g' \in Nat /\ g' <= g
  <2>1. pc[w] \in ChannelSteps /\ pc'[w] \notin ChannelSteps /\ pc'[w] \notin GenerateSteps
    BY <1>1, <1>5 DEF ChannelSteps, GenerateSteps
  <2>2. QED
    BY <1>5, <2>1, Counting
<1>7. Len(level) + n <= MaxChannels /\ Len(made) + g * MaxChannels <= MaxKeys
  BY DEF KeysInv, Counted
<1> HIDE DEF n, g
<1>8. g' * MaxChannels <= g * MaxChannels /\ g' * MaxChannels \in Nat /\ g * MaxChannels \in Nat
  <2>1. g' \in Nat /\ g \in Nat /\ g' <= g /\ MaxChannels \in Nat
    BY <1>2, <1>6
  <2>2. QED
    BY <2>1, Products
<1>9. Len(level') + n' <= MaxChannels /\ c <= MaxChannels
  BY <1>2, <1>3, <1>6, <1>7
<1>10. Len(made') + g' * MaxChannels <= MaxKeys
  BY <1>2, <1>4, <1>7, <1>8
<1>11. Counted'
  BY <1>9, <1>10 DEF Counted, n, g
<1>12. c \in Channels /\ c \in 0..MaxChannels /\ c \in DOMAIN level'
  BY <1>2, <1>3, <1>9 DEF Channels
<1>13. k \in Keyed(w) /\ k \in DOMAIN made /\ k \in 1..MaxKeys
  <2>1. DOMAIN req[w].key = {0} /\ Keyed(w) \subseteq DOMAIN made
    BY <1>1 DEF KeysInv, Local
  <2>2. QED
    BY <2>1, Domains DEF KeysInv, Keyed
<1> HIDE DEF k
<1>14. r \in Request
  <2> DEFINE f == [d \in {c} |-> k]
  <2>1. f \in [{c} -> 1..MaxKeys] /\ {c} \in SUBSET (0..MaxChannels)
    BY <1>12, <1>13
  <2>2. f \in KeyFunctions
    BY <2>1, KeyFunction
  <2>3. {c} \in SUBSET Channels
    BY <1>12
  <2> HIDE DEF f
  <2>4. [req[w] EXCEPT !.key = f, !.todo = {c}] \in Request
    BY <2>2, <2>3, Requests DEF KeysInv, Request, KeyFunctions
  <2>5. QED
    BY <2>4 DEF f
<1>15. r.key = [d \in {c} |-> k] /\ r.todo = {c}
  BY Requests DEF KeysInv, Request
<1>16. tx[w] = NoTx /\ tx' = [tx EXCEPT ![w] = tx[w]] /\ tx[w] \in Transaction
  BY <1>1, Requests DEF KeysInv, Local, TxSteps, TypeOK
<1>17. Local(w)'
  <2>1. Keyed(w)' = {k} /\ DOMAIN req'[w].key = {c} /\ req'[w].todo = {c}
    BY <1>5, <1>15 DEF Keyed
  <2>2. k \in DOMAIN made'
    BY <1>4, <1>13 DEF KeysInv, TypeOK
  <2>3. tx'[w] = NoTx /\ IsFiniteSet(tx'[w].ins)
    BY <1>1, <1>16, FS_EmptySet DEF NoTx
  <2> HIDE DEF r, c
  <2>4. QED
    BY <1>5, <1>12, <2>1, <2>2, <2>3 DEF Local, RotateSteps, TxSteps
<1>18. "create_keys" \in Steps \cup {"idle"} /\ Len(made) <= Len(made') /\ Len(level) <= Len(level')
  BY <1>2, <1>3, <1>4 DEF Steps
<1>19. /\ role' \in [Users -> Roles \cup {"none"}] /\ changes' \in 0..MaxChanges
       /\ gone' \in SUBSET Users /\ dropped' \in BOOLEAN
       /\ rows' \subseteq Row /\ IsFiniteSet(rows') /\ local' \in Locals /\ calm' \in BOOLEAN
  BY <1>1, KeptTypes DEF KeysInv, TypeOK
<1>20. QED
  BY <1>1, <1>3, <1>4, <1>11, <1>14, <1>16, <1>17, <1>18, <1>19, SlotMoves

\* The channel a creation works on.
LEMMA CreatedChannel ==
    ASSUME KeysInv, NEW w \in Workers, pc[w] \in {"create_keys", "create_store"}
    PROVE  LET c == Max(req[w].todo) IN
           /\ c \in DOMAIN level /\ c \in Channels /\ req[w].todo = {c}
           /\ DOMAIN req[w].key = {c}
           /\ req[w].key[c] \in DOMAIN made /\ req[w].key[c] \in 1..MaxKeys
<1>1. PICK c \in DOMAIN level : req[w].todo = {c} /\ DOMAIN req[w].key = {c}
  BY DEF KeysInv, Local
<1>2. c \in Channels /\ c \in Nat
  BY Domains DEF KeysInv, Channels
<1>3. Max({c}) = c
  BY <1>2 DEF Max
<1>4. req[w].key[c] \in Keyed(w) /\ Keyed(w) \subseteq DOMAIN made
  BY <1>1 DEF KeysInv, Local, Keyed
<1>5. QED
  BY <1>1, <1>2, <1>3, <1>4, Domains DEF KeysInv

\* RowsFor makes rows.
LEMMA RowsForTypes ==
    ASSUME NEW S \in SUBSET Users, NEW c \in Channels, NEW v \in Nat \ {0}, NEW k \in 1..MaxKeys
    PROVE  RowsFor(S, c, v, k) \subseteq Row /\ IsFiniteSet(RowsFor(S, c, v, k))
<1>1. RowsFor(S, c, v, k) \subseteq Row
  BY DEF RowsFor, Row
<1>2. IsFiniteSet(S)
  BY ChannelKeysAssumption, FS_Subset
<1> DEFINE f == [u \in S |-> [chan |-> c, user |-> u, version |-> v, key |-> k]]
<1>3. RowsFor(S, c, v, k) = {f[u] : u \in S}
  BY DEF RowsFor
<1>4. f \in Surjection(S, RowsFor(S, c, v, k))
  BY <1>3 DEF Surjection
<1>5. IsFiniteSet(RowsFor(S, c, v, k))
  BY <1>2, <1>4, FS_Surjection
<1>6. QED
  BY <1>1, <1>5

\* The highest version of a set of rows, 0 when it is empty.
LEMMA HighestVersion ==
    ASSUME NEW T \in SUBSET Row, IsFiniteSet(T)
    PROVE  LET n == Max({0} \cup {r.version : r \in T}) IN
           /\ n \in Nat
           /\ \A r \in T : r.version <= n
           /\ n # 0 => \E r \in T : r.version = n
<1> DEFINE V == {r.version : r \in T}
           f == [r \in T |-> r.version]
<1>1. f \in Surjection(T, V)
  BY DEF Surjection
<1>2. IsFiniteSet(V) /\ V \in SUBSET Nat
  BY <1>1, FS_Surjection DEF Row
<1>3. IsFiniteSet({0} \cup V) /\ {0} \cup V \in SUBSET Nat
  <2>1. IsFiniteSet({0})
    BY FS_Singleton
  <2> HIDE DEF V
  <2>2. IsFiniteSet({0} \cup V)
    BY <1>2, <2>1, FS_Union
  <2>3. QED
    BY <1>2, <2>1, <2>2
<1>4. Max({0} \cup V) \in {0} \cup V /\ \A k \in {0} \cup V : k <= Max({0} \cup V)
  <2> DEFINE W == {0} \cup V
  <2>1. W # {} /\ IsFiniteSet(W) /\ W \in SUBSET Nat
    BY <1>3
  <2> HIDE DEF W
  <2>2. Max(W) \in W /\ \A k \in W : k <= Max(W)
    BY <2>1, MaxOfSet
  <2>3. QED
    BY <2>2 DEF W
<1>5. QED
  BY <1>3, <1>4

\* Top is the highest version of a channel.
LEMMA TopFacts ==
    ASSUME rows \subseteq Row, IsFiniteSet(rows), NEW c
    PROVE  /\ Top(c) \in Nat
           /\ \A r \in RowsOf(c) : r.version <= Top(c)
           /\ Top(c) # 0 => \E r \in RowsOf(c) : r.version = Top(c)
<1>1. RowsOf(c) \subseteq rows
  BY DEF RowsOf
<1>2. RowsOf(c) \in SUBSET Row /\ IsFiniteSet(RowsOf(c))
  BY <1>1, FS_Subset
<1>3. QED
  BY <1>2, HighestVersion DEF Top

\* The channel a rotation works on next.
LEMMA NextToRotate ==
    ASSUME KeysInv, NEW w \in Workers, pc[w] \in RotateSteps, req[w].todo # {}
    PROVE  /\ Chan(w) \in req[w].todo /\ Chan(w) \in DOMAIN req[w].key
           /\ Chan(w) \in DOMAIN level /\ Chan(w) \in Channels
           /\ req[w].key[Chan(w)] \in DOMAIN made /\ req[w].key[Chan(w)] \in 1..MaxKeys
<1>1. req[w].todo \subseteq DOMAIN req[w].key /\ DOMAIN req[w].key \subseteq DOMAIN level
      /\ Keyed(w) \subseteq DOMAIN made
  BY DEF KeysInv, Local
<1>2. req[w].todo \in SUBSET Nat /\ DOMAIN level \subseteq Channels
  BY Requests, Domains DEF KeysInv, Channels
<1>3. Chan(w) \in req[w].todo
  BY <1>2, MinOfSet DEF Chan
<1>4. req[w].key[Chan(w)] \in Keyed(w)
  BY <1>1, <1>3 DEF Keyed
<1>5. QED
  BY <1>1, <1>2, <1>3, <1>4, Domains DEF KeysInv

\* A rotation's next rows are rows.
LEMMA NewRowsTypes ==
    ASSUME KeysInv, NEW w \in Workers, pc[w] = "rotate_insert", NEW S \in SUBSET req[w].list
    PROVE  NewRows(w, S) \subseteq Row /\ IsFiniteSet(NewRows(w, S))
<1>1. req[w].todo # {} /\ req[w].next # 0 /\ pc[w] \in RotateSteps
  BY DEF KeysInv, Local, TxSteps, RotateSteps
<1>2. /\ S \in SUBSET Users /\ req[w].next \in Nat \ {0} /\ Chan(w) \in Channels
      /\ req[w].key[Chan(w)] \in 1..MaxKeys
  BY <1>1, NextToRotate, Requests DEF KeysInv
<1>3. QED
  BY <1>2, RowsForTypes DEF NewRows

LEMMA CreateKeysTypes ==
    ASSUME KeysInv, NEW w \in Workers, CreateKeys(w)
    PROVE  KeysInv'
<1> DEFINE c == Max(req[w].todo)
           row(u) == RowsFor({u}, c, 1, req[w].key[c])
<1>1. pc[w] = "create_keys" /\ UNCHANGED <<members, level, made, local>>
  BY DEF CreateKeys
<1>2. local' \in Locals /\ calm \in BOOLEAN
  BY <1>1, KeptTypes DEF KeysInv, TypeOK
<1>3. CASE End(w) /\ UNCHANGED rows /\ calm' \in BOOLEAN
  BY <1>1, <1>2, <1>3, EndKeeps
<1>4. CASE Goto(w, "create_store") /\ UNCHANGED <<req, tx, rows, calm>>
  <2>1. Keep(w, "create_store", req[w]) /\ req[w] \in Request /\ tx[w] \in Transaction
        /\ tx' = [tx EXCEPT ![w] = tx[w]]
    BY <1>4, Requests DEF Keep, KeysInv, TypeOK
  <2>2. pc'[w] = "create_store" /\ req'[w] = req[w] /\ tx'[w] = tx[w]
    BY <1>4, <2>1, KeepMoves DEF KeysInv
  <2>3. Local(w)'
    <3>1. Local(w) /\ Keyed(w)' = Keyed(w)
      BY <2>2 DEF KeysInv, Keyed
    <3>2. QED
      BY <1>1, <2>2, <3>1 DEF Local, RotateSteps, TxSteps
  <2>4. "create_store" \in Steps \cup {"idle"} /\ "create_store" \notin ChannelSteps
        /\ "create_store" \notin GenerateSteps
    BY DEF Steps, ChannelSteps, GenerateSteps
  <2>5. QED
    BY <1>1, <1>2, <1>4, <2>1, <2>3, <2>4, SlotKeeps
<1>5. ASSUME NEW u \in req[w].list, rows' = rows \cup row(u),
             req' = [req EXCEPT ![w].list = @ \ {u}], UNCHANGED <<pc, tx, calm>>
      PROVE  KeysInv'
  <2> DEFINE r == [req[w] EXCEPT !.list = @ \ {u}]
  <2>1. /\ r \in Request /\ r.key = req[w].key /\ r.todo = req[w].todo /\ u \in Users
        /\ tx[w] \in Transaction
    BY Requests DEF KeysInv, Request
  <2>2. Keep(w, "create_keys", r) /\ tx' = [tx EXCEPT ![w] = tx[w]]
    BY <1>1, <1>5 DEF Keep, Goto, KeysInv, TypeOK
  <2>3. c \in Channels /\ req[w].key[c] \in 1..MaxKeys
    BY <1>1, CreatedChannel
  <2> HIDE DEF c
  <2>4. row(u) \subseteq Row /\ IsFiniteSet(row(u))
    <3>1. {u} \in SUBSET Users /\ 1 \in Nat \ {0}
      BY <2>1
    <3>2. QED
      BY <2>3, <3>1, RowsForTypes
  <2> HIDE DEF row, r
  <2>5. rows' \subseteq Row /\ IsFiniteSet(rows')
    BY <1>5, <2>4, FS_Union DEF KeysInv, TypeOK
  <2>6. pc'[w] = "create_keys" /\ req'[w] = r
        /\ \A v \in Workers \ {w} : pc'[v] = pc[v] /\ req'[v] = req[v]
    BY <2>2, KeepMoves DEF KeysInv
  <2>7. Alone(w)
    BY <1>5, <2>6 DEF Alone
  <2>8. Counted'
    BY <1>1, <2>6, <2>7, CountedKept
  <2>9. Local(w)'
    <3>1. Local(w) /\ Keyed(w)' = Keyed(w)
      BY <2>1, <2>6 DEF KeysInv, Keyed
    <3>2. QED
      BY <1>1, <1>5, <2>1, <2>6, <3>1 DEF Local, RotateSteps, TxSteps
  <2>10. /\ role' \in [Users -> Roles \cup {"none"}] /\ changes' \in 0..MaxChanges
         /\ gone' \in SUBSET Users /\ dropped' \in BOOLEAN
         /\ level' \in Seq(Roles) /\ Len(level) <= Len(level')
         /\ made' \in Seq(Key) /\ Len(made) <= Len(made')
    BY <1>1, KeptTypes
  <2>11. "create_keys" \in Steps \cup {"idle"} /\ calm' \in BOOLEAN
    BY <1>2, <1>5 DEF Steps
  <2>12. QED
    BY <1>2, <2>1, <2>2, <2>5, <2>8, <2>9, <2>10, <2>11, SlotMoves
<1>6. QED
  <2>1. \/ End(w) /\ UNCHANGED rows /\ (calm' = calm \/ calm' = FALSE)
        \/ Goto(w, "create_store") /\ UNCHANGED <<req, tx, rows, calm>>
        \/ \E u \in req[w].list : /\ rows' = rows \cup row(u)
                                  /\ req' = [req EXCEPT ![w].list = @ \ {u}]
                                  /\ UNCHANGED <<pc, tx, calm>>
    BY DEF CreateKeys
  <2>2. QED
    BY <1>2, <1>3, <1>4, <1>5, <2>1

LEMMA CreateStoreTypes ==
    ASSUME KeysInv, NEW w \in Workers, CreateStore(w)
    PROVE  KeysInv'
<1> DEFINE c == Max(req[w].todo)
<1>1. /\ pc[w] = "create_store" /\ UNCHANGED <<members, level, rows, made>> /\ End(w)
      /\ local' = [local EXCEPT ![req[w].actor][c] = req[w].key[c]]
      /\ calm' \in BOOLEAN
  BY DEF CreateStore, members, server, KeysInv, TypeOK
<1>2. c \in Channels /\ req[w].key[c] \in 1..MaxKeys /\ req[w].actor \in Users
  BY <1>1, CreatedChannel, Requests DEF KeysInv
<1> HIDE DEF c
<1>3. local' \in Locals
  BY <1>1, <1>2, StoreTypes
<1>4. QED
  BY <1>1, <1>3, EndKeeps

\* A step of a rotation that leaves the tables, its transaction's rows and its
\* list of keys alone and ends where channels may be left.
LEMMA RotateStepKeeps ==
    ASSUME KeysInv, NEW w \in Workers, NEW s \in Steps, NEW r \in Request,
           Keep(w, s, r), UNCHANGED <<members, level, rows, made>>,
           local' \in Locals, calm' \in BOOLEAN, NEW t \in Transaction,
           tx' = [tx EXCEPT ![w] = t], IsFiniteSet(t.ins), s \notin TxSteps => t = NoTx,
           s \in RotateSteps, pc[w] \in RotateSteps, r.key = req[w].key,
           r.todo \subseteq DOMAIN r.key,
           s \in TxSteps \ {"rotate_commit"} => r.todo # {},
           s \in {"rotate_delete", "rotate_wait", "rotate_insert"} => r.next # 0
    PROVE  KeysInv'
<1>1. pc'[w] = s /\ req'[w] = r /\ tx'[w] = t
  BY KeepMoves DEF KeysInv, TypeOK
<1>2. Local(w) /\ Keyed(w)' = Keyed(w)
  BY <1>1 DEF KeysInv, Keyed
<1>3. s \notin ChannelSteps /\ s \notin GenerateSteps
      /\ s \notin {"create_role", "create_insert"} /\ s \notin {"create_keys", "create_store"}
  BY DEF RotateSteps, TxSteps, ChannelSteps, GenerateSteps
<1>4. Local(w)'
  BY <1>1, <1>2, <1>3 DEF Local
<1>5. s \in Steps \cup {"idle"}
  OBVIOUS
<1>6. QED
  BY <1>3, <1>4, <1>5, SlotKeeps

LEMMA RotateMembersTypes ==
    ASSUME KeysInv, NEW w \in Workers, RotateMembers(w) \/ RotateList(w)
    PROVE  KeysInv'
<1>1. pc[w] \in {"rotate_members", "rotate_list"} /\ UNCHANGED <<members, level, rows, made, local, tx>>
  BY RotateReads DEF server
<1>2. pc[w] \notin TxSteps /\ pc[w] \in GenerateSteps
  BY <1>1 DEF TxSteps, GenerateSteps
<1>3. CASE Goto(w, "rotate_list") /\ UNCHANGED <<req, calm>>
  <2>1. Keep(w, "rotate_list", req[w]) /\ req[w] \in Request /\ calm' \in BOOLEAN
    BY <1>3, Requests DEF Keep, KeysInv, TypeOK
  <2>2. "rotate_list" \in Steps /\ "rotate_list" \notin ChannelSteps
    BY DEF Steps, ChannelSteps
  <2>3. QED
    BY <1>1, <1>2, <2>1, <2>2, ReadKeeps
<1>4. ASSUME NEW L \in SUBSET Users, RotateTold(w, L) PROVE KeysInv'
  <2> DEFINE r == [req[w] EXCEPT !.list = L]
  <2>1. Keep(w, "rotate_channels", r) /\ calm' \in BOOLEAN
    BY <1>4 DEF RotateTold, KeysInv, TypeOK
  <2>2. r \in Request /\ r.key = req[w].key
    BY Requests DEF KeysInv, Request
  <2> HIDE DEF r
  <2>3. "rotate_channels" \in Steps /\ "rotate_channels" \notin ChannelSteps
    BY DEF Steps, ChannelSteps
  <2>4. QED
    BY <1>1, <1>2, <2>1, <2>2, <2>3, ReadKeeps
<1>5. QED
  BY <1>3, <1>4, RotateReads

LEMMA RotateChannelsTypes ==
    ASSUME KeysInv, NEW w \in Workers, RotateChannels(w) \/ RotateOpen(w)
    PROVE  KeysInv'
<1> DEFINE r(S) == [req[w] EXCEPT !.key = FreshKeys(S), !.todo = S]
<1>2. pc[w] \in {"rotate_channels", "rotate_open"}
      /\ UNCHANGED <<members, level, rows, local, tx, calm>>
  BY RotateOpens DEF server, KeysInv
<1>0. ASSUME NEW q \in Roles, Keep(w, "rotate_open", [req[w] EXCEPT !.as = q]), made' = made
      PROVE  KeysInv'
  <2> DEFINE p == [req[w] EXCEPT !.as = q]
  <2>1. p \in Request /\ p.key = req[w].key
    BY Requests DEF KeysInv, Request
  <2>2. Keep(w, "rotate_open", p)
    BY <1>0
  <2> HIDE DEF p
  <2>3. "rotate_open" \in Steps /\ "rotate_open" \notin ChannelSteps
        /\ pc[w] \notin TxSteps /\ pc[w] \in GenerateSteps /\ calm' \in BOOLEAN
    BY <1>2 DEF Steps, ChannelSteps, TxSteps, GenerateSteps, KeysInv, TypeOK
  <2>4. QED
    BY <1>0, <1>2, <2>1, <2>2, <2>3, ReadKeeps
<1> SUFFICES ASSUME \E S \in SUBSET DOMAIN level : Renew(w, S) PROVE KeysInv'
  BY <1>0, RotateOpens DEF KeysInv
<1>1. PICK S \in SUBSET DOMAIN level :
         Generate(S, req[w].list, "rotate") /\ Keep(w, "rotate_store", r(S))
  BY DEF Renew
<1>3. Len(level) \in Nat /\ Len(made) \in Nat /\ MaxChannels \in Nat /\ MaxKeys \in Nat
      /\ DOMAIN level = 1..Len(level) /\ DOMAIN level \subseteq Channels
      /\ Len(level) <= MaxChannels
  BY Domains, ChannelKeysAssumption DEF KeysInv, TypeOK
<1>4. IsFiniteSet(S) /\ Cardinality(S) \in Nat /\ Cardinality(S) <= MaxChannels
      /\ S \in SUBSET Nat
  <2>1. IsFiniteSet(1..MaxChannels) /\ Cardinality(1..MaxChannels) = MaxChannels
    BY <1>3, FS_Interval
  <2>2. S \subseteq 1..MaxChannels
    BY <1>3 DEF Channels
  <2>3. QED
    BY <2>1, <2>2, FS_Subset, FS_CardinalityType
<1>5. made' \in Seq(Key) /\ Len(made') = Len(made) + Cardinality(S)
  BY <1>1, <1>4, GenerateFacts, Requests DEF KeysInv, TypeOK
<1> DEFINE c == Cardinality(At(ChannelSteps))
           g == Cardinality(At(GenerateSteps))
<1>6. pc'[w] = "rotate_store" /\ req'[w] = r(S)
      /\ \A v \in Workers \ {w} : pc'[v] = pc[v] /\ req'[v] = req[v]
  BY <1>1, KeepMoves DEF KeysInv
<1>7. c \in Nat /\ c' \in Nat /\ c' <= c /\ g \in Nat /\ g' \in Nat /\ g' = g - 1
  <2>1. pc'[w] \notin ChannelSteps /\ pc[w] \in GenerateSteps /\ pc'[w] \notin GenerateSteps
    BY <1>2, <1>6 DEF ChannelSteps, GenerateSteps
  <2>2. QED
    BY <1>6, <2>1, Counting
<1>8. Len(level) + c <= MaxChannels /\ Len(made) + g * MaxChannels <= MaxKeys
  BY DEF KeysInv, Counted
<1> HIDE DEF c, g
<1>9. g' * MaxChannels \in Nat /\ g * MaxChannels = g' * MaxChannels + MaxChannels
  <2>1. (g' + 1) * MaxChannels = g' * MaxChannels + MaxChannels /\ g' * MaxChannels \in Nat
    BY <1>3, <1>7, Products
  <2>2. g = g' + 1
    BY <1>7
  <2>3. QED
    BY <2>1, <2>2
<1>10. Len(made') + g' * MaxChannels <= MaxKeys /\ Len(made) + Cardinality(S) <= MaxKeys
       /\ Len(level') + c' <= MaxChannels
  <2>1. Len(level') + c' <= MaxChannels
    BY <1>2, <1>3, <1>7, <1>8
  <2> DEFINE n == Cardinality(S)
             x == g' * MaxChannels
             y == g * MaxChannels
  <2>2. n \in Nat /\ n <= MaxChannels /\ x \in Nat /\ y = x + MaxChannels
        /\ Len(made) + y <= MaxKeys /\ Len(made') = Len(made) + n
    BY <1>4, <1>5, <1>8, <1>9
  <2> HIDE DEF n, x, y
  <2>3. Len(made') + x <= MaxKeys /\ Len(made) + n <= MaxKeys
    BY <1>3, <2>2
  <2>4. QED
    BY <2>1, <2>3 DEF n, x
<1>11. Counted'
  BY <1>10 DEF Counted, c, g
<1>12. FreshKeys(S) \in [S -> (Len(made) + 1)..(Len(made) + Cardinality(S))]
  BY <1>3, <1>4, FreshKeysFacts
<1>13. (Len(made) + 1)..(Len(made) + Cardinality(S)) \subseteq 1..MaxKeys
  BY <1>3, <1>4, <1>10
<1>14. r(S) \in Request
  <2>1. S \in SUBSET (0..MaxChannels) /\ S \in SUBSET Channels
    BY <1>3 DEF Channels
  <2>2. FreshKeys(S) \in KeyFunctions
    BY <1>12, <1>13, <2>1, KeyFunction
  <2>3. QED
    BY <2>1, <2>2, Requests DEF KeysInv, Request, KeyFunctions
<1>15. r(S).key = FreshKeys(S) /\ r(S).todo = S
  BY Requests DEF KeysInv, Request
<1>16. tx[w] = NoTx /\ tx' = [tx EXCEPT ![w] = tx[w]] /\ tx[w] \in Transaction
  BY <1>2, Requests DEF KeysInv, Local, TxSteps, TypeOK
<1>17. Local(w)'
  <2>1. Keyed(w)' \subseteq (Len(made) + 1)..(Len(made) + Cardinality(S))
    BY <1>6, <1>12, <1>15 DEF Keyed
  <2>2. (Len(made) + 1)..(Len(made) + Cardinality(S)) \subseteq DOMAIN made'
    BY <1>3, <1>4, <1>5
  <2>3. tx'[w] = NoTx /\ IsFiniteSet(tx'[w].ins)
    BY <1>2, <1>16, FS_EmptySet DEF NoTx
  <2>4. req'[w].todo = S /\ DOMAIN req'[w].key = S /\ DOMAIN level' = DOMAIN level
    BY <1>2, <1>6, <1>12, <1>15
  <2> HIDE DEF r
  <2>5. QED
    BY <1>6, <2>1, <2>2, <2>3, <2>4 DEF Local, RotateSteps, TxSteps
<1>18. "rotate_store" \in Steps \cup {"idle"} /\ Len(made) <= Len(made')
  BY <1>3, <1>4, <1>5 DEF Steps
<1>19. /\ role' \in [Users -> Roles \cup {"none"}] /\ changes' \in 0..MaxChanges
       /\ gone' \in SUBSET Users /\ dropped' \in BOOLEAN
       /\ level' \in Seq(Roles) /\ Len(level) <= Len(level') /\ rows' \subseteq Row
       /\ IsFiniteSet(rows') /\ local' \in Locals /\ calm' \in BOOLEAN
  BY <1>2, KeptTypes DEF KeysInv, TypeOK
<1>20. QED
  BY <1>1, <1>5, <1>11, <1>14, <1>16, <1>17, <1>18, <1>19, SlotMoves

LEMMA RotateStoreTypes ==
    ASSUME KeysInv, NEW w \in Workers, RotateStore(w)
    PROVE  KeysInv'
<1>1. pc[w] = "rotate_store" /\ pc[w] \in RotateSteps
      /\ UNCHANGED <<members, level, rows, made, tx, calm>>
  BY DEF RotateStore, server, RotateSteps
<1>2. tx[w] = NoTx /\ tx' = [tx EXCEPT ![w] = tx[w]] /\ NoTx \in Transaction
      /\ IsFiniteSet(NoTx.ins) /\ calm' \in BOOLEAN
  BY <1>1, Requests, FS_EmptySet DEF KeysInv, Local, TxSteps, TypeOK, NoTx
<1>3. CASE req[w].todo = {}
  <2> DEFINE r == [req[w] EXCEPT !.todo = DOMAIN req[w].key]
  <2>1. Keep(w, "rotate_role", r) /\ local' = local
    BY <1>3 DEF RotateStore
  <2>2. r \in Request /\ r.key = req[w].key /\ r.todo = DOMAIN req[w].key
    <3>1. DOMAIN req[w].key \subseteq Channels
      BY <1>1, Domains DEF KeysInv, Local
    <3>2. QED
      BY <3>1, Requests DEF KeysInv, Request
  <2> HIDE DEF r
  <2>3. "rotate_role" \in Steps /\ "rotate_role" \in RotateSteps /\ "rotate_role" \notin TxSteps
        /\ "rotate_role" \notin {"rotate_delete", "rotate_wait", "rotate_insert"}
    BY DEF Steps, RotateSteps, TxSteps
  <2>4. local' \in Locals /\ r.todo \subseteq DOMAIN r.key
    BY <2>1, <2>2, KeptTypes
  <2>5. QED
    BY <1>1, <1>2, <2>1, <2>2, <2>3, <2>4, RotateStepKeeps
<1>4. CASE req[w].todo # {}
  <2> DEFINE c == Min(req[w].todo)
             r == [req[w] EXCEPT !.todo = @ \ {c}]
  <2>1. local' = [local EXCEPT ![req[w].actor][c] = req[w].key[c]]
        /\ Keep(w, "rotate_store", r)
    BY <1>4 DEF RotateStore
  <2>2. c \in Channels /\ req[w].key[c] \in 1..MaxKeys /\ req[w].actor \in Users
    BY <1>1, <1>4, NextToRotate, Requests DEF Chan, KeysInv
  <2>3. r \in Request /\ r.key = req[w].key /\ r.todo \subseteq DOMAIN r.key
    <3>1. req[w].todo \subseteq DOMAIN req[w].key
      BY <1>1 DEF KeysInv, Local
    <3>2. QED
      BY <3>1, Requests DEF KeysInv, Request
  <2> HIDE DEF r, c
  <2>4. "rotate_store" \in Steps /\ "rotate_store" \in RotateSteps /\ "rotate_store" \notin TxSteps
        /\ "rotate_store" \notin {"rotate_delete", "rotate_wait", "rotate_insert"}
    BY DEF Steps, RotateSteps, TxSteps
  <2>5. local' \in Locals
    BY <2>1, <2>2, StoreTypes
  <2>6. QED
    BY <1>1, <1>2, <2>1, <2>3, <2>4, <2>5, RotateStepKeeps
<1>5. QED
  BY <1>3, <1>4

LEMMA RotateRoleTypes ==
    ASSUME KeysInv, NEW w \in Workers, RotateRole(w)
    PROVE  KeysInv'
<1>1. pc[w] = "rotate_role" /\ pc[w] \in RotateSteps
      /\ UNCHANGED <<members, level, rows, made, local>> /\ calm' \in BOOLEAN
  BY DEF RotateRole, server, RotateSteps, KeysInv, TypeOK
<1>2. local' \in Locals
  BY <1>1, KeptTypes
<1>3. CASE End(w)
  BY <1>1, <1>2, <1>3, EndKeeps
<1>4. CASE Goto(w, NextChannel(req[w].todo)) /\ UNCHANGED <<req, tx, calm>>
  <2> DEFINE s == NextChannel(req[w].todo)
  <2>1. Keep(w, s, req[w]) /\ req[w] \in Request /\ tx' = [tx EXCEPT ![w] = tx[w]]
    BY <1>4, Requests DEF Keep, KeysInv, TypeOK
  <2>2. tx[w] = NoTx /\ NoTx \in Transaction /\ IsFiniteSet(NoTx.ins)
        /\ req[w].todo \subseteq DOMAIN req[w].key
    BY <1>1, Requests, FS_EmptySet DEF KeysInv, Local, TxSteps, NoTx
  <2>3. s \in Steps /\ s \in RotateSteps
        /\ (s \in TxSteps \ {"rotate_commit"} => req[w].todo # {})
        /\ s \notin {"rotate_delete", "rotate_wait", "rotate_insert"}
    BY DEF NextChannel, Steps, RotateSteps, TxSteps
  <2> HIDE DEF s
  <2>4. QED
    BY <1>1, <1>2, <2>1, <2>2, <2>3, RotateStepKeeps
<1>5. QED
  BY <1>3, <1>4 DEF RotateRole

LEMMA RotateMaxTypes ==
    ASSUME KeysInv, NEW w \in Workers, RotateMax(w)
    PROVE  KeysInv'
<1> DEFINE r == [req[w] EXCEPT !.next = Top(Chan(w)) + 1]
<1>1. pc[w] = "rotate_max" /\ pc[w] \in RotateSteps /\ Keep(w, "rotate_delete", r)
      /\ UNCHANGED <<members, level, rows, made, local, tx, calm>>
  BY DEF RotateMax, server, RotateSteps, TxSteps
<1>2. Top(Chan(w)) \in Nat
  BY TopFacts DEF KeysInv, TypeOK
<1>3. r \in Request /\ r.key = req[w].key /\ r.todo = req[w].todo /\ r.next # 0
  BY <1>2, Requests DEF KeysInv, Request
<1> HIDE DEF r
<1>4. req[w].todo \subseteq DOMAIN req[w].key /\ req[w].todo # {} /\ IsFiniteSet(tx[w].ins)
      /\ tx[w] \in Transaction /\ tx' = [tx EXCEPT ![w] = tx[w]]
  BY <1>1, Requests DEF KeysInv, Local, TxSteps, TypeOK
<1>5. "rotate_delete" \in Steps /\ "rotate_delete" \in RotateSteps
      /\ "rotate_delete" \in TxSteps
  BY DEF Steps, RotateSteps, TxSteps
<1>6. local' \in Locals /\ calm' \in BOOLEAN
  BY <1>1, KeptTypes DEF KeysInv, TypeOK
<1>7. r.todo \subseteq DOMAIN r.key
  BY <1>3, <1>4
<1>8. QED
  BY <1>1, <1>3, <1>4, <1>5, <1>6, <1>7, RotateStepKeeps

LEMMA RotateDeleteTypes ==
    ASSUME KeysInv, NEW w \in Workers, RotateDelete(w)
    PROVE  KeysInv'
<1> DEFINE S == RowsOf(Chan(w))
<1>1. pc[w] = "rotate_delete" /\ pc[w] \in RotateSteps
      /\ UNCHANGED <<members, level, rows, made, local, req, calm>>
  BY DEF RotateDelete, server, RotateSteps, TxSteps
<1>2. /\ req[w].todo \subseteq DOMAIN req[w].key /\ req[w].todo # {} /\ req[w].next # 0
      /\ IsFiniteSet(tx[w].ins) /\ tx[w] \in Transaction /\ req[w] \in Request
  BY <1>1, Requests DEF KeysInv, Local, TxSteps
<1>3. local' \in Locals /\ calm' \in BOOLEAN
  BY <1>1, KeptTypes DEF KeysInv, TypeOK
<1>4. S \in SUBSET Row
  BY DEF RowsOf, KeysInv, TypeOK
<1> HIDE DEF S
<1>5. CASE Goto(w, "rotate_wait") /\ tx' = [tx EXCEPT ![w].seen = S]
  <2> DEFINE t == [tx[w] EXCEPT !.seen = S]
  <2>1. Keep(w, "rotate_wait", req[w]) /\ tx' = [tx EXCEPT ![w] = t]
    BY <1>1, <1>5 DEF Keep, KeysInv, TypeOK
  <2>2. t \in Transaction /\ IsFiniteSet(t.ins)
    BY <1>2, <1>4 DEF Transaction
  <2> HIDE DEF t
  <2>3. "rotate_wait" \in Steps /\ "rotate_wait" \in RotateSteps /\ "rotate_wait" \in TxSteps
    BY DEF Steps, RotateSteps, TxSteps
  <2>4. QED
    BY <1>1, <1>2, <1>3, <2>1, <2>2, <2>3, RotateStepKeeps
<1>6. CASE Goto(w, "rotate_insert") /\ tx' = [tx EXCEPT ![w].del = @ \cup S]
  <2> DEFINE t == [tx[w] EXCEPT !.del = @ \cup S]
  <2>1. Keep(w, "rotate_insert", req[w]) /\ tx' = [tx EXCEPT ![w] = t]
    BY <1>1, <1>6 DEF Keep, KeysInv, TypeOK
  <2>2. t \in Transaction /\ IsFiniteSet(t.ins)
    BY <1>2, <1>4 DEF Transaction
  <2> HIDE DEF t
  <2>3. "rotate_insert" \in Steps /\ "rotate_insert" \in RotateSteps
        /\ "rotate_insert" \in TxSteps
    BY DEF Steps, RotateSteps, TxSteps
  <2>4. QED
    BY <1>1, <1>2, <1>3, <2>1, <2>2, <2>3, RotateStepKeeps
<1>7. QED
  BY <1>5, <1>6 DEF RotateDelete, S

LEMMA RotateWaitTypes ==
    ASSUME KeysInv, NEW w \in Workers, RotateWait(w)
    PROVE  KeysInv'
<1> DEFINE t == [tx[w] EXCEPT !.del = @ \cup (tx[w].seen \cap rows), !.seen = {}]
<1>1. pc[w] = "rotate_wait" /\ pc[w] \in RotateSteps /\ Goto(w, "rotate_insert")
      /\ UNCHANGED <<members, level, rows, made, local, req, calm>>
  BY DEF RotateWait, server, RotateSteps, TxSteps
<1>2. /\ req[w].todo \subseteq DOMAIN req[w].key /\ req[w].todo # {} /\ req[w].next # 0
      /\ IsFiniteSet(tx[w].ins) /\ tx[w] \in Transaction /\ req[w] \in Request
  BY <1>1, Requests DEF KeysInv, Local, TxSteps
<1>3. local' \in Locals /\ calm' \in BOOLEAN
  BY <1>1, KeptTypes DEF KeysInv, TypeOK
<1>4. Keep(w, "rotate_insert", req[w])
  BY <1>1 DEF Keep, KeysInv, TypeOK
<1>5. tx' = [tx EXCEPT ![w] = t]
  BY DEF RotateWait, KeysInv, TypeOK
<1>6. t \in Transaction /\ IsFiniteSet(t.ins)
  BY <1>2 DEF Transaction, KeysInv, TypeOK
<1> HIDE DEF t
<1>7. "rotate_insert" \in Steps /\ "rotate_insert" \in RotateSteps
      /\ "rotate_insert" \in TxSteps
  BY DEF Steps, RotateSteps, TxSteps
<1>8. QED
  BY <1>1, <1>2, <1>3, <1>4, <1>5, <1>6, <1>7, RotateStepKeeps

\* The insert of a rotation goes on to the next channel, fails, or makes a row.
LEMMA Inserting ==
    ASSUME NEW w \in Workers, RotateInsert(w)
    PROVE  /\ pc[w] = "rotate_insert" /\ UNCHANGED <<members, server, made, local>>
           /\ \/ /\ Left(w) = {} /\ UNCHANGED <<tx, calm>>
                 /\ LET todo == req[w].todo \ {Chan(w)}
                    IN  Keep(w, NextChannel(todo), [req[w] EXCEPT !.todo = todo])
              \/ End(w) /\ calm' = FALSE
              \/ \E u \in Left(w) :
                    /\ u \in req[w].list /\ u \notin gone /\ UNCHANGED <<pc, req, calm>>
                    /\ tx' = [tx EXCEPT ![w].ins = @ \cup NewRows(w, {u})]
<1>1. Left(w) \subseteq req[w].list
  BY DEF Left
<1>2. QED
  BY <1>1 DEF RotateInsert, Lost

LEMMA RotateInsertTypes ==
    ASSUME KeysInv, NEW w \in Workers, RotateInsert(w)
    PROVE  KeysInv'
<1>1. pc[w] = "rotate_insert" /\ pc[w] \in RotateSteps
      /\ UNCHANGED <<members, level, rows, made, local>>
  BY Inserting DEF server, RotateSteps, TxSteps
<1>2. local' \in Locals /\ calm \in BOOLEAN
  BY <1>1, KeptTypes DEF KeysInv, TypeOK
<1>3. /\ req[w].todo \subseteq DOMAIN req[w].key /\ IsFiniteSet(tx[w].ins)
      /\ tx[w] \in Transaction /\ req[w] \in Request /\ req[w].todo # {} /\ req[w].next # 0
  BY <1>1, Requests DEF KeysInv, Local, TxSteps
<1>4. CASE End(w) /\ calm' = FALSE
  BY <1>1, <1>2, <1>4, EndKeeps
<1>5. ASSUME UNCHANGED <<tx, calm>>,
             LET todo == req[w].todo \ {Chan(w)}
             IN  Keep(w, NextChannel(todo), [req[w] EXCEPT !.todo = todo])
      PROVE  KeysInv'
  <2> DEFINE todo == req[w].todo \ {Chan(w)}
             r == [req[w] EXCEPT !.todo = todo]
             s == NextChannel(todo)
  <2>1. r \in Request /\ r.key = req[w].key /\ r.todo = todo /\ r.todo \subseteq DOMAIN r.key
    BY <1>3, Requests DEF KeysInv, Request
  <2>2. s \in Steps /\ s \in RotateSteps /\ s \in TxSteps
        /\ (s \in TxSteps \ {"rotate_commit"} => r.todo # {})
        /\ s \notin {"rotate_delete", "rotate_wait", "rotate_insert"}
    BY <2>1 DEF NextChannel, Steps, RotateSteps, TxSteps
  <2>3. Keep(w, s, r) /\ tx' = [tx EXCEPT ![w] = tx[w]] /\ calm' \in BOOLEAN
    BY <1>2, <1>5 DEF KeysInv, TypeOK
  <2> HIDE DEF s, r, todo
  <2>4. QED
    BY <1>1, <1>2, <1>3, <2>1, <2>2, <2>3, RotateStepKeeps
<1>6. ASSUME NEW u \in req[w].list, UNCHANGED <<pc, req, calm>>,
             tx' = [tx EXCEPT ![w].ins = @ \cup NewRows(w, {u})]
      PROVE  KeysInv'
  <2> DEFINE t == [tx[w] EXCEPT !.ins = @ \cup NewRows(w, {u})]
  <2>1. tx' = [tx EXCEPT ![w] = t]
    BY <1>6 DEF KeysInv, TypeOK
  <2>2. NewRows(w, {u}) \subseteq Row /\ IsFiniteSet(NewRows(w, {u}))
    <3>1. {u} \in SUBSET req[w].list
      OBVIOUS
    <3>2. QED
      BY <1>1, <3>1, NewRowsTypes
  <2>3. t.ins = tx[w].ins \cup NewRows(w, {u}) /\ t \in Transaction
    BY <1>3, <2>2 DEF Transaction
  <2>4. IsFiniteSet(t.ins)
    BY <1>3, <2>2, <2>3, FS_Union
  <2>5. Keep(w, "rotate_insert", req[w]) /\ calm' \in BOOLEAN
    BY <1>1, <1>2, <1>6 DEF Keep, Goto, KeysInv, TypeOK
  <2>6. "rotate_insert" \in Steps /\ "rotate_insert" \in RotateSteps
        /\ "rotate_insert" \in TxSteps
    BY DEF Steps, RotateSteps, TxSteps
  <2> HIDE DEF t
  <2>7. QED
    BY <1>1, <1>2, <1>3, <2>1, <2>3, <2>4, <2>5, <2>6, RotateStepKeeps
<1>7. QED
  BY <1>4, <1>5, <1>6, Inserting

LEMMA RotateCommitTypes ==
    ASSUME KeysInv, NEW w \in Workers, RotateCommit(w)
    PROVE  KeysInv'
<1> DEFINE ks == {req[w].key[c] : c \in DOMAIN req[w].key}
<1>1. /\ pc[w] = "rotate_commit" /\ rows' = (rows \ tx[w].del) \cup tx[w].ins
      /\ Uploaded(ks) /\ End(w) /\ UNCHANGED <<members, level, local, calm>>
  BY DEF RotateCommit
<1> HIDE DEF ks
<1>2. made' \in Seq(Key) /\ Len(made') = Len(made)
  BY <1>1, UploadedFacts DEF KeysInv, TypeOK
<1>3. rows' \subseteq Row /\ IsFiniteSet(rows')
  <2>1. rows \ tx[w].del \subseteq rows /\ IsFiniteSet(tx[w].ins) /\ tx[w].ins \subseteq Row
    BY Requests DEF KeysInv, Local, Transaction
  <2>2. IsFiniteSet(rows \ tx[w].del)
    BY <2>1, FS_Subset DEF KeysInv
  <2>3. IsFiniteSet((rows \ tx[w].del) \cup tx[w].ins)
    BY <2>1, <2>2, FS_Union
  <2>4. QED
    BY <1>1, <2>1, <2>3 DEF KeysInv, TypeOK
<1>4. /\ Keep(w, "idle", Idle) /\ tx' = [tx EXCEPT ![w] = NoTx]
      /\ Idle \in Request /\ NoTx \in Transaction
  BY <1>1, Requests DEF End
<1>5. pc'[w] = "idle" /\ req'[w] = Idle /\ tx'[w] = NoTx
      /\ \A v \in Workers \ {w} : pc'[v] = pc[v] /\ req'[v] = req[v] /\ tx'[v] = tx[v]
  BY <1>4, KeepMoves DEF KeysInv, TypeOK
<1>6. Local(w)'
  <2>1. Keyed(w)' = {}
    BY <1>5 DEF Keyed, Idle
  <2>2. IsFiniteSet(tx'[w].ins)
    BY <1>5, FS_EmptySet DEF NoTx
  <2>3. QED
    BY <1>5, <2>1, <2>2 DEF Local, RotateSteps, TxSteps
<1>7. Counted'
  <2>1. Alone(w) /\ "idle" \notin ChannelSteps /\ "idle" \notin GenerateSteps
    BY <1>5 DEF Alone, ChannelSteps, GenerateSteps
  <2>2. QED
    BY <1>1, <1>2, <1>5, <2>1, CountedKept
<1>8. "idle" \in Steps \cup {"idle"} /\ Len(made) <= Len(made')
  BY <1>2, Domains DEF KeysInv
<1>9. /\ role' \in [Users -> Roles \cup {"none"}] /\ changes' \in 0..MaxChanges
      /\ gone' \in SUBSET Users /\ dropped' \in BOOLEAN
      /\ level' \in Seq(Roles) /\ Len(level) <= Len(level')
      /\ local' \in Locals /\ calm' \in BOOLEAN
  BY <1>1, KeptTypes DEF KeysInv, TypeOK
<1>10. QED
  BY <1>2, <1>3, <1>4, <1>6, <1>7, <1>8, <1>9, SlotMoves

LEMMA LeaveClearTypes ==
    ASSUME KeysInv, NEW w \in Workers, LeaveClear(w)
    PROVE  KeysInv'
<1>1. /\ UNCHANGED <<members, level, rows, made>> /\ End(w) /\ calm' \in BOOLEAN
      /\ local' = [local EXCEPT ![req[w].actor] = [c \in Channels |-> 0]]
  BY DEF LeaveClear, members, server, KeysInv, TypeOK
<1>2. local' \in Locals
  <2>1. [c \in Channels |-> 0] \in [Channels -> 0..MaxKeys]
    BY ChannelKeysAssumption
  <2>2. local \in Locals
    BY DEF KeysInv, TypeOK, Locals
  <2>3. QED
    BY <1>1, <2>1, <2>2 DEF Locals
<1>3. QED
  BY <1>1, <1>2, EndKeeps

LEMMA CutOffTypes ==
    ASSUME KeysInv, NEW w \in Workers, CutOff(w) \/ Deadlock(w)
    PROVE  KeysInv'
<1>1. UNCHANGED <<members, level, rows, made>> /\ End(w) /\ calm' \in BOOLEAN
      /\ local' = local
  BY DEF CutOff, Deadlock, server
<1>2. local' \in Locals
  BY <1>1, KeptTypes
<1>3. QED
  BY <1>1, <1>2, EndKeeps

\* Where no call moves, the rest may lose rows and members.
LEMMA OthersKeep ==
    ASSUME KeysInv, UNCHANGED <<level, made, local, pc, req, tx>>, rows' \subseteq rows,
           role' \in [Users -> Roles \cup {"none"}], changes' \in 0..MaxChanges,
           gone' \in SUBSET Users, dropped' \in BOOLEAN, calm' \in BOOLEAN
    PROVE  KeysInv'
<1>1. TypeOK'
  BY DEF KeysInv, TypeOK
<1>2. IsFiniteSet(rows')
  BY FS_Subset DEF KeysInv
<1>3. At(ChannelSteps)' = At(ChannelSteps) /\ At(GenerateSteps)' = At(GenerateSteps)
  BY DEF At
<1>4. Counted'
  BY <1>3 DEF KeysInv, Counted
<1>5. ASSUME NEW w \in Workers PROVE Local(w)'
  <2>1. Local(w) /\ Keyed(w)' = Keyed(w)
    BY DEF KeysInv, Keyed
  <2>2. QED
    BY <2>1 DEF Local
<1>6. QED
  BY <1>1, <1>2, <1>4, <1>5 DEF KeysInv

LEMMA OtherRoutesTypes ==
    ASSUME KeysInv, OtherRoutes \/ DeleteAccount \/ DropServer
    PROVE  KeysInv'
<1>1. UNCHANGED <<level, made, local, pc, req, tx>> /\ rows' \subseteq rows
  BY DEF OtherRoutes, DeleteAccount, DropServer, server
<1>2. changes' \in 0..MaxChanges
  BY ChannelKeysAssumption DEF OtherRoutes, DeleteAccount, DropServer, KeysInv, TypeOK
<1>3. calm' \in BOOLEAN /\ gone' \in SUBSET Users /\ dropped' \in BOOLEAN
  BY DEF OtherRoutes, DeleteAccount, DropServer, KeysInv, TypeOK
<1>4. role' \in [Users -> Roles \cup {"none"}]
  <2>1. CASE DropServer
    BY <2>1 DEF DropServer, Drop
  <2>2. CASE OtherRoutes \/ DeleteAccount
    <3>1. PICK u \in Users, r \in Roles \cup {"none"} : role' = [role EXCEPT ![u] = r]
      BY <2>2 DEF OtherRoutes, DeleteAccount, Join, Remove, SetRole, Put, Roles
    <3>2. QED
      BY <3>1 DEF KeysInv, TypeOK
  <2>3. QED
    BY <2>1, <2>2
<1>5. QED
  BY <1>1, <1>2, <1>3, <1>4, OthersKeep

LEMMA KeysInvInit == ASSUME Init PROVE KeysInv
<1>1. TypeOK
  <2>1. level = << >> /\ Len(level) = 0 /\ made = << >> /\ Len(made) = 0 /\ rows = {}
    BY DEF Init
  <2>2. role \in [Users -> Roles \cup {"none"}] /\ local \in Locals
        /\ pc \in [Workers -> Steps \cup {"idle"}]
    BY ChannelKeysAssumption DEF Init, Roles, Locals
  <2>3. req \in [Workers -> Request] /\ tx \in [Workers -> Transaction]
    BY Requests DEF Init
  <2>4. changes \in 0..MaxChanges /\ calm \in BOOLEAN
    BY ChannelKeysAssumption DEF Init
  <2>5. gone \subseteq Users /\ dropped \in BOOLEAN
    BY DEF Init
  <2>6. QED
    BY <2>1, <2>2, <2>3, <2>4, <2>5, ChannelKeysAssumption DEF TypeOK, Locals, Transaction
<1>2. IsFiniteSet(rows)
  BY FS_EmptySet DEF Init
<1>3. Counted
  <2>1. At(ChannelSteps) = {} /\ At(GenerateSteps) = {}
    BY DEF Init, At, ChannelSteps, GenerateSteps
  <2>2. Cardinality(At(ChannelSteps)) = 0 /\ Cardinality(At(GenerateSteps)) = 0
    BY <2>1, FS_EmptySet
  <2>3. Len(level) = 0 /\ Len(made) = 0 /\ MaxChannels \in Nat /\ MaxKeys \in Nat
    BY ChannelKeysAssumption DEF Init
  <2>4. QED
    BY <2>2, <2>3 DEF Counted
<1>4. ASSUME NEW w \in Workers PROVE Local(w)
  <2>1. pc[w] = "idle" /\ tx[w] = NoTx /\ Keyed(w) = {}
    BY DEF Init, Keyed, Idle
  <2>2. IsFiniteSet(tx[w].ins)
    BY <2>1, FS_EmptySet DEF NoTx
  <2>3. QED
    BY <2>1, <2>2 DEF Local, RotateSteps, TxSteps
<1>5. QED
  BY <1>1, <1>2, <1>3, <1>4 DEF KeysInv

LEMMA KeysInvNext == ASSUME KeysInv, [Next]_vars PROVE KeysInv'
<1>1. CASE UNCHANGED vars
  <2>1. UNCHANGED <<role, gone, dropped, changes, level, rows, made, local, pc, req, tx, calm>>
    BY <1>1 DEF vars, server
  <2>2. QED
    BY <2>1, OthersKeep DEF KeysInv, TypeOK
<1>2. ASSUME NEW w \in Workers, Step(w) PROVE KeysInv'
  BY <1>2, CreateMembersTypes, CreateRoleTypes, CreateInsertTypes, CreateKeysTypes,
     CreateStoreTypes, RotateMembersTypes, RotateChannelsTypes, RotateStoreTypes,
     RotateRoleTypes, RotateMaxTypes, RotateDeleteTypes, RotateWaitTypes, RotateInsertTypes,
     CutOffTypes, RotateCommitTypes, LeaveClearTypes
     DEF Step
<1>3. QED
  BY <1>1, <1>2, BeginTypes, StartLeaveTypes, CutOffTypes, OtherRoutesTypes DEF Next

\* The types hold throughout, however calls overlap: what RoomForChannel and
\* RoomForKeys leave is enough for every channel and key a call goes on to make.
THEOREM KeysTypes == Spec => []TypeOK
<1>1. Init => KeysInv
  BY KeysInvInit
<1>2. KeysInv /\ [Next]_vars => KeysInv'
  BY KeysInvNext
<1>3. KeysInv => TypeOK
  BY DEF KeysInv
<1>4. QED
  BY <1>1, <1>2, <1>3, PTL DEF Spec

-----------------------------------------------------------------------------
(* Rotations.  The rows that a transaction deletes or waits for are the     *)
(* whole of what is left of a finished rotation or nothing of it; the rows  *)
(* it inserts are one for each of its recipients in each channel it has     *)
(* passed, and their accounts are there: DELETE of an account waits for it. *)

\* The keys of creations and of rotations that have ended.
Settled == DOMAIN made \ UNION {Keyed(w) : w \in At(RotateSteps)}
Splits(T, k) == \/ \A r \in rows : r.key = k => r \in T
                \/ \A r \in rows : r.key = k => r \notin T
Whole(T) ==
    /\ \A r \in T : r.key \in Settled
    /\ \A k \in DOMAIN made : made[k].by = "rotate" => Splits(T, k)

Rotates(w) ==
    \A c \in DOMAIN req[w].key :
       /\ made[req[w].key[c]].by = "rotate" /\ made[req[w].key[c]].for = req[w].list
       /\ \A d \in DOMAIN req[w].key : req[w].key[d] = req[w].key[c] => d = c
Inserts(w) ==
    /\ \A r \in tx[w].ins :
          /\ r.chan \in DOMAIN req[w].key
          /\ r.chan \in req[w].todo => pc[w] = "rotate_insert" /\ r.chan = Chan(w)
          /\ r.key = req[w].key[r.chan] /\ r.user \in req[w].list
    /\ \A c \in DOMAIN req[w].key \ req[w].todo, u \in req[w].list :
          \E r \in tx[w].ins : r.chan = c /\ r.user = u

Slot(w) ==
    /\ pc[w] \in CreateSteps => \A k \in Keyed(w) : made[k].by = "create"
    /\ pc[w] \in RotateSteps => Rotates(w)
    /\ pc[w] = "rotate_role" => req[w].todo = DOMAIN req[w].key
    /\ pc[w] \in TxSteps => Inserts(w)
    /\ \A r \in tx[w].ins : r.user \notin gone
    /\ Whole(tx[w].del) /\ Whole(tx[w].seen)

OneChannel == \A r, q \in rows : r.key = q.key /\ made[r.key].by = "rotate" => r.chan = q.chan
Apart == \A w, v \in Workers : w # v => Keyed(w) \cap Keyed(v) = {}

RotationInv ==
    /\ RotationWhole /\ OneChannel /\ Apart
    /\ \A r \in rows : r.key \in Settled /\ r.user \notin gone
    /\ \A w \in Workers : Slot(w)

\* Keys remain whose and for whom they are.
SameKeys == /\ DOMAIN made \subseteq DOMAIN made'
            /\ \A k \in DOMAIN made : made'[k].by = made[k].by /\ made'[k].for = made[k].for

\* No rotation takes up a key that there was.
LEMMA SettledGrows ==
    ASSUME NEW w \in Workers, Alone(w), DOMAIN made \subseteq DOMAIN made',
           pc'[w] \in RotateSteps => \/ pc[w] \in RotateSteps /\ Keyed(w)' \subseteq Keyed(w)
                                     \/ Keyed(w)' \cap DOMAIN made = {}
    PROVE  Settled \subseteq Settled'
<1> SUFFICES ASSUME NEW k \in Settled PROVE k \in Settled'
  OBVIOUS
<1>1. k \in DOMAIN made /\ \A v \in Workers : pc[v] \in RotateSteps => k \notin Keyed(v)
  BY DEF Settled, At
<1>2. ASSUME NEW v \in Workers, pc'[v] \in RotateSteps PROVE k \notin Keyed(v)'
  <2>1. CASE v = w
    BY <1>1, <1>2, <2>1
  <2>2. CASE v # w
    <3>1. pc'[v] = pc[v] /\ req'[v] = req[v]
      BY <2>2 DEF Alone
    <3>2. Keyed(v)' = Keyed(v)
      BY <3>1 DEF Keyed
    <3>3. QED
      BY <1>1, <1>2, <3>1, <3>2
  <2>3. QED
    BY <2>1, <2>2
<1>3. QED
  BY <1>1, <1>2 DEF Settled, At

\* A set of rows that takes rotations whole still does.
LEMMA WholeKept ==
    ASSUME NEW T, Whole(T), rows' \subseteq rows, \A r \in rows : r.key \in Settled,
           SameKeys, Settled \subseteq Settled'
    PROVE  Whole(T)'
<1>1. \A r \in rows : r.key \in DOMAIN made
  BY DEF Settled
<1>2. \A r \in T : r.key \in Settled'
  BY DEF Whole
<1>3. ASSUME NEW k \in DOMAIN made', made'[k].by = "rotate" PROVE Splits(T, k)'
  <2>1. CASE k \in DOMAIN made
    BY <1>3, <2>1 DEF Whole, Splits, SameKeys
  <2>2. CASE k \notin DOMAIN made
    BY <1>1, <2>2 DEF Splits
  <2>3. QED
    BY <2>1, <2>2
<1>4. QED
  BY <1>2, <1>3 DEF Whole

\* Sets of rows that take rotations whole.
LEMMA WholeSets ==
    /\ Whole({})
    /\ \A T, U : Whole(T) /\ Whole(U) => Whole(T \cup U) /\ Whole(T \cup (U \cap rows))
    /\ RotationInv => \A c : Whole(RowsOf(c))
<1>1. Whole({})
  BY DEF Whole, Splits
<1>2. ASSUME NEW T, NEW U, Whole(T), Whole(U)
      PROVE  Whole(T \cup U) /\ Whole(T \cup (U \cap rows))
  BY <1>2 DEF Whole, Splits
<1>3. ASSUME RotationInv, NEW c PROVE Whole(RowsOf(c))
  BY <1>3 DEF RotationInv, OneChannel, Whole, Splits, RowsOf
<1>4. QED
  BY <1>1, <1>2, <1>3

\* Steps of slot w that leave the rows alone.
LEMMA RotationMoves ==
    ASSUME KeysInv, RotationInv, gone' = gone, NEW w \in Workers, Alone(w), rows' = rows, SameKeys,
           Settled \subseteq Settled',
           Keyed(w)' \subseteq Keyed(w) \/ Keyed(w)' \cap DOMAIN made = {}, Slot(w)'
    PROVE  RotationInv'
<1>1. \A r \in rows : r.key \in Settled /\ r.key \in DOMAIN made
  BY DEF RotationInv, Settled
<1>2. RotationWhole'
  <2> SUFFICES ASSUME NEW k \in DOMAIN made', made'[k].by = "rotate"
               PROVE  Holders(k)' \in {{}, made'[k].for \ gone}
    BY DEF RotationWhole
  <2>1. Holders(k)' = Holders(k)
    BY DEF Holders
  <2>2. CASE k \in DOMAIN made
    BY <2>1, <2>2 DEF RotationInv, RotationWhole, SameKeys
  <2>3. CASE k \notin DOMAIN made
    BY <1>1, <2>1, <2>3 DEF Holders
  <2>4. QED
    BY <2>2, <2>3
<1>3. OneChannel'
  BY <1>1 DEF RotationInv, OneChannel, SameKeys
<1>4. \A v \in Workers \ {w} : Keyed(v)' = Keyed(v) /\ Keyed(v) \subseteq DOMAIN made
  BY DEF Alone, Keyed, KeysInv, Local
<1>5. Apart'
  <2>1. \A v \in Workers \ {w} : Keyed(v)' \cap Keyed(w)' = {}
    BY <1>4 DEF RotationInv, Apart
  <2>2. QED
    BY <1>4, <2>1 DEF RotationInv, Apart
<1>6. \A r \in rows' : r.key \in Settled' /\ r.user \notin gone'
  BY <1>1 DEF RotationInv
<1>7. ASSUME NEW v \in Workers, v # w PROVE Slot(v)'
  <2>1. pc'[v] = pc[v] /\ req'[v] = req[v] /\ tx'[v] = tx[v] /\ Slot(v)
    BY <1>7 DEF Alone, RotationInv
  <2>2. Whole(tx[v].del)' /\ Whole(tx[v].seen)'
    <3>1. PICK T, U : T = tx[v].del /\ U = tx[v].seen
      OBVIOUS
    <3>2. Whole(T) /\ Whole(U)
      BY <2>1, <3>1 DEF Slot
    <3>3. Whole(T)' /\ Whole(U)'
      BY <1>1, <3>2, WholeKept
    <3>4. T = tx'[v].del /\ U = tx'[v].seen
      BY <2>1, <3>1
    <3>5. QED
      BY <3>3, <3>4 DEF Whole, Splits
  <2>3. \A k \in Keyed(v) : k \in DOMAIN made
    BY <1>4, <1>7
  <2>4. Keyed(v)' = Keyed(v)
    BY <1>4, <1>7
  <2>5. Rotates(v) => Rotates(v)'
    <3>1. \A c \in DOMAIN req[v].key : req[v].key[c] \in DOMAIN made
      BY <2>3 DEF Keyed
    <3>2. QED
      BY <2>1, <3>1 DEF Rotates, SameKeys
  <2>6. Inserts(v) => Inserts(v)'
    BY <2>1 DEF Inserts, Chan
  <2>7. \A k \in Keyed(v) : made'[k].by = made[k].by
    BY <2>3 DEF SameKeys
  <2>8. QED
    BY <2>1, <2>2, <2>4, <2>5, <2>6, <2>7 DEF Slot
<1>8. QED
  BY <1>2, <1>3, <1>5, <1>6, <1>7 DEF RotationInv

\* What slot w is at after a step.
LEMMA Moved ==
    ASSUME KeysInv, NEW w \in Workers, NEW s, NEW r, NEW t, Keep(w, s, r),
           tx' = [tx EXCEPT ![w] = t]
    PROVE  pc'[w] = s /\ req'[w] = r /\ tx'[w] = t /\ Alone(w)
  BY KeepMoves DEF KeysInv, TypeOK, Alone

\* The same keys, some of them taken in.
LEMMA SameKeysKept ==
    ASSUME KeysInv, made' = made \/ \E ks : Uploaded(ks)
    PROVE  SameKeys /\ DOMAIN made' = DOMAIN made
<1>1. CASE made' = made
  BY <1>1 DEF SameKeys
<1>2. ASSUME NEW ks, Uploaded(ks) PROVE SameKeys /\ DOMAIN made' = DOMAIN made
  <2>1. made \in Seq(Key) /\ DOMAIN made = 1..Len(made) /\ Len(made) \in Nat
    BY Domains DEF KeysInv, TypeOK
  <2>2. /\ made' \in Seq(Key) /\ Len(made') = Len(made)
        /\ \A k \in 1..Len(made) : made'[k].for = made[k].for /\ made'[k].by = made[k].by
    BY <1>2, <2>1, UploadedFacts
  <2>3. DOMAIN made' = 1..Len(made)
    BY <2>2
  <2>4. QED
    BY <2>1, <2>2, <2>3 DEF SameKeys
<1>3. QED
  BY <1>1, <1>2

\* The call of slot w ends, or one starts there: it has no keys and no rows.
LEMMA RotationEmpty ==
    ASSUME KeysInv, RotationInv, gone' = gone, NEW w \in Workers, Alone(w), UNCHANGED <<rows, made>>,
           pc'[w] \notin CreateSteps, pc'[w] \notin RotateSteps, DOMAIN req'[w].key = {},
           tx'[w] = NoTx
    PROVE  RotationInv'
<1>1. SameKeys
  BY SameKeysKept
<1>2. Keyed(w)' = {}
  BY DEF Keyed
<1>3. Settled \subseteq Settled'
  BY <1>1, SettledGrows DEF SameKeys
<1>4. Slot(w)'
  <2>1. "rotate_role" \in RotateSteps /\ TxSteps \subseteq RotateSteps
    BY DEF RotateSteps
  <2>2. Whole(tx[w].del)' /\ Whole(tx[w].seen)'
    BY DEF Whole, Splits, NoTx
  <2>3. tx'[w].ins = {}
    BY DEF NoTx
  <2>4. QED
    BY <2>1, <2>2, <2>3 DEF Slot
<1>5. QED
  BY <1>1, <1>2, <1>3, <1>4, RotationMoves

LEMMA RotationEnds ==
    ASSUME KeysInv, RotationInv, gone' = gone, NEW w \in Workers, End(w), UNCHANGED <<rows, made>>
    PROVE  RotationInv'
<1>1. pc'[w] = "idle" /\ req'[w] = Idle /\ tx'[w] = NoTx /\ Alone(w)
  BY Moved DEF End
<1>2. "idle" \notin CreateSteps /\ "idle" \notin RotateSteps /\ DOMAIN Idle.key = {}
  BY DEF CreateSteps, RotateSteps, TxSteps, Idle
<1>3. QED
  BY <1>1, <1>2, RotationEmpty

LEMMA BeginRotation ==
    ASSUME KeysInv, RotationInv, gone' = gone, NEW w \in Workers,
           StartCreate(w) \/ StartGeneral(w) \/ StartRotate(w) \/ StartLeave(w)
    PROVE  RotationInv'
<1>1. PICK first \in {"create_members", "rotate_members", "leave_clear"}, r \in Request :
         Keep(w, first, r) /\ DOMAIN r.key = {}
  <2>1. ASSUME NEW u \in Users, StartLeave(w),
               Keep(w, "leave_clear", [Idle EXCEPT !.actor = u, !.op = "leave"])
        PROVE  \E r \in Request : Keep(w, "leave_clear", r) /\ DOMAIN r.key = {}
    <3> DEFINE r == [Idle EXCEPT !.actor = u, !.op = "leave"]
    <3>1. r \in Request /\ DOMAIN r.key = {}
      <4>1. r.key = << >>
        BY DEF Idle
      <4>2. DOMAIN << >> = {}
        OBVIOUS
      <4>3. r \in Request
        BY Requests DEF Request, Idle, Calls
      <4>4. QED
        BY <4>1, <4>2, <4>3
    <3>2. Keep(w, "leave_clear", r)
      BY <2>1
    <3> HIDE DEF r
    <3>3. QED
      BY <3>1, <3>2
  <2>2. ASSUME NEW u \in Users, NEW op \in Calls, NEW opens \in Roles, NEW first,
               Keep(w, first, [Idle EXCEPT !.actor = u, !.op = op, !.opens = opens])
        PROVE  \E r \in Request : Keep(w, first, r) /\ DOMAIN r.key = {}
    <3> DEFINE r == [Idle EXCEPT !.actor = u, !.op = op, !.opens = opens]
    <3>1. r \in Request /\ DOMAIN r.key = {}
      <4>1. r.key = << >>
        BY DEF Idle
      <4>2. DOMAIN << >> = {}
        OBVIOUS
      <4>3. r \in Request
        BY Requests DEF Request, Idle, Calls
      <4>4. QED
        BY <4>1, <4>2, <4>3
    <3>2. Keep(w, first, r)
      BY <2>2
    <3> HIDE DEF r
    <3>3. QED
      BY <3>1, <3>2
  <2>3. \/ \E u \in Users : Keep(w, "leave_clear", [Idle EXCEPT !.actor = u, !.op = "leave"])
                            /\ StartLeave(w)
        \/ \E u \in Users, op \in Calls, first \in {"create_members", "rotate_members"},
              opens \in Roles :
                 Keep(w, first, [Idle EXCEPT !.actor = u, !.op = op, !.opens = opens])
    BY ChannelKeysAssumption
       DEF StartCreate, StartGeneral, StartRotate, StartLeave, Begin, Calls, Roles
  <2>4. QED
    BY <2>1, <2>2, <2>3
<1>2. pc[w] = "idle" /\ UNCHANGED <<rows, made, tx>>
  BY DEF StartCreate, StartGeneral, StartRotate, StartLeave, Begin, server
<1>3. tx[w] = NoTx /\ tx' = [tx EXCEPT ![w] = NoTx]
  BY <1>2 DEF KeysInv, Local, TxSteps, TypeOK
<1>4. pc'[w] = first /\ req'[w] = r /\ tx'[w] = NoTx /\ Alone(w)
  BY <1>1, <1>3, Moved
<1>5. first \notin CreateSteps /\ first \notin RotateSteps
  BY DEF CreateSteps, RotateSteps, TxSteps
<1>6. QED
  BY <1>1, <1>2, <1>4, <1>5, RotationEmpty

\* A step of slot w that keeps its keys, its list and its transaction's rows.
LEMMA RotationGoesOn ==
    ASSUME KeysInv, RotationInv, gone' = gone, NEW w \in Workers, Alone(w), rows' = rows,
           made' = made \/ \E ks : Uploaded(ks), tx'[w] = tx[w], pc[w] # "rotate_insert",
           req'[w].list = req[w].list, Keyed(w)' = Keyed(w),
           pc'[w] \in CreateSteps => pc[w] \in CreateSteps,
           pc'[w] \in RotateSteps => pc[w] \in RotateSteps /\ req'[w].key = req[w].key,
           pc'[w] = "rotate_role" => req'[w].todo = DOMAIN req'[w].key,
           pc'[w] \in TxSteps => \/ pc[w] \in TxSteps /\ req'[w].todo = req[w].todo
                                 \/ pc[w] = "rotate_role" /\ req'[w].todo = req[w].todo
    PROVE  RotationInv'
<1>1. SameKeys /\ DOMAIN made' = DOMAIN made
  BY SameKeysKept
<1>2. Settled \subseteq Settled'
  BY <1>1, SettledGrows
<1>3. Slot(w) /\ \A r \in rows : r.key \in Settled
  BY DEF RotationInv
<1>4. Keyed(w) \subseteq DOMAIN made
  BY DEF KeysInv, Local
<1>5. Slot(w)'
  <2>1. pc'[w] \in CreateSteps => \A k \in Keyed(w)' : made'[k].by = "create"
    BY <1>1, <1>3, <1>4 DEF Slot, SameKeys
  <2>2. pc'[w] \in RotateSteps => Rotates(w)'
    <3>1. \A c \in DOMAIN req[w].key : req[w].key[c] \in DOMAIN made
      BY <1>4 DEF Keyed
    <3>2. QED
      BY <1>1, <1>3, <3>1 DEF Slot, Rotates, SameKeys
  <2>3. pc'[w] \in TxSteps => Inserts(w)'
    <3>1. ASSUME pc'[w] \in TxSteps PROVE Inserts(w)'
      <4>1. req'[w].key = req[w].key /\ req'[w].todo = req[w].todo
        BY <3>1 DEF RotateSteps
      <4>2. CASE pc[w] \in TxSteps
        BY <1>3, <4>1, <4>2 DEF Slot, Inserts
      <4>3. CASE pc[w] = "rotate_role"
        <5>1. tx[w].ins = {} /\ req[w].todo = DOMAIN req[w].key
          BY <1>3, <4>3 DEF Slot, KeysInv, Local, TxSteps, NoTx
        <5>2. QED
          BY <4>1, <5>1 DEF Inserts
      <4>4. QED
        BY <3>1, <4>2, <4>3
    <3>2. QED
      BY <3>1
  <2>4. Whole(tx[w].del)' /\ Whole(tx[w].seen)'
    <3>1. PICK T, U : T = tx[w].del /\ U = tx[w].seen
      OBVIOUS
    <3>2. Whole(T) /\ Whole(U)
      BY <1>3, <3>1 DEF Slot
    <3>3. Whole(T)' /\ Whole(U)'
      BY <1>1, <1>2, <1>3, <3>2, WholeKept
    <3>4. T = tx'[w].del /\ U = tx'[w].seen
      BY <3>1
    <3>5. QED
      BY <3>3, <3>4 DEF Whole, Splits
  <2>5. \A r \in tx'[w].ins : r.user \notin gone'
    BY <1>3 DEF Slot
  <2>6. QED
    BY <2>1, <2>2, <2>3, <2>4, <2>5 DEF Slot
<1>6. QED
  BY <1>1, <1>2, <1>5, RotationMoves

\* A step of slot w between two requests, before it has keys.
LEMMA ReadRotation ==
    ASSUME KeysInv, RotationInv, gone' = gone, NEW w \in Workers, NEW s, NEW r, Keep(w, s, r),
           UNCHANGED <<rows, made, tx>>, r.key = req[w].key, pc[w] \in GenerateSteps,
           s \in {"create_list", "rotate_list", "rotate_channels", "rotate_open"}
    PROVE  RotationInv'
<1>1. tx[w] = NoTx /\ tx' = [tx EXCEPT ![w] = tx[w]]
  BY DEF KeysInv, Local, TxSteps, TypeOK, GenerateSteps
<1>2. pc'[w] = s /\ req'[w] = r /\ tx'[w] = NoTx /\ Alone(w)
  BY <1>1, Moved
<1>3. Keyed(w)' = Keyed(w)
  BY <1>2 DEF Keyed
<1>4. pc'[w] \notin CreateSteps /\ pc'[w] \notin RotateSteps /\ pc'[w] \notin TxSteps
      /\ pc'[w] # "rotate_role"
  BY <1>2 DEF RotateSteps, TxSteps, CreateSteps
<1>5. SameKeys
  BY SameKeysKept
<1>6. Settled \subseteq Settled'
  BY <1>2, <1>4, <1>5, SettledGrows DEF SameKeys
<1>7. Slot(w)'
  <2>1. Whole(tx[w].del)' /\ Whole(tx[w].seen)'
    BY <1>2 DEF Whole, Splits, NoTx
  <2>2. tx'[w].ins = {}
    BY <1>2 DEF NoTx
  <2>3. QED
    BY <1>4, <2>1, <2>2 DEF Slot
<1>8. QED
  BY <1>2, <1>3, <1>5, <1>6, <1>7, RotationMoves

\* Keys that did not exist are nobody's.
LEMMA CreateMembersRotation ==
    ASSUME KeysInv, RotationInv, gone' = gone, NEW w \in Workers,
           CreateMembers(w) \/ CreateList(w)
    PROVE  RotationInv'
<1> DEFINE r(L) == [req[w] EXCEPT !.list = L, !.key = FreshKeys({0})]
<1>a. pc[w] \in {"create_members", "create_list"} /\ pc[w] \in GenerateSteps /\ UNCHANGED <<rows, tx>>
  BY CreateReads DEF server, KeysInv, GenerateSteps
<1>2. rows' = rows /\ tx' = [tx EXCEPT ![w] = tx[w]] /\ tx[w] = NoTx
  BY <1>a DEF KeysInv, TypeOK, Local, TxSteps
<1>0. CASE Goto(w, "create_list") /\ UNCHANGED <<made, req, calm>>
  <2>1. Keep(w, "create_list", req[w])
    BY <1>0 DEF Keep, KeysInv, TypeOK
  <2>2. QED
    BY <1>0, <1>a, <2>1, ReadRotation
<1> SUFFICES ASSUME \E L \in SUBSET Users : CreateTold(w, L) PROVE RotationInv'
  BY <1>0, CreateReads
<1>1. PICK L \in SUBSET Users :
         Generate({0}, L, "create") /\ Keep(w, "create_role", r(L))
  BY DEF CreateTold
<1>3. IsFiniteSet({0}) /\ Cardinality({0}) = 1 /\ Len(made) \in Nat
      /\ DOMAIN made = 1..Len(made)
  BY FS_Singleton, Domains DEF KeysInv
<1>4. /\ made' \in Seq(Key) /\ Len(made') = Len(made) + 1
      /\ \A k \in 1..Len(made) : made'[k] = made[k]
      /\ \A k \in (Len(made) + 1)..(Len(made) + 1) :
            made'[k] = [for |-> L, by |-> "create", up |-> FALSE]
  <2>1. made \in Seq(Key) /\ "create" \in {"create", "rotate"}
    BY DEF KeysInv, TypeOK
  <2>2. QED
    BY <1>1, <1>3, <2>1, GenerateFacts
<1>5. FreshKeys({0}) \in [{0} -> (Len(made) + 1)..(Len(made) + 1)]
  BY <1>3, FreshKeysFacts
<1>6. r(L).key = FreshKeys({0})
  BY Requests DEF KeysInv, Request
<1>7. pc'[w] = "create_role" /\ req'[w] = r(L) /\ tx'[w] = NoTx /\ Alone(w)
  BY <1>1, <1>2, Moved
<1>8. Keyed(w)' = {Len(made) + 1}
  BY <1>3, <1>5, <1>6, <1>7 DEF Keyed
<1>9. SameKeys /\ Keyed(w)' \cap DOMAIN made = {}
  BY <1>3, <1>4, <1>8 DEF SameKeys
<1>10. Settled \subseteq Settled'
  BY <1>7, <1>9, SettledGrows DEF SameKeys
<1>11. Slot(w)'
  <2>1. \A k \in Keyed(w)' : made'[k].by = "create"
    BY <1>3, <1>4, <1>8
  <2>2. Whole(tx[w].del)' /\ Whole(tx[w].seen)' /\ tx'[w].ins = {}
    BY <1>7 DEF Whole, Splits, NoTx
  <2>3. QED
    BY <1>7, <2>1, <2>2 DEF Slot, RotateSteps, TxSteps
<1>12. QED
  BY <1>2, <1>7, <1>9, <1>10, <1>11, RotationMoves

\* A rotation's keys are new, one for each channel.
LEMMA RotateChannelsRotation ==
    ASSUME KeysInv, RotationInv, gone' = gone, NEW w \in Workers,
           RotateChannels(w) \/ RotateOpen(w)
    PROVE  RotationInv'
<1> DEFINE r(S) == [req[w] EXCEPT !.key = FreshKeys(S), !.todo = S]
<1>a. pc[w] \in {"rotate_channels", "rotate_open"} /\ pc[w] \in GenerateSteps /\ UNCHANGED <<rows, tx>>
  BY RotateOpens DEF server, KeysInv, GenerateSteps
<1>2. rows' = rows /\ tx' = [tx EXCEPT ![w] = tx[w]] /\ tx[w] = NoTx
  BY <1>a DEF KeysInv, TypeOK, Local, TxSteps
<1>0. ASSUME NEW q \in Roles, Keep(w, "rotate_open", [req[w] EXCEPT !.as = q]), made' = made
      PROVE  RotationInv'
  <2> DEFINE p == [req[w] EXCEPT !.as = q]
  <2>1. p.key = req[w].key /\ Keep(w, "rotate_open", p)
    BY <1>0, Requests DEF KeysInv, Request
  <2> HIDE DEF p
  <2>2. QED
    BY <1>0, <1>a, <2>1, ReadRotation
<1> SUFFICES ASSUME \E S \in SUBSET DOMAIN level : Renew(w, S) PROVE RotationInv'
  BY <1>0, RotateOpens DEF KeysInv
<1>1. PICK S \in SUBSET DOMAIN level :
         Generate(S, req[w].list, "rotate") /\ Keep(w, "rotate_store", r(S))
  BY DEF Renew
<1>3. IsFiniteSet(S) /\ S \in SUBSET Nat
  <2>1. Len(level) \in Nat /\ DOMAIN level = 1..Len(level)
    BY Domains DEF KeysInv
  <2>2. IsFiniteSet(1..Len(level)) /\ S \subseteq 1..Len(level)
    BY <2>1, FS_Interval
  <2>3. QED
    BY <2>2, FS_Subset
<1> DEFINE n == Cardinality(S)
<1>4. n \in Nat /\ Len(made) \in Nat /\ DOMAIN made = 1..Len(made)
  BY <1>3, FS_CardinalityType, Domains DEF KeysInv
<1>5. /\ made' \in Seq(Key) /\ Len(made') = Len(made) + n
      /\ \A k \in 1..Len(made) : made'[k] = made[k]
      /\ \A k \in (Len(made) + 1)..(Len(made) + n) :
            made'[k] = [for |-> req[w].list, by |-> "rotate", up |-> FALSE]
  BY <1>1, <1>3, GenerateFacts, Requests DEF KeysInv, TypeOK
<1>6. /\ FreshKeys(S) \in [S -> (Len(made) + 1)..(Len(made) + n)]
      /\ \A c, d \in S : FreshKeys(S)[c] = FreshKeys(S)[d] => c = d
  BY <1>3, <1>4, FreshKeysFacts
<1> HIDE DEF n
<1>7. r(S).key = FreshKeys(S) /\ r(S).list = req[w].list
  BY Requests DEF KeysInv, Request
<1>8. pc'[w] = "rotate_store" /\ req'[w] = r(S) /\ tx'[w] = NoTx /\ Alone(w)
  BY <1>1, <1>2, Moved
<1>9. Keyed(w)' \subseteq (Len(made) + 1)..(Len(made) + n)
  BY <1>6, <1>7, <1>8 DEF Keyed
<1>10. SameKeys /\ Keyed(w)' \cap DOMAIN made = {}
  BY <1>4, <1>5, <1>9 DEF SameKeys
<1>11. Settled \subseteq Settled'
  BY <1>8, <1>10, SettledGrows DEF SameKeys
<1>12. Slot(w)'
  <2>1. Rotates(w)'
    <3> HIDE DEF r
    <3>1. req'[w].key = FreshKeys(S) /\ req'[w].list = req[w].list /\ DOMAIN req'[w].key = S
      BY <1>6, <1>7, <1>8
    <3>2. \A c \in S : req'[w].key[c] \in (Len(made) + 1)..(Len(made) + n)
      BY <1>6, <3>1
    <3>3. \A c \in S : /\ made'[req'[w].key[c]].by = "rotate"
                       /\ made'[req'[w].key[c]].for = req'[w].list
      BY <1>5, <3>1, <3>2
    <3>4. QED
      BY <1>6, <3>1, <3>3 DEF Rotates
  <2>2. Whole(tx[w].del)' /\ Whole(tx[w].seen)' /\ tx'[w].ins = {}
    BY <1>8 DEF Whole, Splits, NoTx
  <2>3. QED
    BY <1>8, <2>1, <2>2 DEF Slot, CreateSteps, TxSteps
<1>13. QED
  BY <1>2, <1>8, <1>10, <1>11, <1>12, RotationMoves

\* The steps that keep the call's keys.
LEMMA GoOnRotation ==
    ASSUME KeysInv, RotationInv, gone' = gone, NEW w \in Workers,
           \/ CreateRole(w) \/ CreateInsert(w) \/ RotateMembers(w) \/ RotateList(w)
           \/ RotateStore(w) \/ RotateRole(w) \/ RotateMax(w)
    PROVE  RotationInv'
<1>0. tx \in [Workers -> Transaction] /\ req[w] \in Request
  BY Requests DEF KeysInv, TypeOK, Transaction
<1>1. CASE CreateRole(w)
  <2>1. pc[w] = "create_role" /\ UNCHANGED <<rows, made>>
    BY <1>1 DEF CreateRole, server
  <2>2. CASE End(w)
    BY <2>1, <2>2, RotationEnds
  <2>3. CASE Goto(w, "create_insert") /\ UNCHANGED <<req, tx, calm>>
    <3>1. Keep(w, "create_insert", req[w]) /\ tx' = [tx EXCEPT ![w] = tx[w]]
      BY <1>0, <2>3 DEF Keep, KeysInv, TypeOK
    <3>2. pc'[w] = "create_insert" /\ req'[w] = req[w] /\ tx'[w] = tx[w] /\ Alone(w)
      BY <3>1, Moved
    <3>3. Keyed(w)' = Keyed(w)
      BY <3>2 DEF Keyed
    <3>4. /\ pc'[w] \notin RotateSteps /\ pc'[w] \notin TxSteps /\ pc'[w] # "rotate_role"
          /\ pc[w] \in CreateSteps
      BY <2>1, <3>2 DEF RotateSteps, TxSteps, CreateSteps
    <3>5. QED
      BY <2>1, <3>2, <3>3, <3>4, RotationGoesOn
  <2>4. QED
    BY <1>1, <2>2, <2>3 DEF CreateRole
<1>2. CASE CreateInsert(w)
  <2>0. CASE dropped
    <3>1. End(w) /\ UNCHANGED <<rows, made>>
      BY <1>2, <2>0 DEF CreateInsert
    <3>2. QED
      BY <3>1, RotationEnds
  <2> SUFFICES ASSUME ~dropped PROVE RotationInv'
    BY <2>0
  <2> DEFINE c == Len(level) + 1
             k == req[w].key[0]
             r == [req[w] EXCEPT !.key = [d \in {c} |-> k], !.todo = {c}]
  <2>1. /\ pc[w] = "create_insert" /\ Keep(w, "create_keys", r) /\ Uploaded({k})
        /\ rows' = rows /\ tx' = [tx EXCEPT ![w] = tx[w]]
    BY <1>0, <1>2 DEF CreateInsert
  <2>2. r.key = [d \in {c} |-> k] /\ r.list = req[w].list
    BY <1>0 DEF Request
  <2> HIDE DEF r, c
  <2>3. pc'[w] = "create_keys" /\ req'[w] = r /\ tx'[w] = tx[w] /\ Alone(w)
    BY <2>1, Moved
  <2>4. Keyed(w)' = Keyed(w)
    <3>1. DOMAIN req[w].key = {0}
      BY <2>1 DEF KeysInv, Local
    <3>2. QED
      BY <2>2, <2>3, <3>1 DEF Keyed
  <2>5. /\ pc'[w] \notin RotateSteps /\ pc'[w] \notin TxSteps /\ pc'[w] # "rotate_role"
        /\ pc[w] \in CreateSteps
    BY <2>1, <2>3 DEF RotateSteps, TxSteps, CreateSteps
  <2>6. \E ks : Uploaded(ks)
    BY <2>1
  <2>7. QED
    BY <2>1, <2>2, <2>3, <2>4, <2>5, <2>6, RotationGoesOn
<1>3. CASE RotateMembers(w) \/ RotateList(w)
  <2>1. pc[w] \in GenerateSteps /\ UNCHANGED <<rows, made, tx>>
    BY <1>3, RotateReads DEF server, GenerateSteps
  <2>2. CASE Goto(w, "rotate_list") /\ UNCHANGED <<req, calm>>
    <3>1. Keep(w, "rotate_list", req[w])
      BY <2>2 DEF Keep, KeysInv, TypeOK
    <3>2. QED
      BY <2>1, <3>1, ReadRotation
  <2>3. ASSUME NEW L \in SUBSET Users, RotateTold(w, L) PROVE RotationInv'
    <3> DEFINE r == [req[w] EXCEPT !.list = L]
    <3>1. Keep(w, "rotate_channels", r) /\ r.key = req[w].key
      BY <1>0, <2>3 DEF RotateTold, Request
    <3> HIDE DEF r
    <3>2. QED
      BY <2>1, <3>1, ReadRotation
  <2>4. QED
    BY <1>3, <2>2, <2>3, RotateReads
<1>4. CASE RotateStore(w)
  <2>1. /\ pc[w] = "rotate_store" /\ UNCHANGED <<rows, made>>
        /\ tx' = [tx EXCEPT ![w] = tx[w]]
    BY <1>0, <1>4 DEF RotateStore, server
  <2>2. PICK s \in {"rotate_store", "rotate_role"}, T \in {DOMAIN req[w].key} \cup SUBSET Channels :
           /\ Keep(w, s, [req[w] EXCEPT !.todo = T])
           /\ s = "rotate_role" => T = DOMAIN req[w].key
    <3>1. req[w].todo \in SUBSET Channels
      BY Requests DEF KeysInv
    <3>2. CASE req[w].todo = {}
      BY <1>4, <3>2 DEF RotateStore
    <3>3. CASE req[w].todo # {}
      <4>1. Keep(w, "rotate_store", [req[w] EXCEPT !.todo = @ \ {Min(req[w].todo)}])
        BY <1>4, <3>3 DEF RotateStore
      <4>2. Keep(w, "rotate_store", [req[w] EXCEPT !.todo = req[w].todo \ {Min(req[w].todo)}])
        BY <1>0, <4>1 DEF Request
      <4>3. req[w].todo \ {Min(req[w].todo)} \in SUBSET Channels
        BY <3>1
      <4>4. QED
        BY <4>2, <4>3
    <3>4. QED
      BY <3>2, <3>3
  <2> DEFINE r == [req[w] EXCEPT !.todo = T]
  <2>3. r.key = req[w].key /\ r.list = req[w].list /\ r.todo = T
    BY <1>0 DEF Request
  <2> HIDE DEF r
  <2>4. pc'[w] = s /\ req'[w] = r /\ tx'[w] = tx[w] /\ Alone(w)
    BY <2>1, <2>2, Moved DEF r
  <2>5. Keyed(w)' = Keyed(w)
    BY <2>3, <2>4 DEF Keyed
  <2>6. pc'[w] \notin CreateSteps /\ pc[w] \in RotateSteps /\ pc'[w] \notin TxSteps
    BY <2>1, <2>4 DEF RotateSteps, TxSteps, CreateSteps
  <2>7. QED
    BY <2>1, <2>2, <2>3, <2>4, <2>5, <2>6, RotationGoesOn
<1>5. CASE RotateRole(w)
  <2>1. pc[w] = "rotate_role" /\ UNCHANGED <<rows, made>>
    BY <1>5 DEF RotateRole, server
  <2>2. CASE End(w)
    BY <2>1, <2>2, RotationEnds
  <2>3. CASE Goto(w, NextChannel(req[w].todo)) /\ UNCHANGED <<req, tx, calm>>
    <3> DEFINE s == NextChannel(req[w].todo)
    <3>1. Keep(w, s, req[w]) /\ tx' = [tx EXCEPT ![w] = tx[w]]
      BY <1>0, <2>3 DEF Keep, KeysInv, TypeOK
    <3>2. pc'[w] = s /\ req'[w] = req[w] /\ tx'[w] = tx[w] /\ Alone(w)
      BY <3>1, Moved
    <3>3. Keyed(w)' = Keyed(w)
      BY <3>2 DEF Keyed
    <3>4. s \notin CreateSteps /\ s # "rotate_role" /\ pc[w] \in RotateSteps
      BY <2>1 DEF NextChannel, RotateSteps, TxSteps, CreateSteps
    <3> HIDE DEF s
    <3>5. QED
      BY <2>1, <3>2, <3>3, <3>4, RotationGoesOn
  <2>4. QED
    BY <1>5, <2>2, <2>3 DEF RotateRole
<1>6. CASE RotateMax(w)
  <2> DEFINE r == [req[w] EXCEPT !.next = Top(Chan(w)) + 1]
  <2>1. /\ pc[w] = "rotate_max" /\ UNCHANGED <<rows, made>> /\ Keep(w, "rotate_delete", r)
        /\ tx' = [tx EXCEPT ![w] = tx[w]]
    BY <1>0, <1>6 DEF RotateMax, server
  <2>2. r.key = req[w].key /\ r.list = req[w].list /\ r.todo = req[w].todo
    BY <1>0 DEF Request
  <2> HIDE DEF r
  <2>3. pc'[w] = "rotate_delete" /\ req'[w] = r /\ tx'[w] = tx[w] /\ Alone(w)
    BY <2>1, Moved
  <2>4. Keyed(w)' = Keyed(w)
    BY <2>2, <2>3 DEF Keyed
  <2>5. pc'[w] \notin CreateSteps /\ pc[w] \in RotateSteps /\ pc[w] \in TxSteps
        /\ pc'[w] # "rotate_role"
    BY <2>1, <2>3 DEF RotateSteps, TxSteps, CreateSteps
  <2>6. QED
    BY <2>1, <2>2, <2>3, <2>4, <2>5, RotationGoesOn
<1>7. QED
  BY <1>1, <1>2, <1>3, <1>4, <1>5, <1>6

\* A rotation's transaction goes on with new plans of what to delete.
LEMMA RotationPlans ==
    ASSUME KeysInv, RotationInv, gone' = gone, NEW w \in Workers, Alone(w), UNCHANGED <<rows, made>>,
           req'[w] = req[w], pc[w] \in TxSteps \ {"rotate_insert"}, pc'[w] \in TxSteps,
           tx'[w].ins = tx[w].ins, NEW T, NEW U, Whole(T), Whole(U),
           tx'[w].del = T, tx'[w].seen = U
    PROVE  RotationInv'
<1>1. SameKeys /\ Keyed(w)' = Keyed(w) /\ TxSteps \subseteq RotateSteps
  BY SameKeysKept DEF Keyed, RotateSteps
<1>2. Settled \subseteq Settled'
  BY <1>1, SettledGrows DEF SameKeys
<1>3. \A r \in rows : r.key \in Settled
  BY DEF RotationInv
<1>4. Slot(w)'
  <2>1. Rotates(w) /\ Inserts(w)
    BY <1>1 DEF RotationInv, Slot
  <2>2. Rotates(w)' /\ Inserts(w)'
    BY <2>1 DEF Rotates, Inserts, Chan
  <2>3. Whole(T)' /\ Whole(U)'
    BY <1>1, <1>2, <1>3, WholeKept
  <2>4. Whole(tx[w].del)' /\ Whole(tx[w].seen)'
    BY <2>3 DEF Whole, Splits
  <2>5. pc'[w] \notin CreateSteps /\ pc'[w] # "rotate_role"
    BY DEF TxSteps, CreateSteps
  <2>6. \A r \in tx'[w].ins : r.user \notin gone
    BY DEF RotationInv, Slot
  <2>7. QED
    BY <2>2, <2>4, <2>5, <2>6 DEF Slot
<1>5. QED
  BY <1>1, <1>2, <1>4, RotationMoves

\* All rows of a channel: whole rotations, since each is of one channel.
LEMMA RotateDeleteRotation ==
    ASSUME KeysInv, RotationInv, gone' = gone, NEW w \in Workers, RotateDelete(w)
    PROVE  RotationInv'
<1> DEFINE S == RowsOf(Chan(w))
<1>1. pc[w] = "rotate_delete" /\ UNCHANGED <<rows, made, req>>
  BY DEF RotateDelete, server
<1>2. tx[w] \in Transaction /\ req[w] \in Request
  BY Requests DEF KeysInv
<1>3. Whole(S) /\ Whole(tx[w].del) /\ Whole(tx[w].seen) /\ Whole(tx[w].del \cup S)
  BY WholeSets DEF RotationInv, Slot
<1> HIDE DEF S
<1>4. CASE Goto(w, "rotate_wait") /\ tx' = [tx EXCEPT ![w].seen = S]
  <2> DEFINE t == [tx[w] EXCEPT !.seen = S]
  <2>1. Keep(w, "rotate_wait", req[w]) /\ tx' = [tx EXCEPT ![w] = t]
    BY <1>1, <1>4 DEF Keep, KeysInv, TypeOK
  <2>2. t.del = tx[w].del /\ t.seen = S /\ t.ins = tx[w].ins
    BY <1>2 DEF Transaction
  <2> HIDE DEF t
  <2>3. pc'[w] = "rotate_wait" /\ req'[w] = req[w] /\ tx'[w] = t /\ Alone(w)
    BY <2>1, Moved
  <2>4. pc[w] \in TxSteps \ {"rotate_insert"} /\ pc'[w] \in TxSteps
    BY <1>1, <2>3 DEF TxSteps
  <2>5. QED
    BY <1>1, <1>3, <2>2, <2>3, <2>4, RotationPlans
<1>5. CASE Goto(w, "rotate_insert") /\ tx' = [tx EXCEPT ![w].del = @ \cup S]
  <2> DEFINE t == [tx[w] EXCEPT !.del = @ \cup S]
  <2>1. Keep(w, "rotate_insert", req[w]) /\ tx' = [tx EXCEPT ![w] = t]
    BY <1>1, <1>5 DEF Keep, KeysInv, TypeOK
  <2>2. t.del = tx[w].del \cup S /\ t.seen = tx[w].seen /\ t.ins = tx[w].ins
    BY <1>2 DEF Transaction
  <2> HIDE DEF t
  <2>3. pc'[w] = "rotate_insert" /\ req'[w] = req[w] /\ tx'[w] = t /\ Alone(w)
    BY <2>1, Moved
  <2>4. pc[w] \in TxSteps \ {"rotate_insert"} /\ pc'[w] \in TxSteps
    BY <1>1, <2>3 DEF TxSteps
  <2>5. QED
    BY <1>1, <1>3, <2>2, <2>3, <2>4, RotationPlans
<1>6. QED
  BY <1>4, <1>5 DEF RotateDelete, S

\* What it saw when it started: whole rotations still, deleted or not.
LEMMA RotateWaitRotation ==
    ASSUME KeysInv, RotationInv, gone' = gone, NEW w \in Workers, RotateWait(w)
    PROVE  RotationInv'
<1> DEFINE t == [tx[w] EXCEPT !.del = @ \cup (tx[w].seen \cap rows), !.seen = {}]
<1>1. /\ pc[w] = "rotate_wait" /\ UNCHANGED <<rows, made, req>>
      /\ Goto(w, "rotate_insert")
  BY DEF RotateWait, server
<1>2. tx[w] \in Transaction /\ req[w] \in Request
  BY Requests DEF KeysInv
<1>3. Whole({}) /\ Whole(tx[w].del \cup (tx[w].seen \cap rows))
  BY WholeSets DEF RotationInv, Slot
<1>4. Keep(w, "rotate_insert", req[w]) /\ tx' = [tx EXCEPT ![w] = t]
  BY <1>1 DEF Keep, KeysInv, TypeOK, RotateWait
<1>5. t.del = tx[w].del \cup (tx[w].seen \cap rows) /\ t.seen = {} /\ t.ins = tx[w].ins
  BY <1>2 DEF Transaction
<1> HIDE DEF t
<1>6. pc'[w] = "rotate_insert" /\ req'[w] = req[w] /\ tx'[w] = t /\ Alone(w)
  BY <1>4, Moved
<1>7. pc[w] \in TxSteps \ {"rotate_insert"} /\ pc'[w] \in TxSteps
  BY <1>1, <1>6 DEF TxSteps
<1>8. QED
  BY <1>1, <1>3, <1>5, <1>6, <1>7, RotationPlans

\* One row for each recipient whose account is there, in the channel at hand;
\* when none is left it is done.
LEMMA RotateInsertRotation ==
    ASSUME KeysInv, RotationInv, gone' = gone, NEW w \in Workers, RotateInsert(w)
    PROVE  RotationInv'
<1> DEFINE c == Chan(w)
<1>1. pc[w] = "rotate_insert" /\ UNCHANGED <<rows, made>> /\ pc[w] \in TxSteps
      /\ TxSteps \subseteq RotateSteps
  BY Inserting DEF server, TxSteps, RotateSteps
<1>2. tx[w] \in Transaction /\ req[w] \in Request
  BY Requests DEF KeysInv
<1>3. CASE End(w) /\ calm' = FALSE
  BY <1>1, <1>3, RotationEnds
<1>4. /\ Slot(w) /\ Rotates(w) /\ Inserts(w) /\ \A q \in rows : q.key \in Settled
      /\ \A q \in tx[w].ins : q.user \notin gone
  BY <1>1 DEF RotationInv, Slot
<1>5. c \in req[w].todo /\ c \in DOMAIN req[w].key
  BY <1>1, NextToRotate DEF KeysInv, Local, TxSteps
\* What either step leaves: its keys, its list and the rows it has deleted.
<1>6. ASSUME Alone(w), pc'[w] \in TxSteps, req'[w].key = req[w].key,
             req'[w].list = req[w].list, tx'[w].del = tx[w].del, tx'[w].seen = tx[w].seen,
             Inserts(w)', \A q \in tx'[w].ins : q.user \notin gone
      PROVE  RotationInv'
  <2>1. SameKeys /\ Keyed(w)' = Keyed(w)
    BY <1>1, <1>6, SameKeysKept DEF Keyed
  <2>2. Settled \subseteq Settled'
    BY <1>1, <1>6, <2>1, SettledGrows DEF SameKeys
  <2>3. Rotates(w)'
    BY <1>1, <1>4, <1>6 DEF Rotates
  <2>4. Whole(tx[w].del)' /\ Whole(tx[w].seen)'
    <3>1. PICK T, U : T = tx[w].del /\ U = tx[w].seen
      OBVIOUS
    <3>2. Whole(T) /\ Whole(U)
      BY <1>4, <3>1 DEF Slot
    <3>3. Whole(T)' /\ Whole(U)'
      BY <1>1, <1>4, <2>1, <2>2, <3>2, WholeKept
    <3>4. T = tx'[w].del /\ U = tx'[w].seen
      BY <1>6, <3>1
    <3>5. QED
      BY <3>3, <3>4 DEF Whole, Splits
  <2>5. pc'[w] # "rotate_role" /\ pc'[w] \notin CreateSteps
    BY <1>6 DEF TxSteps, CreateSteps
  <2>6. Slot(w)'
    BY <1>6, <2>3, <2>4, <2>5 DEF Slot
  <2>7. QED
    BY <1>1, <1>6, <2>1, <2>2, <2>6, RotationMoves
<1>7. ASSUME Left(w) = {}, tx' = tx,
             LET todo == req[w].todo \ {Chan(w)}
             IN  Keep(w, NextChannel(todo), [req[w] EXCEPT !.todo = todo])
      PROVE  RotationInv'
  <2> DEFINE todo == req[w].todo \ {c}
             r == [req[w] EXCEPT !.todo = todo]
             s == NextChannel(todo)
  <2>1. Keep(w, s, r) /\ tx' = [tx EXCEPT ![w] = tx[w]]
    BY <1>7 DEF KeysInv, TypeOK
  <2>2. r.key = req[w].key /\ r.todo = todo /\ r.list = req[w].list
    BY <1>2 DEF Request
  <2>3. s \in TxSteps
    BY DEF NextChannel, TxSteps
  <2> HIDE DEF s, r
  <2>4. pc'[w] = s /\ req'[w] = r /\ tx'[w] = tx[w] /\ Alone(w)
    BY <2>1, Moved
  <2>5. \A u \in req[w].list : \E q \in tx[w].ins : q.chan = c /\ q.user = u
    BY <1>7 DEF Left
  <2>6. Inserts(w)'
    <3> HIDE DEF c
    <3>1. \A q \in tx[w].ins : q.chan \in req[w].todo => q.chan = c
      BY <1>4 DEF Inserts, c
    <3>2. \A d \in DOMAIN req[w].key \ todo : d = c \/ d \in DOMAIN req[w].key \ req[w].todo
      OBVIOUS
    <3>3. \A d \in DOMAIN req[w].key \ todo, u \in req[w].list :
             \E q \in tx[w].ins : q.chan = d /\ q.user = u
      BY <1>4, <2>5, <3>2 DEF Inserts
    <3>4. \A q \in tx[w].ins : q.chan \notin todo
      BY <3>1
    <3> HIDE DEF todo
    <3>5. req'[w].key = req[w].key /\ req'[w].list = req[w].list /\ req'[w].todo = todo
      BY <2>2, <2>4
    <3>6. QED
      BY <1>4, <2>4, <3>3, <3>4, <3>5 DEF Inserts
  <2>7. QED
    BY <1>4, <1>6, <2>2, <2>3, <2>4, <2>6
<1>8. ASSUME NEW u \in Left(w), u \in req[w].list, u \notin gone, UNCHANGED <<pc, req>>,
             tx' = [tx EXCEPT ![w].ins = @ \cup NewRows(w, {u})]
      PROVE  RotationInv'
  <2> DEFINE t == [tx[w] EXCEPT !.ins = @ \cup NewRows(w, {u})]
  <2>1. tx' = [tx EXCEPT ![w] = t] /\ Keep(w, "rotate_insert", req[w])
    BY <1>1, <1>8 DEF Keep, Goto, KeysInv, TypeOK
  <2>2. t.del = tx[w].del /\ t.seen = tx[w].seen /\ t.ins = tx[w].ins \cup NewRows(w, {u})
    BY <1>2 DEF Transaction
  <2> HIDE DEF t
  <2>3. pc'[w] = "rotate_insert" /\ req'[w] = req[w] /\ tx'[w] = t /\ Alone(w)
    BY <2>1, Moved
  <2>4. \A q \in NewRows(w, {u}) : q.chan = c /\ q.key = req[w].key[c] /\ q.user = u
    BY DEF NewRows, RowsFor
  <2>5. Inserts(w)'
    <3> HIDE DEF c
    <3>1. PICK N : N = NewRows(w, {u})
      OBVIOUS
    <3>2. \A q \in N : q.chan = c /\ q.key = req[w].key[c] /\ q.user \in req[w].list
      BY <1>8, <2>4, <3>1
    <3>3. tx'[w].ins = tx[w].ins \cup N /\ req'[w] = req[w] /\ Chan(w)' = c
      BY <2>2, <2>3, <3>1 DEF Chan, c
    <3>4. \A q \in tx[w].ins \cup N :
             /\ q.chan \in DOMAIN req[w].key
             /\ q.chan \in req[w].todo => q.chan = c
             /\ q.key = req[w].key[q.chan] /\ q.user \in req[w].list
      BY <1>4, <1>5, <3>2 DEF Inserts, c
    <3>5. QED
      BY <1>4, <2>3, <3>3, <3>4 DEF Inserts
  <2>6. \A q \in tx'[w].ins : q.user \notin gone
    BY <1>4, <1>8, <2>2, <2>3, <2>4
  <2>7. pc'[w] \in TxSteps
    BY <1>1, <1>8
  <2>8. QED
    BY <1>6, <2>2, <2>3, <2>5, <2>6, <2>7
<1>9. QED
  BY <1>3, <1>7, <1>8, Inserting

\* The slots that do not move keep what holds of them.
LEMMA OtherSlots ==
    ASSUME KeysInv, RotationInv, gone' = gone, NEW w \in Workers, Alone(w), SameKeys, NEW v \in Workers,
           v # w, Whole(tx[v].del)', Whole(tx[v].seen)'
    PROVE  Slot(v)'
<1>1. pc'[v] = pc[v] /\ req'[v] = req[v] /\ tx'[v] = tx[v] /\ Slot(v)
  BY DEF Alone, RotationInv
<1>2. Keyed(v)' = Keyed(v) /\ \A k \in Keyed(v) : k \in DOMAIN made
  BY <1>1 DEF Keyed, KeysInv, Local
<1>3. Rotates(v) => Rotates(v)'
  <2>1. \A c \in DOMAIN req[v].key : req[v].key[c] \in DOMAIN made
    BY <1>2 DEF Keyed
  <2>2. QED
    BY <1>1, <2>1 DEF Rotates, SameKeys
<1>4. Inserts(v) => Inserts(v)'
  BY <1>1 DEF Inserts, Chan
<1>5. \A k \in Keyed(v) : made'[k].by = made[k].by
  BY <1>2 DEF SameKeys
<1>6. QED
  BY <1>1, <1>2, <1>3, <1>4, <1>5 DEF Slot

\* New rows break up no rotation that a transaction takes whole: they are of a
\* creation, or of a rotation that had not ended.
LEMMA WholeStill ==
    ASSUME NEW T, Whole(T), SameKeys, DOMAIN made' = DOMAIN made, Settled \subseteq Settled',
           \A k \in Settled : made[k].by = "rotate" =>
              \A r \in rows' : r.key = k => r \in rows
    PROVE  Whole(T)'
<1>1. \A r \in T : r.key \in Settled /\ r.key \in Settled'
  BY DEF Whole
<1>2. ASSUME NEW k \in DOMAIN made', made'[k].by = "rotate" PROVE Splits(T, k)'
  <2>1. made[k].by = "rotate" /\ Splits(T, k)
    BY <1>2 DEF Whole, SameKeys
  <2>2. CASE k \in Settled
    BY <2>1, <2>2 DEF Splits
  <2>3. CASE k \notin Settled
    BY <1>1, <2>3 DEF Splits
  <2>4. QED
    BY <2>2, <2>3
<1>3. QED
  BY <1>1, <1>2 DEF Whole

\* A row of a creation has a key of no rotation.
LEMMA CreateKeysRotation ==
    ASSUME KeysInv, RotationInv, gone' = gone, NEW w \in Workers, CreateKeys(w)
    PROVE  RotationInv'
<1> DEFINE c == Max(req[w].todo)
           row(u) == RowsFor({u}, c, 1, req[w].key[c])
<1>1. pc[w] = "create_keys" /\ made' = made
  BY DEF CreateKeys
<1>2. CASE End(w) /\ UNCHANGED rows
  BY <1>1, <1>2, RotationEnds
<1>3. CASE Goto(w, "create_store") /\ UNCHANGED <<req, tx, rows>>
  <2>1. Keep(w, "create_store", req[w]) /\ tx' = [tx EXCEPT ![w] = tx[w]]
    BY <1>3 DEF Keep, KeysInv, TypeOK
  <2>2. pc'[w] = "create_store" /\ req'[w] = req[w] /\ tx'[w] = tx[w] /\ Alone(w)
    BY <2>1, Moved
  <2>3. Keyed(w)' = Keyed(w) /\ pc[w] \in CreateSteps /\ pc'[w] \notin RotateSteps
        /\ pc'[w] # "rotate_role" /\ pc'[w] \notin TxSteps
    BY <1>1, <2>2 DEF Keyed, CreateSteps, RotateSteps, TxSteps
  <2>4. QED
    BY <1>1, <1>3, <2>2, <2>3, RotationGoesOn
<1>4. ASSUME NEW u \in req[w].list, u \notin gone, rows' = rows \cup row(u),
             req' = [req EXCEPT ![w].list = @ \ {u}], UNCHANGED <<pc, tx>>
      PROVE  RotationInv'
  <2> DEFINE r == [req[w] EXCEPT !.list = @ \ {u}]
             k == req[w].key[c]
  <2>1. r.key = req[w].key /\ r.todo = req[w].todo
    BY Requests DEF KeysInv, Request
  <2>2. Keep(w, "create_keys", r) /\ tx' = [tx EXCEPT ![w] = tx[w]]
    BY <1>1, <1>4 DEF Keep, Goto, KeysInv, TypeOK
  <2> HIDE DEF r
  <2>3. pc'[w] = "create_keys" /\ req'[w] = r /\ tx'[w] = tx[w] /\ Alone(w)
    BY <2>2, Moved
  <2>4. SameKeys /\ Keyed(w)' = Keyed(w)
    BY <1>1, <2>1, <2>3, SameKeysKept DEF Keyed
  <2>5. Settled' = Settled
    <3>1. At(RotateSteps)' = At(RotateSteps) /\ w \notin At(RotateSteps)
      BY <1>1, <1>4 DEF At, RotateSteps, TxSteps
    <3>2. \A v \in At(RotateSteps) : Keyed(v)' = Keyed(v)
      BY <2>3, <3>1 DEF At, Alone, Keyed
    <3>3. QED
      BY <1>1, <3>1, <3>2 DEF Settled
  <2>6. Slot(w) /\ pc[w] \in CreateSteps /\ pc[w] \notin RotateSteps
    BY <1>1 DEF RotationInv, CreateSteps, RotateSteps, TxSteps
  <2>7. k \in Keyed(w) /\ made[k].by = "create" /\ k \in DOMAIN made
    <3>1. c \in DOMAIN req[w].key /\ k \in DOMAIN made
      BY <1>1, CreatedChannel
    <3>2. QED
      BY <2>6, <3>1 DEF Keyed, Slot
  <2>8. k \in Settled
    <3>1. \A v \in At(RotateSteps) : k \notin Keyed(v)
      BY <2>6, <2>7 DEF RotationInv, Apart, At
    <3>2. QED
      BY <2>7, <3>1 DEF Settled
  <2>9. \A q \in rows' : q \in rows \/ (q.key = k /\ q.user = u)
    BY <1>4 DEF RowsFor
  <2>10. rows \subseteq rows' /\ \A q \in rows : q.key \in Settled /\ q.key \in DOMAIN made
    BY <1>4 DEF RotationInv, Settled
  <2> HIDE DEF k, row
  <2>11. RotationWhole'
    <3> SUFFICES ASSUME NEW j \in DOMAIN made, made[j].by = "rotate"
                 PROVE  Holders(j)' \in {{}, made[j].for \ gone}
      BY <1>1 DEF RotationWhole
    <3>1. Holders(j)' = Holders(j)
      BY <2>7, <2>9, <2>10 DEF Holders
    <3>2. QED
      BY <3>1 DEF RotationInv, RotationWhole
  <2>12. OneChannel'
    BY <1>1, <2>7, <2>9, <2>10 DEF RotationInv, OneChannel
  <2>13. Apart'
    <3>1. \A v \in Workers \ {w} : Keyed(v)' = Keyed(v)
      BY <2>3 DEF Alone, Keyed
    <3>2. QED
      BY <2>4, <3>1 DEF RotationInv, Apart
  <2>14. ASSUME NEW v \in Workers PROVE Whole(tx[v].del)' /\ Whole(tx[v].seen)'
    <3>1. PICK T, U : T = tx[v].del /\ U = tx[v].seen
      OBVIOUS
    <3>2. Whole(T) /\ Whole(U)
      BY <3>1 DEF Slot, RotationInv
    <3>3. \A j \in Settled : made[j].by = "rotate" => \A q \in rows' : q.key = j => q \in rows
      BY <2>7, <2>9
    <3>4. Whole(T)' /\ Whole(U)'
      BY <1>1, <2>4, <2>5, <3>2, <3>3, WholeStill
    <3>5. T = tx'[v].del /\ U = tx'[v].seen
      BY <1>4, <3>1
    <3>6. QED
      BY <3>4, <3>5 DEF Whole, Splits
  <2>15. Slot(w)'
    <3>1. \A j \in Keyed(w)' : made'[j].by = "create"
      BY <1>1, <2>4, <2>6 DEF Slot
    <3>2. \A q \in tx'[w].ins : q.user \notin gone
      BY <2>3, <2>6 DEF Slot
    <3>3. QED
      BY <2>3, <2>14, <3>1, <3>2 DEF Slot, RotateSteps, TxSteps
  <2>16. \A v \in Workers : Slot(v)'
    BY <2>3, <2>4, <2>14, <2>15, OtherSlots
  <2>17. \A q \in rows' : q.key \in Settled' /\ q.user \notin gone
    BY <1>4, <2>5, <2>8, <2>9, <2>10 DEF RotationInv
  <2>18. QED
    BY <2>11, <2>12, <2>13, <2>16, <2>17 DEF RotationInv
<1>5. QED
  <2>1. \/ End(w) /\ UNCHANGED rows
        \/ Goto(w, "create_store") /\ UNCHANGED <<req, tx, rows>>
        \/ \E u \in req[w].list : /\ u \notin gone /\ rows' = rows \cup row(u)
                                  /\ req' = [req EXCEPT ![w].list = @ \ {u}]
                                  /\ UNCHANGED <<pc, tx>>
    BY <1>1 DEF CreateKeys, Lost
  <2>2. QED
    BY <1>2, <1>3, <1>4, <2>1

\* A commit: the rows it brings are all of its keys, what it takes away all of
\* other rotations.
LEMMA RotateCommitRotation ==
    ASSUME KeysInv, RotationInv, gone' = gone, NEW w \in Workers, RotateCommit(w)
    PROVE  RotationInv'
<1> DEFINE del == tx[w].del
           ins == tx[w].ins
           mine == Keyed(w)
<1>1. /\ pc[w] = "rotate_commit" /\ rows' = (rows \ del) \cup ins
      /\ \E ks : Uploaded(ks)
      /\ End(w)
  BY DEF RotateCommit
<1>2. pc'[w] = "idle" /\ req'[w] = Idle /\ tx'[w] = NoTx /\ Alone(w)
  BY <1>1, Moved DEF End
<1>3. SameKeys /\ DOMAIN made' = DOMAIN made
  BY <1>1, SameKeysKept
<1>4. Keyed(w)' = {} /\ pc'[w] \notin RotateSteps /\ pc'[w] \notin CreateSteps
  <2>1. DOMAIN Idle.key = {}
    BY DEF Idle
  <2>2. QED
    BY <1>2, <2>1 DEF Keyed, RotateSteps, TxSteps, CreateSteps
<1>5. Settled \subseteq Settled'
  BY <1>2, <1>3, <1>4, SettledGrows
<1>6. pc[w] \in RotateSteps /\ pc[w] \in TxSteps
  BY <1>1 DEF RotateSteps, TxSteps
<1>7. Slot(w) /\ Rotates(w) /\ Inserts(w) /\ \A r \in rows : r.key \in Settled
  BY <1>6 DEF RotationInv, Slot
<1>8. \A k \in mine : k \notin Settled /\ k \in DOMAIN made
  BY <1>6 DEF Settled, At, KeysInv, Local
<1>9. \A k \in mine : k \in Settled'
  <2>1. ASSUME NEW v \in Workers, pc'[v] \in RotateSteps PROVE Keyed(v)' \cap mine = {}
    <3>1. v # w
      BY <1>4, <2>1
    <3>2. Keyed(v)' = Keyed(v)
      BY <1>2, <3>1 DEF Alone, Keyed
    <3>3. QED
      BY <3>1, <3>2 DEF RotationInv, Apart
  <2>2. QED
    BY <1>3, <1>8, <2>1 DEF Settled, At
<1>10. \A r \in ins : /\ r.chan \in DOMAIN req[w].key \ req[w].todo /\ r.user \notin gone
                      /\ r.key = req[w].key[r.chan] /\ r.user \in req[w].list /\ r.key \in mine
  BY <1>1, <1>7 DEF Inserts, Keyed, Slot
<1> HIDE DEF del, ins
<1>11. RotationWhole'
  <2> SUFFICES ASSUME NEW k \in DOMAIN made, made[k].by = "rotate"
               PROVE  Holders(k)' \in {{}, made[k].for \ gone}
    BY <1>3 DEF RotationWhole, SameKeys
  <2>1. CASE k \notin mine
    <3>1. \A r \in rows' : r.key = k <=> r \in rows \ del /\ r.key = k
      BY <1>1, <1>10, <2>1
    <3>2. Splits(del, k)
      BY <1>7 DEF Slot, Whole, del
    <3>3. CASE \A r \in rows : r.key = k => r \in del
      <4>1. \A r \in rows' : r.key # k
        BY <3>1, <3>3
      <4>2. QED
        BY <4>1 DEF Holders
    <3>4. CASE \A r \in rows : r.key = k => r \notin del
      <4>1. \A r : r \in rows' /\ r.key = k <=> r \in rows /\ r.key = k
        BY <1>1, <3>1, <3>4
      <4>2. Holders(k)' = Holders(k)
        BY <4>1 DEF Holders
      <4>3. QED
        BY <4>2 DEF RotationInv, RotationWhole
    <3>5. QED
      BY <3>2, <3>3, <3>4 DEF Splits
  <2>2. CASE k \in mine
    <3>1. PICK c \in DOMAIN req[w].key : k = req[w].key[c]
      BY <2>2 DEF Keyed
    <3>2. \A r : r \in rows' /\ r.key = k <=> r \in ins /\ r.key = k
      BY <1>1, <1>7, <1>8, <2>2
    <3>3. \A r \in ins : r.key = k <=> r.chan = c
      BY <1>7, <1>10, <3>1 DEF Rotates
    <3>4. Holders(k)' = {r.user : r \in {q \in ins : q.chan = c}}
      BY <3>2, <3>3 DEF Holders
    <3>5. made[k].for = req[w].list
      BY <1>7, <3>1 DEF Rotates
    <3>6. CASE c \in req[w].todo
      BY <1>10, <3>4, <3>6
    <3>7. CASE c \notin req[w].todo
      <4>1. \A u \in req[w].list : \E r \in ins : r.chan = c /\ r.user = u
        BY <1>7, <3>7 DEF Inserts, ins
      <4>2. \A u \in req[w].list : u \notin gone
        BY <1>10, <4>1
      <4>3. Holders(k)' = req[w].list
        BY <1>10, <3>4, <4>1
      <4>4. QED
        BY <3>5, <4>2, <4>3
    <3>8. QED
      BY <3>6, <3>7
  <2>3. QED
    BY <2>1, <2>2
<1>12. OneChannel'
  <2> SUFFICES ASSUME NEW r \in rows', NEW q \in rows', r.key = q.key,
                      made'[r.key].by = "rotate"
               PROVE  r.chan = q.chan
    BY DEF OneChannel
  <2>1. CASE r \in ins /\ q \in ins
    BY <1>7, <1>10, <2>1 DEF Rotates
  <2>2. CASE r \notin ins /\ q \notin ins
    <3>1. r \in rows /\ q \in rows /\ r.key \in DOMAIN made
      BY <1>1, <1>7, <2>2 DEF Settled
    <3>2. made[r.key].by = "rotate"
      BY <1>3, <3>1 DEF SameKeys
    <3>3. QED
      BY <3>1, <3>2 DEF RotationInv, OneChannel
  <2>3. CASE ~(r \in ins <=> q \in ins)
    BY <1>1, <1>7, <1>8, <1>10, <2>3
  <2>4. QED
    BY <2>1, <2>2, <2>3
<1>13. Apart'
  <2>1. \A v \in Workers \ {w} : Keyed(v)' = Keyed(v)
    BY <1>2 DEF Alone, Keyed
  <2>2. QED
    BY <1>4, <2>1 DEF RotationInv, Apart
<1>14. \A r \in rows' : r.key \in Settled' /\ r.user \notin gone
  BY <1>1, <1>5, <1>7, <1>9, <1>10 DEF RotationInv
<1>15. ASSUME NEW v \in Workers, v # w PROVE Whole(tx[v].del)' /\ Whole(tx[v].seen)'
  <2>1. PICK T, U : T = tx[v].del /\ U = tx[v].seen
    OBVIOUS
  <2>2. Whole(T) /\ Whole(U)
    BY <2>1 DEF Slot, RotationInv
  <2>3. \A j \in Settled : made[j].by = "rotate" => \A q \in rows' : q.key = j => q \in rows
    BY <1>1, <1>8, <1>10
  <2>4. Whole(T)' /\ Whole(U)'
    BY <1>3, <1>5, <2>2, <2>3, WholeStill
  <2>5. T = tx'[v].del /\ U = tx'[v].seen
    BY <1>2, <1>15, <2>1 DEF Alone
  <2>6. QED
    BY <2>4, <2>5 DEF Whole, Splits
<1>16. Slot(w)'
  <2>1. Whole(tx[w].del)' /\ Whole(tx[w].seen)' /\ tx'[w].ins = {}
    BY <1>2 DEF Whole, Splits, NoTx
  <2>2. "rotate_role" \in RotateSteps /\ TxSteps \subseteq RotateSteps
    BY DEF RotateSteps
  <2>3. QED
    BY <1>4, <2>1, <2>2 DEF Slot
<1>17. \A v \in Workers : Slot(v)'
  BY <1>2, <1>3, <1>15, <1>16, OtherSlots
<1>18. QED
  BY <1>11, <1>12, <1>13, <1>14, <1>17 DEF RotationInv

\* No call moves, and rows go at most.
LEMMA RowsGo ==
    ASSUME RotationInv, UNCHANGED <<made, pc, req, tx>>, rows' \subseteq rows, RotationWhole',
           \A r \in rows' : r.user \notin gone',
           \A w \in Workers : \A r \in tx[w].ins : r.user \notin gone'
    PROVE  RotationInv'
<1>1. At(RotateSteps)' = At(RotateSteps) /\ \A w \in Workers : Keyed(w)' = Keyed(w)
  BY DEF At, Keyed
<1>2. Settled' = Settled
  BY <1>1 DEF Settled, At
<1>3. OneChannel' /\ Apart'
  BY <1>1 DEF RotationInv, OneChannel, Apart
<1>4. ASSUME NEW w \in Workers PROVE Slot(w)'
  <2>1. Slot(w) /\ Keyed(w)' = Keyed(w)
    BY <1>1 DEF RotationInv
  <2>2. (Rotates(w) <=> Rotates(w)') /\ (Inserts(w) <=> Inserts(w)')
    BY DEF Rotates, Inserts, Chan
  <2>3. Whole(tx[w].del)' /\ Whole(tx[w].seen)'
    BY <1>2, <2>1 DEF Slot, Whole, Splits
  <2>4. QED
    BY <2>1, <2>2, <2>3 DEF Slot
<1>5. QED
  BY <1>2, <1>3, <1>4 DEF RotationInv

\* An account takes its own row of each rotation along, and waits for a
\* transaction that has one; the server takes all.
LEMMA OtherRoutesRotation ==
    ASSUME RotationInv, UNCHANGED vars \/ OtherRoutes \/ DeleteAccount \/ DropServer
    PROVE  RotationInv'
<1>1. UNCHANGED <<made, pc, req, tx>>
  BY DEF vars, OtherRoutes, DeleteAccount, DropServer, server
<1>2. CASE UNCHANGED vars \/ OtherRoutes
  <2>1. UNCHANGED <<gone, rows>>
    BY <1>2 DEF vars, OtherRoutes, server
  <2>2. RotationWhole'
    BY <1>1, <2>1 DEF RotationInv, RotationWhole, Holders
  <2>3. QED
    BY <1>1, <2>1, <2>2, RowsGo DEF RotationInv, Slot
<1>3. CASE DeleteAccount
  <2>1. PICK u \in Users \ gone :
           /\ \A w \in Workers : \A r \in tx[w].del \cup tx[w].ins : r.user # u
           /\ gone' = gone \cup {u} /\ rows' = {r \in rows : r.user # u}
    BY <1>3 DEF DeleteAccount
  <2>2. ASSUME NEW k \in DOMAIN made, made[k].by = "rotate"
        PROVE  Holders(k)' \in {{}, made[k].for \ gone'}
    <3>1. Holders(k)' = Holders(k) \ {u}
      BY <2>1 DEF Holders
    <3>2. Holders(k) \in {{}, made[k].for \ gone}
      BY <2>2 DEF RotationInv, RotationWhole
    <3>3. QED
      BY <2>1, <3>1, <3>2
  <2>3. RotationWhole'
    BY <1>1, <2>2 DEF RotationWhole
  <2>4. QED
    BY <1>1, <2>1, <2>3, RowsGo DEF RotationInv, Slot
<1>4. CASE DropServer
  <2>1. rows' = {} /\ gone' = gone
    BY <1>4 DEF DropServer
  <2>2. RotationWhole'
    BY <2>1 DEF RotationWhole, Holders
  <2>3. QED
    BY <1>1, <2>1, <2>2, RowsGo DEF RotationInv, Slot
<1>5. QED
  BY <1>2, <1>3, <1>4

LEMMA RotationInvInit == ASSUME Init PROVE RotationInv
<1>1. rows = {} /\ DOMAIN made = {}
  BY DEF Init
<1>2. \A w \in Workers : pc[w] = "idle" /\ tx[w] = NoTx /\ Keyed(w) = {}
  BY DEF Init, Keyed, Idle
<1>3. RotationWhole /\ OneChannel /\ Apart
  BY <1>1, <1>2 DEF RotationWhole, OneChannel, Apart
<1>4. \A w \in Workers : Slot(w)
  BY <1>1, <1>2 DEF Slot, Whole, Splits, NoTx, CreateSteps, RotateSteps, TxSteps
<1>5. QED
  BY <1>1, <1>3, <1>4 DEF RotationInv

\* What slot w may do: no call takes an account.
Moves(w) ==
    \/ StartCreate(w) \/ StartGeneral(w) \/ StartRotate(w) \/ StartLeave(w)
    \/ Step(w) \/ CutOff(w)

LEMMA MovesGone == ASSUME NEW w \in Workers, Moves(w) PROVE gone' = gone /\ dropped' = dropped
<1>1. CASE StartCreate(w) \/ StartGeneral(w) \/ StartRotate(w) \/ StartLeave(w) \/ CutOff(w)
  BY <1>1 DEF StartCreate, StartGeneral, StartRotate, StartLeave, Begin, CutOff, members
<1>2. CASE CreateMembers(w) \/ CreateList(w) \/ RotateMembers(w) \/ RotateList(w)
  BY <1>2, CreateReads, RotateReads DEF members
<1>3. CASE CreateRole(w) \/ CreateInsert(w) \/ CreateKeys(w) \/ CreateStore(w)
  BY <1>3 DEF CreateRole, CreateInsert, CreateKeys, CreateStore, members
<1>4. CASE RotateChannels(w) \/ RotateOpen(w) \/ RotateStore(w) \/ RotateRole(w) \/ RotateMax(w)
  BY <1>4 DEF RotateChannels, RotateOpen, RotateStore, RotateRole, RotateMax, members
<1>5. CASE \/ RotateDelete(w) \/ RotateWait(w) \/ RotateInsert(w) \/ Deadlock(w)
           \/ RotateCommit(w) \/ LeaveClear(w)
  BY <1>5 DEF RotateDelete, RotateWait, RotateInsert, Deadlock, RotateCommit, LeaveClear, members
<1>6. QED
  BY <1>1, <1>2, <1>3, <1>4, <1>5 DEF Moves, Step

LEMMA RotationInvNext == ASSUME KeysInv, RotationInv, [Next]_vars PROVE RotationInv'
<1>1. CASE UNCHANGED vars \/ OtherRoutes \/ DeleteAccount \/ DropServer
  BY <1>1, OtherRoutesRotation
<1>2. ASSUME NEW w \in Workers, Moves(w) PROVE RotationInv'
  <2>1. gone' = gone
    BY <1>2, MovesGone
  <2>2. CASE CreateStore(w) \/ LeaveClear(w) \/ CutOff(w) \/ Deadlock(w)
    <3>1. End(w) /\ UNCHANGED <<rows, made>>
      BY <2>2 DEF CreateStore, LeaveClear, CutOff, Deadlock, server
    <3>2. QED
      BY <2>1, <3>1, RotationEnds
  <2>3. QED
    BY <1>2, <2>1, <2>2, BeginRotation, CreateMembersRotation, RotateChannelsRotation,
       GoOnRotation, CreateKeysRotation, RotateDeleteRotation, RotateWaitRotation,
       RotateInsertRotation, RotateCommitRotation
       DEF Moves, Step
<1>3. QED
  BY <1>1, <1>2 DEF Next, Moves

\* However many rotations overlap, on however many channels and for however
\* many members, and whoever joins, leaves or deletes an account meanwhile,
\* nobody sees one by halves: the transaction of rotate-keys deletes whole
\* rotations, its own rows are all there when it commits, and an account takes
\* its own row of it and no other.
THEOREM RotationsAreWhole == Spec => []RotationWhole
<1>1. Init => KeysInv /\ RotationInv
  BY KeysInvInit, RotationInvInit
<1>2. KeysInv /\ RotationInv /\ [Next]_vars => (KeysInv /\ RotationInv)'
  BY KeysInvNext, RotationInvNext
<1>3. RotationInv => RotationWhole
  BY DEF RotationInv
<1>4. QED
  BY <1>1, <1>2, <1>3, PTL DEF Spec

-----------------------------------------------------------------------------
(* Undisturbed calls.                                                       *)

\* A key that was taken in stays taken in.
UpKept == \A k \in DOMAIN made : made[k].up => made'[k].up

LEMMA MovesAlone == ASSUME KeysInv, NEW w \in Workers, Moves(w) PROVE Alone(w)
<1>1. pc \in [Workers -> Steps \cup {"idle"}] /\ req \in [Workers -> Request]
      /\ tx \in [Workers -> Transaction]
  BY DEF KeysInv, TypeOK, Transaction
<1>2. CASE StartCreate(w) \/ StartGeneral(w) \/ StartRotate(w) \/ StartLeave(w)
  BY <1>1, <1>2 DEF StartCreate, StartGeneral, StartRotate, StartLeave, Begin, Keep, Goto, Alone
<1>3. CASE CreateRole(w) \/ CreateInsert(w) \/ CreateStore(w)
  BY <1>1, <1>3 DEF CreateRole, CreateInsert, CreateStore, End, Keep, Goto, Alone
<1>4. CASE CreateKeys(w)
  BY <1>1, <1>4 DEF CreateKeys, End, Keep, Goto, Alone
<1>5. CASE RotateStore(w) \/ RotateRole(w) \/ RotateMax(w)
  BY <1>1, <1>5 DEF RotateStore, RotateRole, RotateMax, End, Keep, Goto, Alone
<1>6. CASE RotateDelete(w) \/ RotateWait(w)
  BY <1>1, <1>6 DEF RotateDelete, RotateWait, Goto, Alone
<1>7. CASE RotateCommit(w) \/ LeaveClear(w) \/ CutOff(w) \/ Deadlock(w)
  BY <1>1, <1>7 DEF RotateCommit, LeaveClear, CutOff, Deadlock, End, Keep, Goto, Alone
<1>8. CASE CreateMembers(w) \/ CreateList(w)
  BY <1>1, <1>8, CreateReads DEF CreateTold, Keep, Goto, Alone
<1>9. CASE RotateMembers(w) \/ RotateList(w)
  BY <1>1, <1>9, RotateReads DEF RotateTold, Keep, Goto, Alone
<1>10. CASE RotateChannels(w) \/ RotateOpen(w)
  BY <1>1, <1>10, RotateOpens DEF Renew, Keep, Goto, Alone, KeysInv
<1>11. CASE RotateInsert(w)
  BY <1>1, <1>11, Inserting DEF End, Keep, Goto, Alone
<1>12. QED
  BY <1>2, <1>3, <1>4, <1>5, <1>6, <1>7, <1>8, <1>9, <1>10, <1>11 DEF Moves, Step

LEMMA MovesMade ==
    ASSUME KeysInv, NEW w \in Workers, Moves(w)
    PROVE  SameKeys /\ UpKept
<1>1. CASE made' = made
  BY <1>1 DEF SameKeys, UpKept
<1>2. CASE \E ks : Uploaded(ks)
  <2>1. PICK ks : Uploaded(ks)
    BY <1>2
  <2>2. SameKeys
    BY <1>2, SameKeysKept
  <2>3. UpKept
    BY <2>1, UploadedFacts, Domains DEF UpKept, KeysInv, TypeOK
  <2>4. QED
    BY <2>2, <2>3
<1>3. ASSUME NEW S, IsFiniteSet(S), NEW L \in SUBSET Users, NEW op \in {"create", "rotate"},
             Generate(S, L, op)
      PROVE  SameKeys /\ UpKept
  <2>1. made \in Seq(Key) /\ DOMAIN made = 1..Len(made) /\ Len(made) \in Nat
    BY Domains DEF KeysInv, TypeOK
  <2>2. /\ made' \in Seq(Key) /\ Len(made') = Len(made) + Cardinality(S)
        /\ \A k \in 1..Len(made) : made'[k] = made[k]
    BY <1>3, <2>1, GenerateFacts
  <2>3. Cardinality(S) \in Nat
    BY <1>3, FS_CardinalityType
  <2>4. QED
    BY <2>1, <2>2, <2>3 DEF SameKeys, UpKept
<1>4. CASE (CreateMembers(w) \/ CreateList(w)) /\ made' # made
  <2>1. PICK L \in SUBSET Users : Generate({0}, L, "create")
    BY <1>4, CreateReads DEF CreateTold
  <2>2. IsFiniteSet({0})
    BY FS_Singleton
  <2>3. QED
    BY <1>3, <2>1, <2>2
<1>5. CASE (RotateChannels(w) \/ RotateOpen(w)) /\ made' # made
  <2>1. PICK S \in SUBSET DOMAIN level : Generate(S, req[w].list, "rotate")
    BY <1>5, RotateOpens DEF Renew, KeysInv
  <2>2. IsFiniteSet(S)
    <3>1. Len(level) \in Nat /\ DOMAIN level = 1..Len(level)
      BY Domains DEF KeysInv
    <3>2. IsFiniteSet(1..Len(level)) /\ S \subseteq 1..Len(level)
      BY <3>1, FS_Interval
    <3>3. QED
      BY <3>2, FS_Subset
  <2>3. req[w].list \in SUBSET Users
    BY Requests DEF KeysInv
  <2>4. QED
    BY <1>3, <2>1, <2>2, <2>3
<1>6. CASE CreateInsert(w) \/ RotateCommit(w)
  BY <1>1, <1>2, <1>6 DEF CreateInsert, RotateCommit
<1>7. CASE ~(\/ CreateMembers(w) \/ CreateList(w) \/ RotateChannels(w) \/ RotateOpen(w)
             \/ CreateInsert(w) \/ RotateCommit(w))
  <2>1. made' = made
    BY <1>7 DEF Moves, Step, StartCreate, StartGeneral, StartRotate, StartLeave, Begin, CreateRole,
             CreateKeys, CreateStore, RotateMembers, RotateList, RotateStore, RotateRole, RotateMax,
             RotateDelete, RotateWait, RotateInsert, Deadlock, LeaveClear, CutOff
  <2>2. QED
    BY <1>1, <2>1
<1>8. QED
  BY <1>1, <1>4, <1>5, <1>6, <1>7

LEMMA CalmIsOver == ASSUME [Next]_vars PROVE calm' => calm
<1>1. CASE UNCHANGED vars \/ OtherRoutes \/ DeleteAccount \/ DropServer
  BY <1>1 DEF vars, OtherRoutes, DeleteAccount, DropServer
<1>2. ASSUME NEW w \in Workers, Moves(w) PROVE calm' => calm
  <2>1. CASE CreateMembers(w) \/ CreateList(w)
    BY <2>1, CreateReads DEF CreateTold
  <2>2. CASE RotateMembers(w) \/ RotateList(w)
    BY <2>2, RotateReads DEF RotateTold
  <2>3. CASE RotateInsert(w)
    BY <2>3, Inserting
  <2>4. CASE ~(\/ CreateMembers(w) \/ CreateList(w) \/ RotateMembers(w) \/ RotateList(w)
               \/ RotateInsert(w))
    BY <1>2, <2>4
       DEF Moves, Step, StartCreate, StartGeneral, StartRotate, StartLeave, Begin, CreateRole,
           CreateInsert, CreateKeys, CreateStore, RotateChannels, RotateOpen, RotateStore,
           RotateRole, RotateMax, RotateDelete, RotateWait, Deadlock, RotateCommit, LeaveClear,
           CutOff
  <2>5. QED
    BY <2>1, <2>2, <2>3, <2>4
<1>3. QED
  BY <1>1, <1>2 DEF Next, Moves

\* A browser keeps keys that exist; undisturbed, ones that the server has, or
\* will have when the rotation that made them commits.
StoreInv ==
    /\ \A u \in Users, c \in Channels : local[u][c] # 0 => local[u][c] \in DOMAIN made
    /\ \A w \in Workers : pc[w] \in {"create_keys", "create_store"} =>
          \A k \in Keyed(w) : made[k].up
    /\ calm => \A u \in Users, c \in Channels : local[u][c] # 0 =>
          \/ made[local[u][c]].up
          \/ \E w \in At(RotateSteps) : local[u][c] \in Keyed(w)

\* What a step of slot w has to do to the stores and the keys it keeps.
LEMMA StoreKept ==
    ASSUME KeysInv, StoreInv, NEW w \in Workers, Moves(w), [Next]_vars,
           \A u \in Users, c \in Channels : local'[u][c] # 0 =>
              \/ local'[u][c] = local[u][c]
              \/ /\ local'[u][c] \in Keyed(w)
                 /\ \/ made[local'[u][c]].up
                    \/ pc'[w] \in RotateSteps /\ Keyed(w)' = Keyed(w),
           pc'[w] \in {"create_keys", "create_store"} => \A k \in Keyed(w)' : made'[k].up,
           calm' /\ pc[w] \in RotateSteps =>
              \/ pc'[w] \in RotateSteps /\ Keyed(w)' = Keyed(w)
              \/ \A k \in Keyed(w) : made'[k].up
    PROVE  StoreInv'
<1>1. Alone(w) /\ SameKeys /\ UpKept /\ (calm' => calm)
  BY MovesAlone, MovesMade, CalmIsOver
<1>2. \A v \in Workers : Keyed(v) \subseteq DOMAIN made
  BY DEF KeysInv, Local
<1>3. \A v \in Workers \ {w} : pc'[v] = pc[v] /\ Keyed(v)' = Keyed(v)
  BY <1>1 DEF Alone, Keyed
<1>4. \A u \in Users, c \in Channels : local'[u][c] # 0 => local'[u][c] \in DOMAIN made
  BY <1>2 DEF StoreInv
<1>5. ASSUME NEW v \in Workers, pc'[v] \in {"create_keys", "create_store"},
             NEW k \in Keyed(v)'
      PROVE  made'[k].up
  <2>1. CASE v = w
    BY <1>5, <2>1
  <2>2. CASE v # w
    BY <1>1, <1>2, <1>3, <1>5, <2>2 DEF StoreInv, UpKept
  <2>3. QED
    BY <2>1, <2>2
<1>6. ASSUME calm', NEW u \in Users, NEW c \in Channels, local'[u][c] # 0
      PROVE  \/ made'[local'[u][c]].up
             \/ \E v \in At(RotateSteps)' : local'[u][c] \in Keyed(v)'
  <2> DEFINE k == local'[u][c]
  <2>1. k \in DOMAIN made /\ calm
    BY <1>1, <1>4, <1>6
  <2>2. CASE local'[u][c] = local[u][c]
    <3>1. made[k].up \/ \E v \in At(RotateSteps) : k \in Keyed(v)
      BY <1>6, <2>1, <2>2 DEF StoreInv
    <3>2. CASE made[k].up
      BY <1>1, <2>1, <3>2 DEF UpKept
    <3>3. ASSUME NEW v \in At(RotateSteps), k \in Keyed(v), v # w
          PROVE  \E x \in At(RotateSteps)' : k \in Keyed(x)'
      BY <1>3, <3>3 DEF At
    <3>4. CASE w \in At(RotateSteps) /\ k \in Keyed(w)
      BY <1>6, <3>4 DEF At
    <3>5. QED
      BY <3>1, <3>2, <3>3, <3>4
  <2>3. CASE k \in Keyed(w) /\ made[k].up
    BY <1>1, <2>1, <2>3 DEF UpKept
  <2>4. CASE k \in Keyed(w) /\ pc'[w] \in RotateSteps /\ Keyed(w)' = Keyed(w)
    BY <2>4 DEF At
  <2>5. QED
    BY <1>6, <2>2, <2>3, <2>4
<1>7. QED
  BY <1>1, <1>4, <1>5, <1>6 DEF StoreInv, SameKeys

LEMMA StoreInvNext == ASSUME KeysInv, StoreInv, [Next]_vars PROVE StoreInv'
<1>1. CASE UNCHANGED vars \/ OtherRoutes \/ DeleteAccount \/ DropServer
  <2>1. UNCHANGED <<made, local, pc, req>> /\ (calm' => calm)
    BY <1>1, CalmIsOver DEF vars, server, OtherRoutes, DeleteAccount, DropServer
  <2>2. At(RotateSteps)' = At(RotateSteps) /\ \A w \in Workers : Keyed(w)' = Keyed(w)
    BY <2>1 DEF At, Keyed
  <2>3. \A u \in Users, c \in Channels : local[u][c] # 0 => local'[u][c] \in DOMAIN made'
    BY <2>1 DEF StoreInv
  <2>4. \A w \in Workers : pc'[w] \in {"create_keys", "create_store"} =>
           \A k \in Keyed(w)' : made'[k].up
    BY <2>1, <2>2 DEF StoreInv
  <2>5. calm' => \A u \in Users, c \in Channels : local'[u][c] # 0 =>
           \/ made'[local'[u][c]].up
           \/ \E w \in At(RotateSteps)' : local'[u][c] \in Keyed(w)'
    <3>1. \A u \in Users, c \in Channels :
             (\E w \in At(RotateSteps) : local[u][c] \in Keyed(w)) =>
                \E w \in At(RotateSteps)' : local'[u][c] \in Keyed(w)'
      BY <2>1, <2>2 DEF At
    <3>2. QED
      BY <2>1, <3>1 DEF StoreInv
  <2>6. QED
    BY <2>1, <2>3, <2>4, <2>5 DEF StoreInv
<1>2. ASSUME NEW w \in Workers, Moves(w) PROVE StoreInv'
  <2> DEFINE Same == local' = local
             ToStore == pc'[w] \in {"create_keys", "create_store"}
             OfStore == pc[w] \in RotateSteps
  <2>0. /\ pc \in [Workers -> Steps \cup {"idle"}] /\ req \in [Workers -> Request]
        /\ req[w] \in Request /\ local \in Locals
    BY Requests DEF KeysInv, TypeOK, Locals
  <2>1. ASSUME local' = local, ~ToStore, ~OfStore PROVE StoreInv'
    BY <1>2, <2>1, StoreKept
  <2>2. ASSUME End(w), calm' = FALSE, local' = local PROVE StoreInv'
    <3>1. pc'[w] = "idle"
      BY <2>2, Moved DEF End
    <3>2. QED
      BY <1>2, <2>2, <3>1, StoreKept
  <2>3. CASE StartCreate(w) \/ StartGeneral(w) \/ StartRotate(w) \/ StartLeave(w)
    BY <2>0, <2>1, <2>3 DEF StartCreate, StartGeneral, StartRotate, StartLeave, Begin, Keep, Goto,
                            RotateSteps, TxSteps
  <2>4. CASE \/ CreateMembers(w) \/ CreateList(w) \/ CreateRole(w) \/ RotateMembers(w)
             \/ RotateList(w) \/ RotateChannels(w) \/ RotateOpen(w)
    <3>1. CASE CreateMembers(w) \/ CreateList(w)
      BY <2>0, <2>1, <3>1, CreateReads DEF CreateTold, Keep, Goto, RotateSteps, TxSteps
    <3>2. CASE CreateRole(w)
      BY <2>0, <2>1, <3>2 DEF CreateRole, End, Keep, Goto, RotateSteps, TxSteps
    <3>3. CASE RotateMembers(w) \/ RotateList(w)
      BY <2>0, <2>1, <3>3, RotateReads DEF RotateTold, Keep, Goto, RotateSteps, TxSteps
    <3>4. CASE RotateChannels(w) \/ RotateOpen(w)
      BY <2>0, <2>1, <3>4, RotateOpens DEF KeysInv, Renew, Keep, Goto, RotateSteps, TxSteps
    <3>5. QED
      BY <2>4, <3>1, <3>2, <3>3, <3>4
  <2>5. CASE CreateInsert(w)
    <3> DEFINE c == Len(level) + 1
               k == req[w].key[0]
               r == [req[w] EXCEPT !.key = [d \in {c} |-> k], !.todo = {c}]
    <3>0. CASE dropped
      BY <2>2, <2>5, <3>0 DEF CreateInsert
    <3> SUFFICES ASSUME ~dropped PROVE StoreInv'
      BY <3>0
    <3>1. pc[w] = "create_insert" /\ Keep(w, "create_keys", r) /\ Uploaded({k}) /\ local' = local
      BY <2>5 DEF CreateInsert
    <3>2. r.key = [d \in {c} |-> k]
      BY <2>0 DEF Request
    <3> HIDE DEF r, c
    <3>3. pc'[w] = "create_keys" /\ req'[w] = r
      BY <3>1, KeepMoves DEF KeysInv
    <3>4. Keyed(w)' = {k} /\ k \in DOMAIN made
      <4>1. DOMAIN req[w].key = {0} /\ Keyed(w) \subseteq DOMAIN made
        BY <3>1 DEF KeysInv, Local
      <4>2. QED
        BY <3>2, <3>3, <4>1 DEF Keyed
    <3>5. made'[k].up
      <4> DEFINE ks == {k}
      <4>1. made \in Seq(Key) /\ Uploaded(ks) /\ k \in 1..Len(made) /\ k \in ks
        BY <3>1, <3>4, Domains DEF KeysInv, TypeOK
      <4> HIDE DEF ks
      <4>2. made'[k].up = (made[k].up \/ k \in ks)
        BY <4>1, UploadedFacts
      <4>3. QED
        BY <4>1, <4>2
    <3>6. ~OfStore
      BY <3>1 DEF RotateSteps, TxSteps
    <3>7. QED
      BY <1>2, <3>1, <3>4, <3>5, <3>6, StoreKept
  <2>6. CASE CreateKeys(w)
    <3>1. pc[w] = "create_keys" /\ local' = local /\ made' = made /\ ~OfStore
      BY <2>6 DEF CreateKeys, RotateSteps, TxSteps
    <3>2. \/ pc'[w] \in {"create_keys", "create_store"} /\ Keyed(w)' = Keyed(w)
          \/ ~ToStore
      <4>1. CASE End(w)
        BY <2>0, <4>1 DEF End, Keep, Goto
      <4>2. CASE Goto(w, "create_store") /\ req' = req
        BY <2>0, <4>2 DEF Goto, Keyed
      <4>3. ASSUME NEW u \in req[w].list, req' = [req EXCEPT ![w].list = @ \ {u}], pc' = pc
            PROVE  pc'[w] = "create_keys" /\ Keyed(w)' = Keyed(w)
        <5>1. req'[w].key = req[w].key
          BY <2>0, <4>3 DEF Request
        <5>2. QED
          BY <3>1, <4>3, <5>1 DEF Keyed
      <4>4. \/ End(w)
            \/ Goto(w, "create_store") /\ req' = req
            \/ \E u \in req[w].list : req' = [req EXCEPT ![w].list = @ \ {u}] /\ pc' = pc
        BY <2>6 DEF CreateKeys
      <4>5. QED
        BY <4>1, <4>2, <4>3, <4>4
    <3>3. \A k \in Keyed(w) : made[k].up
      BY <3>1 DEF StoreInv
    <3>4. QED
      BY <1>2, <3>1, <3>2, <3>3, StoreKept
  <2>7. CASE CreateStore(w)
    <3> DEFINE c == Max(req[w].todo)
               k == req[w].key[c]
    <3>1. /\ pc[w] = "create_store" /\ local' = [local EXCEPT ![req[w].actor][c] = k]
          /\ End(w) /\ ~OfStore
      BY <2>7 DEF CreateStore, RotateSteps, TxSteps
    <3>2. k \in Keyed(w) /\ made[k].up
      <4>1. c \in DOMAIN req[w].key
        BY <3>1, CreatedChannel
      <4>2. QED
        BY <3>1, <4>1 DEF StoreInv, Keyed
    <3> HIDE DEF c, k
    <3>3. pc'[w] = "idle"
      BY <3>1, Moved DEF End
    <3>4. \A u \in Users, d \in Channels : local'[u][d] = local[u][d] \/ local'[u][d] = k
      BY <2>0, <3>1 DEF Locals
    <3>5. QED
      BY <1>2, <3>1, <3>2, <3>3, <3>4, StoreKept
  <2>8. CASE RotateStore(w)
    <3>1. pc[w] = "rotate_store"
      BY <2>8 DEF RotateStore
    <3>2. pc'[w] \in {"rotate_store", "rotate_role"} /\ Keyed(w)' = Keyed(w)
      BY <2>0, <2>8 DEF RotateStore, Keep, Goto, Keyed, Request
    <3>3. /\ \A u \in Users, d \in Channels :
                local'[u][d] = local[u][d] \/ local'[u][d] \in Keyed(w)
      <4>1. CASE req[w].todo = {}
        BY <2>8, <4>1 DEF RotateStore
      <4>2. CASE req[w].todo # {}
        <5> DEFINE c == Min(req[w].todo)
                   k == req[w].key[c]
        <5>1. local' = [local EXCEPT ![req[w].actor][c] = k]
          BY <2>8, <4>2 DEF RotateStore
        <5>2. k \in Keyed(w)
          <6>1. c \in DOMAIN req[w].key
            BY <3>1, <4>2, NextToRotate DEF Chan, RotateSteps
          <6>2. QED
            BY <6>1 DEF Keyed
        <5> HIDE DEF c, k
        <5>3. \A u \in Users, d \in Channels : local'[u][d] = local[u][d] \/ local'[u][d] = k
          BY <2>0, <5>1 DEF Locals
        <5>4. QED
          BY <5>2, <5>3
      <4>3. QED
        BY <4>1, <4>2
    <3>4. pc'[w] \in RotateSteps /\ ~ToStore
      BY <3>2 DEF RotateSteps
    <3>5. QED
      BY <1>2, <3>2, <3>3, <3>4, StoreKept
  <2>9. ASSUME local' = local, pc'[w] \in RotateSteps, Keyed(w)' = Keyed(w) PROVE StoreInv'
    <3>1. ~ToStore
      BY <2>9 DEF RotateSteps, TxSteps
    <3>2. QED
      BY <1>2, <2>9, <3>1, StoreKept
  <2>10. CASE RotateRole(w)
    <3>1. local' = local
      BY <2>10 DEF RotateRole
    <3>2. CASE End(w) /\ calm' = FALSE
      BY <2>2, <3>1, <3>2
    <3>3. CASE Goto(w, NextChannel(req[w].todo)) /\ req' = req
      BY <2>0, <2>9, <3>1, <3>3 DEF Goto, Keyed, NextChannel, RotateSteps, TxSteps
    <3>4. QED
      BY <2>10, <3>2, <3>3 DEF RotateRole
  <2>11. CASE RotateMax(w)
    <3>1. local' = local /\ pc'[w] = "rotate_delete" /\ Keyed(w)' = Keyed(w)
      BY <2>0, <2>11 DEF RotateMax, Keep, Goto, Keyed, Request
    <3>2. QED
      BY <2>9, <3>1 DEF RotateSteps, TxSteps
  <2>12. CASE RotateDelete(w) \/ RotateWait(w)
    <3>1. local' = local /\ pc'[w] \in {"rotate_wait", "rotate_insert"} /\ Keyed(w)' = Keyed(w)
      BY <2>0, <2>12 DEF RotateDelete, RotateWait, Goto, Keyed
    <3>2. QED
      BY <2>9, <3>1 DEF RotateSteps, TxSteps
  <2>13. CASE RotateInsert(w)
    <3> DEFINE left == req[w].todo \ {Chan(w)}
    <3>1. local' = local /\ pc[w] = "rotate_insert"
      BY <2>13 DEF RotateInsert
    <3>2. CASE End(w) /\ calm' = FALSE
      BY <2>2, <3>1, <3>2
    <3>3. CASE Keep(w, NextChannel(left), [req[w] EXCEPT !.todo = left])
      BY <2>0, <2>9, <3>1, <3>3 DEF Keep, Goto, Keyed, NextChannel, RotateSteps, TxSteps, Request
    <3>4. CASE UNCHANGED <<pc, req>>
      BY <2>9, <3>1, <3>4 DEF Keyed, RotateSteps, TxSteps
    <3>5. QED
      BY <2>13, <3>2, <3>3, <3>4, Inserting
  <2>14. CASE RotateCommit(w)
    <3>1. local' = local /\ Uploaded(Keyed(w)) /\ End(w)
      BY <2>14 DEF RotateCommit, Keyed
    <3>2. pc'[w] = "idle"
      BY <3>1, Moved DEF End
    <3>3. \A k \in Keyed(w) : made'[k].up
      BY <3>1, UploadedFacts, Domains DEF KeysInv, TypeOK, Local
    <3>4. QED
      BY <1>2, <3>1, <3>2, <3>3, StoreKept
  <2>15. CASE LeaveClear(w)
    <3>1. /\ pc[w] = "leave_clear" /\ End(w)
          /\ local' = [local EXCEPT ![req[w].actor] = [c \in Channels |-> 0]]
      BY <2>15 DEF LeaveClear
    <3>2. pc'[w] = "idle" /\ ~OfStore
      BY <3>1, Moved DEF End, RotateSteps, TxSteps
    <3>3. \A u \in Users, d \in Channels : local'[u][d] = local[u][d] \/ local'[u][d] = 0
      BY <2>0, <3>1 DEF Locals
    <3>4. QED
      BY <1>2, <3>2, <3>3, StoreKept
  <2>16. CASE CutOff(w) \/ Deadlock(w)
    BY <2>2, <2>16 DEF CutOff, Deadlock
  <2>17. QED
    BY <1>2, <2>3, <2>4, <2>5, <2>6, <2>7, <2>8, <2>10, <2>11, <2>12, <2>13, <2>14, <2>15, <2>16
       DEF Moves, Step
<1>3. QED
  BY <1>1, <1>2 DEF Next, Moves

\* Where calls run one at a time, undisturbed, no browser is left with a key
\* that the server never took in: rotateChannelKeys stores its keys before it
\* uploads them, and uploads them all or fails.
THEOREM KeptKeysAreUploaded == Spec => []KeptKeysUploaded
<1>1. Init => KeysInv /\ StoreInv
  <2>1. ASSUME Init PROVE StoreInv
    BY <2>1 DEF Init, StoreInv
  <2>2. QED
    BY <2>1, KeysInvInit
<1>2. KeysInv /\ StoreInv /\ [Next]_vars => (KeysInv /\ StoreInv)'
  BY KeysInvNext, StoreInvNext
<1>3. StoreInv => KeptKeysUploaded
  <2>1. ASSUME Quiet PROVE At(RotateSteps) = {}
    BY <2>1 DEF Quiet, At, RotateSteps, TxSteps
  <2>2. QED
    BY <2>1 DEF StoreInv, KeptKeysUploaded
<1>4. QED
  BY <1>1, <1>2, <1>3, PTL DEF Spec

-----------------------------------------------------------------------------
(* Undisturbed, a channel's rows are one key's, for all its recipients that   *)
(* still have an account, or the call that creates the channel is writing    *)
(* them; a rotation takes all rows of each channel it has done and brings    *)
(* one higher version.                                                       *)

Busy(w) == pc[w] \notin {"idle", "leave_clear"}
OneKey(c) == \E k \in DOMAIN made : \E v \in 1..k :
                made[k].for # {} /\ RowsOf(c) = RowsFor(made[k].for \ gone, c, v, k)
Replaces(w, c) ==
    /\ RowsOf(c) \subseteq tx[w].del
    /\ \E v \in 1..req[w].key[c] :
          /\ v > Top(c)
          /\ {r \in tx[w].ins : r.chan = c} = RowsFor(req[w].list, c, v, req[w].key[c])
Creates(w, c) ==
    LET k == req[w].key[c] IN
    /\ made[k].for # {} /\ req[w].list \subseteq made[k].for
    /\ RowsOf(c) = RowsFor((made[k].for \ req[w].list) \ gone, c, 1, k)

Calmly(w) ==
    /\ pc[w] \in {"create_role", "create_insert"} =>
          req[w].list # {} /\ made[req[w].key[0]].for = req[w].list
    /\ pc[w] = "create_keys" => \A c \in req[w].todo : Creates(w, c)
    /\ pc[w] \in {"rotate_channels", "rotate_open"} \cup RotateSteps => req[w].list # {}
    /\ pc[w] \in RotateSteps => \A r \in rows, k \in Keyed(w) : r.key < k
    /\ pc[w] \in {"rotate_delete", "rotate_insert"} =>
          req[w].next > Top(Chan(w)) /\ req[w].next <= req[w].key[Chan(w)]
    /\ pc[w] # "rotate_wait"
    /\ pc[w] \in TxSteps =>
          /\ \A r \in tx[w].del \cup tx[w].ins : r.chan \in DOMAIN req[w].key
          /\ \A c \in DOMAIN req[w].key \ req[w].todo : Replaces(w, c)
    /\ pc[w] = "rotate_insert" =>
          /\ RowsOf(Chan(w)) \subseteq tx[w].del
          /\ \A r \in tx[w].ins : r.chan = Chan(w) => r.version = req[w].next

Creation(c) == \E w \in Workers : pc[w] = "create_keys" /\ req[w].todo = {c}
Undisturbed ==
    /\ \A w, v \in Workers : Busy(w) /\ Busy(v) => w = v
    /\ \A w \in Workers : Calmly(w)
    /\ \A c \in DOMAIN level : OneKey(c) \/ Creation(c)

\* Rows are of channels that exist; a rotation commits when all are done.
Placed ==
    /\ \A r \in rows : r.chan \in DOMAIN level
    /\ \A w \in Workers : pc[w] = "rotate_commit" => req[w].todo = {}

CalmInv == Placed /\ (calm => Undisturbed)

LEMMA PlacedNext == ASSUME KeysInv, RotationInv, Placed, [Next]_vars PROVE Placed'
<1>1. CASE UNCHANGED vars \/ OtherRoutes \/ DeleteAccount \/ DropServer
  <2>1. rows' \subseteq rows /\ UNCHANGED <<level, pc, req>>
    BY <1>1 DEF vars, server, OtherRoutes, DeleteAccount, DropServer
  <2>2. QED
    BY <2>1 DEF Placed
<1>2. ASSUME NEW w \in Workers, Moves(w) PROVE Placed'
  <2>0. /\ pc \in [Workers -> Steps \cup {"idle"}] /\ req \in [Workers -> Request]
        /\ req[w] \in Request /\ Alone(w)
    BY <1>2, MovesAlone, Requests DEF KeysInv, TypeOK
  <2>1. ASSUME pc'[w] = "rotate_commit" => req'[w].todo = {},
               \A r \in rows' : r.chan \in DOMAIN level'
        PROVE  Placed'
    <3>1. \A v \in Workers \ {w} : pc'[v] = pc[v] /\ req'[v] = req[v]
      BY <2>0 DEF Alone
    <3>2. QED
      BY <2>1, <3>1 DEF Placed
  <2>2. ASSUME pc'[w] # "rotate_commit", UNCHANGED <<rows, level>> PROVE Placed'
    BY <2>1, <2>2 DEF Placed
  <2>3. ASSUME End(w), UNCHANGED <<rows, level>> PROVE Placed'
    BY <2>0, <2>2, <2>3 DEF End, Keep, Goto
  <2>4. CASE StartCreate(w) \/ StartGeneral(w) \/ StartRotate(w) \/ StartLeave(w)
    BY <2>0, <2>2, <2>4 DEF StartCreate, StartGeneral, StartRotate, StartLeave, Begin, Keep, Goto,
                            server
  <2>5. CASE \/ CreateMembers(w) \/ CreateList(w) \/ CreateRole(w) \/ RotateMembers(w)
             \/ RotateList(w) \/ RotateChannels(w) \/ RotateOpen(w)
    <3>1. CASE CreateMembers(w) \/ CreateList(w)
      BY <2>0, <2>2, <3>1, CreateReads DEF CreateTold, Keep, Goto, server
    <3>2. CASE CreateRole(w)
      BY <2>0, <2>2, <2>3, <3>2 DEF CreateRole, Goto, server
    <3>3. CASE RotateMembers(w) \/ RotateList(w)
      BY <2>0, <2>2, <3>3, RotateReads DEF RotateTold, Keep, Goto, server
    <3>4. CASE RotateChannels(w) \/ RotateOpen(w)
      BY <2>0, <2>2, <3>4, RotateOpens DEF KeysInv, Renew, Keep, Goto, server
    <3>5. QED
      BY <2>5, <3>1, <3>2, <3>3, <3>4
  <2>6. CASE CreateStore(w) \/ LeaveClear(w) \/ CutOff(w) \/ Deadlock(w)
    BY <2>3, <2>6 DEF CreateStore, LeaveClear, CutOff, Deadlock, server
  <2>7. CASE RotateStore(w) \/ RotateMax(w) \/ RotateDelete(w) \/ RotateWait(w)
    BY <2>0, <2>2, <2>7 DEF RotateStore, RotateMax, RotateDelete, RotateWait, Keep, Goto, server
  <2>8. CASE CreateInsert(w)
    <3>0. CASE dropped
      BY <2>3, <2>8, <3>0 DEF CreateInsert
    <3> SUFFICES ASSUME ~dropped PROVE Placed'
      BY <3>0
    <3>1. rows' = rows /\ level' = Append(level, req[w].opens) /\ pc'[w] = "create_keys"
      BY <2>0, <2>8 DEF CreateInsert, Keep, Goto
    <3>2. DOMAIN level \subseteq DOMAIN level'
      BY <3>1, Domains, Requests DEF KeysInv, TypeOK
    <3>3. QED
      BY <2>1, <3>1, <3>2 DEF Placed
  <2>9. CASE CreateKeys(w)
    <3> DEFINE c == Max(req[w].todo)
               row(u) == RowsFor({u}, c, 1, req[w].key[c])
    <3>1. pc[w] = "create_keys" /\ level' = level /\ c \in DOMAIN level
      BY <2>9, CreatedChannel DEF CreateKeys
    <3>2. ASSUME NEW u \in req[w].list, rows' = rows \cup row(u), pc' = pc PROVE Placed'
      <4>1. \A r \in row(u) : r.chan = c
        BY DEF RowsFor
      <4> HIDE DEF c, row
      <4>2. \A r \in rows' : r.chan \in DOMAIN level'
        BY <3>1, <3>2, <4>1 DEF Placed
      <4>3. QED
        BY <2>1, <3>1, <3>2, <4>2
    <3>3. \/ End(w) /\ UNCHANGED <<rows, level>>
          \/ Goto(w, "create_store") /\ UNCHANGED <<rows, level>>
          \/ \E u \in req[w].list : rows' = rows \cup row(u) /\ pc' = pc
      BY <2>9 DEF CreateKeys
    <3>4. CASE Goto(w, "create_store") /\ UNCHANGED <<rows, level>>
      BY <2>0, <2>2, <3>4 DEF Goto
    <3>5. QED
      BY <2>3, <3>2, <3>3, <3>4
  <2>10. CASE RotateRole(w)
    <3>1. UNCHANGED <<rows, level>>
      BY <2>10 DEF RotateRole, server
    <3>2. CASE End(w)
      BY <2>3, <3>1, <3>2
    <3>3. CASE Goto(w, NextChannel(req[w].todo)) /\ req' = req
      <4>1. pc'[w] = "rotate_commit" => req'[w].todo = {}
        BY <2>0, <3>3 DEF Goto, NextChannel
      <4>2. QED
        BY <2>1, <3>1, <4>1 DEF Placed
    <3>4. QED
      BY <2>10, <3>2, <3>3 DEF RotateRole
  <2>11. CASE RotateInsert(w)
    <3> DEFINE left == req[w].todo \ {Chan(w)}
               r == [req[w] EXCEPT !.todo = left]
    <3>1. UNCHANGED <<rows, level>> /\ pc[w] = "rotate_insert"
      BY <2>11 DEF RotateInsert, server
    <3>2. CASE End(w)
      BY <2>3, <3>1, <3>2
    <3>3. CASE Keep(w, NextChannel(left), r)
      <4>1. r.todo = left
        BY <2>0 DEF Request
      <4>2. pc'[w] = NextChannel(left) /\ req'[w] = r
        BY <3>3, KeepMoves DEF KeysInv
      <4>3. pc'[w] = "rotate_commit" => req'[w].todo = {}
        BY <4>1, <4>2 DEF NextChannel
      <4>4. QED
        BY <2>1, <3>1, <4>3 DEF Placed
    <3>4. CASE UNCHANGED <<pc, req>>
      BY <2>2, <3>1, <3>4
    <3>5. QED
      BY <2>11, <3>2, <3>3, <3>4, Inserting
  <2>12. CASE RotateCommit(w)
    <3>1. /\ pc[w] = "rotate_commit" /\ level' = level /\ End(w)
          /\ rows' = (rows \ tx[w].del) \cup tx[w].ins
      BY <2>12 DEF RotateCommit
    <3>2. pc'[w] # "rotate_commit"
      BY <2>0, <3>1 DEF End, Keep, Goto
    <3>3. \A r \in tx[w].ins : r.chan \in DOMAIN level
      BY <3>1 DEF RotationInv, Slot, Inserts, KeysInv, Local, TxSteps, RotateSteps
    <3>4. \A r \in rows' : r.chan \in DOMAIN level'
      BY <3>1, <3>3 DEF Placed
    <3>5. QED
      BY <2>1, <3>2, <3>4
  <2>13. QED
    BY <1>2, <2>4, <2>5, <2>6, <2>7, <2>8, <2>9, <2>10, <2>11, <2>12 DEF Moves, Step
<1>3. QED
  BY <1>1, <1>2 DEF Next, Moves

\* A slot without a call that writes keys keeps nothing of one.
LEMMA CalmlyIdle ==
    ASSUME NEW w \in Workers,
           pc[w] \in {"idle", "leave_clear", "create_members", "create_list", "create_store",
                     "rotate_members", "rotate_list"}
    PROVE  Calmly(w)
  BY DEF Calmly, RotateSteps, TxSteps

\* What the rows have to say of a channel is what they had.
LEMMA SameRows ==
    ASSUME NEW c, RowsOf(c)' = RowsOf(c), gone' = gone
    PROVE  Top(c)' = Top(c) /\ (SameKeys /\ OneKey(c) => OneKey(c)')
<1>1. Top(c)' = Top(c)
  BY DEF Top
<1>2. ASSUME SameKeys, OneKey(c) PROVE OneKey(c)'
  BY <1>2 DEF OneKey, SameKeys
<1>3. QED
  BY <1>1, <1>2

\* A slot that does not move, and the rows neither.
LEMMA CalmlyKept ==
    ASSUME KeysInv, NEW w \in Workers, Alone(w), UNCHANGED <<rows, gone>>, SameKeys,
           NEW v \in Workers, v # w, Calmly(v)
    PROVE  Calmly(v)'
<1>1. pc'[v] = pc[v] /\ req'[v] = req[v] /\ tx'[v] = tx[v] /\ Keyed(v)' = Keyed(v)
  BY DEF Alone, Keyed
<1>2. \A c : RowsOf(c)' = RowsOf(c) /\ Top(c)' = Top(c)
  BY DEF RowsOf, Top
<1>3. Chan(v)' = Chan(v)
  BY <1>1 DEF Chan
<1>4. \A c \in DOMAIN req[v].key : req[v].key[c] \in DOMAIN made
  BY DEF KeysInv, Local, Keyed
<1>5. pc[v] \in {"create_role", "create_insert"} => 0 \in DOMAIN req[v].key
  BY DEF KeysInv, Local
<1>6. pc'[v] \in {"create_role", "create_insert"} =>
         req'[v].list # {} /\ made'[req'[v].key[0]].for = req'[v].list
  BY <1>1, <1>4, <1>5 DEF Calmly, SameKeys
<1>7. pc'[v] = "create_keys" => \A c \in req'[v].todo : Creates(v, c)'
  <2>1. pc[v] = "create_keys" => req[v].todo \subseteq DOMAIN req[v].key
    BY DEF KeysInv, Local
  <2>2. QED
    BY <1>1, <1>2, <1>4, <2>1 DEF Calmly, Creates, SameKeys
<1>8. \A c : Replaces(v, c) => Replaces(v, c)'
  BY <1>1, <1>2 DEF Replaces
<1>9. QED
  BY <1>1, <1>2, <1>3, <1>6, <1>7, <1>8 DEF Calmly

\* Steps of slot w that leave the rows and the channels alone.
LEMMA CalmMoves ==
    ASSUME KeysInv, Undisturbed, NEW w \in Workers, Moves(w), rows' = rows, level' = level,
           Busy(w)' => Busy(w) \/ \A v \in Workers : ~Busy(v),
           pc[w] # "create_keys", Calmly(w)'
    PROVE  Undisturbed'
<1>1. Alone(w) /\ SameKeys /\ gone' = gone
  BY MovesAlone, MovesMade, MovesGone
<1>2. \A v \in Workers \ {w} : pc'[v] = pc[v] /\ req'[v] = req[v] /\ (Busy(v)' <=> Busy(v))
  BY <1>1 DEF Alone, Busy
<1>3. \A x, v \in Workers : Busy(x)' /\ Busy(v)' => x = v
  <2>1. \A x, v \in Workers : Busy(x) /\ Busy(v) => x = v
    BY DEF Undisturbed
  <2>2. QED
    BY <1>2, <2>1
<1>4. \A v \in Workers : Calmly(v)'
  BY <1>1, CalmlyKept DEF Undisturbed
<1>5. ASSUME NEW c \in DOMAIN level' PROVE OneKey(c)' \/ Creation(c)'
  <2>1. OneKey(c) => OneKey(c)'
    BY <1>1, SameRows DEF RowsOf
  <2>2. Creation(c) => Creation(c)'
    BY <1>2 DEF Creation
  <2>3. QED
    BY <2>1, <2>2 DEF Undisturbed
<1>6. QED
  BY <1>3, <1>4, <1>5 DEF Undisturbed

\* Steps of slot w, alone at work, that change the rows or the channels.
LEMMA CalmWrites ==
    ASSUME KeysInv, Undisturbed, NEW w \in Workers, Moves(w), Busy(w), Calmly(w)',
           \A c \in DOMAIN level' :
              \/ OneKey(c)'
              \/ pc'[w] = "create_keys" /\ req'[w].todo = {c}
    PROVE  Undisturbed'
<1>1. Alone(w)
  BY MovesAlone
<1>2. \A v \in Workers \ {w} : pc'[v] = pc[v] /\ ~Busy(v) /\ ~Busy(v)'
  BY <1>1 DEF Alone, Busy, Undisturbed
<1>3. \A v \in Workers \ {w} : Calmly(v)'
  <2> SUFFICES ASSUME NEW v \in Workers, v # w PROVE Calmly(v)'
    OBVIOUS
  <2>1. pc'[v] \in {"idle", "leave_clear", "create_members", "create_store", "rotate_members"}
    BY <1>2 DEF Busy
  <2>2. QED
    BY <2>1 DEF Calmly, RotateSteps, TxSteps
<1>4. \A c \in DOMAIN level' : OneKey(c)' \/ Creation(c)'
  BY DEF Creation
<1>5. QED
  BY <1>2, <1>3, <1>4 DEF Undisturbed

\* What a channel that no creation works on has.
LEMMA Settles ==
    ASSUME KeysInv, Placed, Undisturbed, NEW w \in Workers, pc[w] \in RotateSteps,
           NEW c \in DOMAIN level
    PROVE  /\ OneKey(c)
           /\ \A n \in Nat \ {0} : (\A r \in rows : r.key < n) => Top(c) + 1 <= n
<1>1. ~Creation(c)
  <2>1. Busy(w) /\ pc[w] # "create_keys"
    BY DEF Busy, RotateSteps, TxSteps
  <2>2. \A v \in Workers : pc[v] = "create_keys" => Busy(v)
    BY DEF Busy
  <2>3. QED
    BY <2>1, <2>2 DEF Undisturbed, Creation
<1>2. OneKey(c)
  BY <1>1 DEF Undisturbed
<1>3. PICK k \in DOMAIN made : \E v \in 1..k :
         made[k].for # {} /\ RowsOf(c) = RowsFor(made[k].for \ gone, c, v, k)
  BY <1>2 DEF OneKey
<1>4. PICK v \in 1..k : RowsOf(c) = RowsFor(made[k].for \ gone, c, v, k)
  BY <1>3
<1>5. \A r \in RowsOf(c) : r.version = v /\ r.key = k /\ r \in rows
  BY <1>4 DEF RowsFor, RowsOf
<1>6. k \in Nat /\ v <= k /\ v \in Nat
  BY Domains DEF KeysInv
<1>7. Top(c) \in Nat /\ (Top(c) # 0 => \E r \in RowsOf(c) : r.version = Top(c))
  BY TopFacts DEF KeysInv, TypeOK
<1>8. ASSUME NEW n \in Nat \ {0}, \A r \in rows : r.key < n PROVE Top(c) + 1 <= n
  <2>1. CASE Top(c) = 0
    BY <2>1
  <2>2. CASE Top(c) # 0
    <3>1. Top(c) = v /\ k < n
      BY <1>5, <1>7, <1>8, <2>2
    <3>2. QED
      BY <1>6, <1>7, <3>1
  <2>3. QED
    BY <2>1, <2>2
<1>9. QED
  BY <1>2, <1>8

LEMMA CalmBegins ==
    ASSUME KeysInv, Undisturbed, NEW w \in Workers, calm', Moves(w),
           StartCreate(w) \/ StartGeneral(w) \/ StartRotate(w) \/ StartLeave(w)
    PROVE  Undisturbed'
<1>1. pc \in [Workers -> Steps \cup {"idle"}] /\ UNCHANGED <<rows, level>> /\ pc[w] = "idle"
  BY DEF KeysInv, TypeOK, StartCreate, StartGeneral, StartRotate, StartLeave, Begin, server
<1>2. CASE StartLeave(w)
  <2>1. pc'[w] = "leave_clear"
    BY <1>1, <1>2 DEF StartLeave, Keep, Goto
  <2>2. Calmly(w)' /\ ~Busy(w)'
    BY <2>1 DEF Busy, Calmly, RotateSteps, TxSteps
  <2>3. QED
    BY <1>1, <2>2, CalmMoves
<1>3. CASE StartCreate(w) \/ StartGeneral(w) \/ StartRotate(w)
  <2>1. pc'[w] \in {"create_members", "rotate_members"} /\ \A v \in Workers : pc[v] = "idle"
    BY <1>1, <1>3 DEF StartCreate, StartGeneral, StartRotate, Begin, Keep, Goto
  <2>2. Calmly(w)' /\ \A v \in Workers : ~Busy(v)
    BY <2>1 DEF Busy, Calmly, RotateSteps, TxSteps
  <2>3. QED
    BY <1>1, <2>2, CalmMoves
<1>4. QED
  BY <1>2, <1>3

\* The steps of a creation.
LEMMA CalmCreates ==
    ASSUME KeysInv, Placed, Undisturbed, NEW w \in Workers, calm', Moves(w),
           \/ CreateMembers(w) \/ CreateList(w) \/ CreateRole(w) \/ CreateInsert(w)
           \/ CreateStore(w)
    PROVE  Undisturbed'
<1>0. /\ pc \in [Workers -> Steps \cup {"idle"}] /\ req \in [Workers -> Request]
      /\ req[w] \in Request /\ Calmly(w)
  BY Requests DEF KeysInv, TypeOK, Undisturbed
<1>1. CASE CreateMembers(w) \/ CreateList(w)
  <2> DEFINE r(L) == [req[w] EXCEPT !.list = L, !.key = FreshKeys({0})]
  <2>2. pc[w] \in {"create_members", "create_list"} /\ UNCHANGED <<rows, level>>
    BY <1>1, CreateReads DEF server
  <2>0. CASE Goto(w, "create_list")
    <3>1. pc'[w] = "create_list"
      BY <1>0, <2>0 DEF Goto
    <3>2. Calmly(w)' /\ Busy(w)
      BY <2>2, <3>1 DEF Calmly, RotateSteps, TxSteps, Busy
    <3>3. QED
      BY <2>2, <3>2, CalmMoves
  <2> SUFFICES ASSUME ~Goto(w, "create_list") PROVE Undisturbed'
    BY <2>0
  <2>1. PICK L \in SUBSET Users : /\ Generate({0}, L, "create")
                                  /\ Keep(w, "create_role", r(L)) /\ L # {}
    BY <1>1, CreateReads DEF CreateTold
  <2>3. pc'[w] = "create_role" /\ req'[w] = r(L)
    BY <2>1, KeepMoves DEF KeysInv
  <2>4. IsFiniteSet({0}) /\ Cardinality({0}) = 1 /\ Len(made) \in Nat
    BY FS_Singleton, Domains DEF KeysInv
  <2>5. \A k \in (Len(made) + 1)..(Len(made) + 1) : made'[k].for = L
    <3>1. made \in Seq(Key) /\ "create" \in {"create", "rotate"}
      BY DEF KeysInv, TypeOK
    <3>2. \A k \in (Len(made) + 1)..(Len(made) + 1) :
             made'[k] = [for |-> L, by |-> "create", up |-> FALSE]
      BY <2>1, <2>4, <3>1, GenerateFacts
    <3>3. QED
      BY <3>2
  <2>6. FreshKeys({0}) \in [{0} -> (Len(made) + 1)..(Len(made) + 1)]
    BY <2>4, FreshKeysFacts
  <2>7. req'[w].list = L /\ req'[w].key = FreshKeys({0})
    BY <1>0, <2>3 DEF Request
  <2>8. Calmly(w)'
    <3>1. made'[req'[w].key[0]].for = L
      BY <2>5, <2>6, <2>7
    <3>2. QED
      BY <2>1, <2>3, <2>7, <3>1 DEF Calmly, RotateSteps, TxSteps
  <2>9. Busy(w)
    BY <2>2 DEF Busy
  <2>10. QED
    BY <2>2, <2>8, <2>9, CalmMoves
<1>2. CASE CreateRole(w)
  <2>1. pc[w] = "create_role" /\ UNCHANGED <<rows, level, made, req>> /\ pc'[w] = "create_insert"
    BY <1>0, <1>2 DEF CreateRole, Goto, server
  <2>2. Calmly(w)' /\ Busy(w)
    BY <1>0, <2>1 DEF Calmly, RotateSteps, TxSteps, Busy
  <2>3. QED
    BY <2>1, <2>2, CalmMoves
<1>3. CASE CreateStore(w)
  <2>1. pc[w] = "create_store" /\ UNCHANGED <<rows, level>> /\ pc'[w] = "idle"
    BY <1>0, <1>3 DEF CreateStore, End, Keep, Goto, server
  <2>2. Calmly(w)' /\ Busy(w)
    BY <2>1 DEF Calmly, RotateSteps, TxSteps, Busy
  <2>3. QED
    BY <2>1, <2>2, CalmMoves
<1>4. CASE CreateInsert(w)
  <2>b. ~dropped /\ gone' = gone
    BY <1>4, MovesGone DEF CreateInsert
  <2>a. PICK c, k : c = Len(level) + 1 /\ k = req[w].key[0]
    OBVIOUS
  <2> DEFINE r == [req[w] EXCEPT !.key = [d \in {c} |-> k], !.todo = {c}]
  <2>1. /\ pc[w] = "create_insert" /\ level' = Append(level, req[w].opens) /\ rows' = rows
        /\ Keep(w, "create_keys", r)
    BY <1>4, <2>a, <2>b DEF CreateInsert
  <2>2. pc'[w] = "create_keys" /\ req'[w] = r
    BY <2>1, KeepMoves DEF KeysInv
  <2>3. r.key = [d \in {c} |-> k] /\ r.todo = {c} /\ r.list = req[w].list
    BY <1>0 DEF Request
  <2>4. DOMAIN level' = DOMAIN level \cup {c} /\ c \notin DOMAIN level
    BY <1>0, <2>1, <2>a, Domains DEF KeysInv, TypeOK, Request
  <2>5. SameKeys
    BY MovesMade
  <2>6. made'[k].for = req[w].list /\ req[w].list # {}
    <3>1. k \in DOMAIN made
      BY <2>1, <2>a DEF KeysInv, Local, Keyed
    <3>2. QED
      BY <1>0, <2>1, <2>5, <2>a, <3>1 DEF Calmly, SameKeys
  <2>7. RowsOf(c)' = {}
    BY <2>1, <2>4 DEF RowsOf, Placed
  <2> HIDE DEF r
  <2>8. Calmly(w)'
    <3>1. RowsFor((made'[k].for \ req[w].list) \ gone', c, 1, k) = {}
      BY <2>6 DEF RowsFor
    <3>2. req'[w].key[c] = k /\ req'[w].list = req[w].list /\ req'[w].todo = {c}
      BY <2>2, <2>3
    <3>3. Creates(w, c)'
      BY <2>6, <2>7, <3>1, <3>2 DEF Creates
    <3>4. QED
      BY <2>2, <3>2, <3>3 DEF Calmly, RotateSteps, TxSteps
  <2>9. ASSUME NEW d \in DOMAIN level'
        PROVE  OneKey(d)' \/ (pc'[w] = "create_keys" /\ req'[w].todo = {d})
    <3>1. CASE d = c
      BY <2>2, <2>3, <3>1
    <3>2. CASE d # c
      <4>1. d \in DOMAIN level /\ ~Creation(d)
        BY <2>1, <2>4, <3>2 DEF Undisturbed, Creation, Busy
      <4>2. RowsOf(d)' = RowsOf(d)
        BY <2>1 DEF RowsOf
      <4>3. QED
        BY <2>5, <2>b, <4>1, <4>2, SameRows DEF Undisturbed
    <3>3. QED
      BY <3>1, <3>2
  <2>10. Busy(w)
    BY <2>1 DEF Busy
  <2>11. QED
    BY <2>8, <2>9, <2>10, CalmWrites
<1>5. QED
  BY <1>1, <1>2, <1>3, <1>4

\* The rows of a new channel, one by one.
LEMMA CalmKeys ==
    ASSUME KeysInv, Undisturbed, NEW w \in Workers, calm', Moves(w), CreateKeys(w)
    PROVE  Undisturbed'
<1>a. PICK c : c = Max(req[w].todo)
  OBVIOUS
<1>b. PICK k : k = req[w].key[c]
  OBVIOUS
<1> DEFINE row(u) == RowsFor({u}, c, 1, k)
<1>0. /\ pc \in [Workers -> Steps \cup {"idle"}] /\ req \in [Workers -> Request]
      /\ req[w] \in Request /\ Calmly(w)
  BY Requests DEF KeysInv, TypeOK, Undisturbed
<1>1. pc[w] = "create_keys" /\ UNCHANGED <<level, made>> /\ Busy(w)
  BY DEF CreateKeys, Busy
<1>2. /\ c \in DOMAIN level /\ req[w].todo = {c} /\ k \in DOMAIN made
  BY <1>1, <1>a, <1>b, CreatedChannel
<1>3. Creates(w, c)
  BY <1>0, <1>1, <1>2 DEF Calmly
<1>4. \A d \in DOMAIN level : d # c => OneKey(d)
  <2>1. \A d : d # c => ~Creation(d)
    BY <1>1, <1>2 DEF Undisturbed, Creation, Busy
  <2>2. QED
    BY <2>1 DEF Undisturbed
<1>5. SameKeys /\ gone' = gone
  BY MovesMade, MovesGone
<1>6. \/ req[w].list = {} /\ rows' = rows /\ pc'[w] \in {"idle", "create_store"}
      \/ \E u \in req[w].list : /\ rows' = rows \cup row(u) /\ pc' = pc /\ u \notin gone
                                /\ req' = [req EXCEPT ![w].list = @ \ {u}]
  <2>1. CASE /\ req[w].list = {} /\ rows' = rows
             /\ Goto(w, "create_store") \/ End(w)
    BY <1>0, <2>1 DEF End, Keep, Goto
  <2>2. \/ /\ req[w].list = {} /\ rows' = rows
           /\ Goto(w, "create_store") \/ End(w)
        \/ \E u \in req[w].list : /\ rows' = rows \cup row(u) /\ pc' = pc /\ u \notin gone
                                  /\ req' = [req EXCEPT ![w].list = @ \ {u}]
    BY <1>a, <1>b DEF CreateKeys, Lost
  <2>3. QED
    BY <2>1, <2>2
<1>7. CASE req[w].list = {} /\ rows' = rows /\ pc'[w] \in {"idle", "create_store"}
  <2>1. OneKey(c)
    <3>1. k \in DOMAIN made /\ 1 \in 1..k
      BY <1>2, Domains DEF KeysInv
    <3>2. made[k].for \ req[w].list = made[k].for
      BY <1>7
    <3>3. made[k].for # {} /\ RowsOf(c) = RowsFor(made[k].for \ gone, c, 1, k)
      BY <1>3, <1>b, <3>2 DEF Creates
    <3>4. QED
      BY <3>1, <3>3 DEF OneKey
  <2>2. \A d \in DOMAIN level' : OneKey(d)'
    BY <1>1, <1>4, <1>5, <1>7, <2>1, SameRows DEF RowsOf
  <2>3. Calmly(w)'
    BY <1>7 DEF Calmly, RotateSteps, TxSteps
  <2>4. QED
    BY <1>1, <2>2, <2>3, CalmWrites
<1>8. ASSUME NEW u \in req[w].list, rows' = rows \cup row(u), pc' = pc,
             req' = [req EXCEPT ![w].list = @ \ {u}], u \notin gone
      PROVE  Undisturbed'
  <2>1. /\ req'[w].list = req[w].list \ {u} /\ req'[w].key = req[w].key
        /\ req'[w].todo = {c}
    BY <1>0, <1>2, <1>8 DEF Request
  <2>2. RowsOf(c)' = RowsOf(c) \cup row(u) /\ \A d : d # c => RowsOf(d)' = RowsOf(d)
    BY <1>8 DEF RowsOf, RowsFor
  <2>3. /\ made[k].for # {} /\ req[w].list \subseteq made[k].for
        /\ RowsOf(c) = RowsFor((made[k].for \ req[w].list) \ gone, c, 1, k)
    BY <1>3, <1>b DEF Creates
  <2>4. RowsOf(c)' = RowsFor((made[k].for \ (req[w].list \ {u})) \ gone, c, 1, k)
    <3>1. (made[k].for \ (req[w].list \ {u})) \ gone
             = ((made[k].for \ req[w].list) \ gone) \cup {u}
      BY <1>8, <2>3
    <3>2. \A S, T : RowsFor(S \cup T, c, 1, k) = RowsFor(S, c, 1, k) \cup RowsFor(T, c, 1, k)
      BY DEF RowsFor
    <3>3. QED
      BY <2>2, <2>3, <3>1, <3>2
  <2>5. Creates(w, c)'
    BY <1>1, <1>5, <1>b, <2>1, <2>3, <2>4 DEF Creates
  <2>6. Calmly(w)'
    BY <1>1, <1>8, <2>1, <2>5 DEF Calmly, RotateSteps, TxSteps
  <2>7. \A d \in DOMAIN level' : OneKey(d)' \/ (pc'[w] = "create_keys" /\ req'[w].todo = {d})
    BY <1>1, <1>4, <1>5, <1>8, <2>1, <2>2, SameRows
  <2>8. QED
    BY <1>1, <2>6, <2>7, CalmWrites
<1>9. QED
  BY <1>6, <1>7, <1>8

\* A step of a rotation before its commit.
LEMMA CalmGoesOn ==
    ASSUME KeysInv, Undisturbed, NEW w \in Workers, Moves(w), UNCHANGED <<rows, level>>,
           pc[w] \in RotateSteps, pc'[w] \in RotateSteps, pc'[w] # "rotate_wait",
           req'[w].key = req[w].key, req'[w].list = req[w].list,
           pc'[w] \in {"rotate_delete", "rotate_insert"} =>
              (req[w].next > Top(Chan(w)) /\ req[w].next <= req[w].key[Chan(w)])',
           pc'[w] = "rotate_insert" =>
              /\ (RowsOf(Chan(w)) \subseteq tx[w].del)'
              /\ (\A r \in tx[w].ins : r.chan = Chan(w) => r.version = req[w].next)',
           pc'[w] \in TxSteps => /\ \A r \in (tx[w].del \cup tx[w].ins)' : r.chan \in DOMAIN req[w].key
                                 /\ \A c \in DOMAIN req[w].key \ req'[w].todo : Replaces(w, c)'
    PROVE  Undisturbed'
<1>1. Busy(w) /\ pc[w] # "create_keys"
  BY DEF Busy, RotateSteps, TxSteps
<1>2. pc'[w] \notin {"create_role", "create_insert", "create_keys"}
  BY DEF RotateSteps, TxSteps
<1>3. req[w].list # {} /\ \A r \in rows, k \in Keyed(w) : r.key < k
  BY DEF Undisturbed, Calmly
<1>4. \A r \in rows', k \in Keyed(w)' : r.key < k
  BY <1>3 DEF Keyed
<1>5. Calmly(w)'
  BY <1>2, <1>3, <1>4 DEF Calmly
<1>6. QED
  BY <1>1, <1>5, CalmMoves

\* What a rotation has done to a channel it has passed stays done.
LEMMA StillReplaces ==
    ASSUME NEW w \in Workers, NEW c, Replaces(w, c), rows' = rows,
           req'[w].key = req[w].key, req'[w].list = req[w].list,
           tx[w].del \subseteq tx'[w].del,
           {r \in tx'[w].ins : r.chan = c} = {r \in tx[w].ins : r.chan = c}
    PROVE  Replaces(w, c)'
<1>1. RowsOf(c)' = RowsOf(c) /\ Top(c)' = Top(c)
  BY DEF RowsOf, Top
<1>2. PICK v \in 1..req[w].key[c] :
         v > Top(c) /\ {r \in tx[w].ins : r.chan = c} = RowsFor(req[w].list, c, v, req[w].key[c])
  BY DEF Replaces
<1>3. RowsOf(c)' \subseteq tx'[w].del
  BY <1>1 DEF Replaces
<1>4. /\ v \in 1..req'[w].key[c] /\ v > Top(c)'
      /\ {r \in tx'[w].ins : r.chan = c} = RowsFor(req'[w].list, c, v, req'[w].key[c])
  BY <1>1, <1>2
<1>5. QED
  BY <1>3, <1>4 DEF Replaces

LEMMA CalmRotates ==
    ASSUME KeysInv, RotationInv, Placed, Undisturbed, NEW w \in Workers, calm', Moves(w),
           \/ RotateMembers(w) \/ RotateList(w) \/ RotateChannels(w) \/ RotateOpen(w)
           \/ RotateStore(w) \/ RotateRole(w) \/ RotateMax(w) \/ RotateWait(w)
    PROVE  Undisturbed'
<1>0. /\ pc \in [Workers -> Steps \cup {"idle"}] /\ req \in [Workers -> Request]
      /\ req[w] \in Request /\ Calmly(w)
  BY Requests DEF KeysInv, TypeOK, Undisturbed
<1>1. CASE RotateMembers(w) \/ RotateList(w)
  <2> DEFINE r(L) == [req[w] EXCEPT !.list = L]
  <2>2. pc[w] \in {"rotate_members", "rotate_list"} /\ UNCHANGED <<rows, level>>
    BY <1>1, RotateReads DEF server
  <2>0. CASE Goto(w, "rotate_list")
    <3>1. pc'[w] = "rotate_list"
      BY <1>0, <2>0 DEF Goto
    <3>2. Calmly(w)' /\ Busy(w)
      BY <2>2, <3>1 DEF Calmly, RotateSteps, TxSteps, Busy
    <3>3. QED
      BY <2>2, <3>2, CalmMoves
  <2> SUFFICES ASSUME ~Goto(w, "rotate_list") PROVE Undisturbed'
    BY <2>0
  <2>1. PICK L \in SUBSET Users : Keep(w, "rotate_channels", r(L)) /\ L # {}
    BY <1>1, RotateReads DEF RotateTold
  <2>3. pc'[w] = "rotate_channels" /\ req'[w] = r(L) /\ r(L).list = L
    BY <1>0, <2>1, KeepMoves DEF KeysInv, Request
  <2>4. Calmly(w)' /\ Busy(w)
    BY <2>1, <2>2, <2>3 DEF Calmly, RotateSteps, TxSteps, Busy
  <2>5. QED
    BY <2>2, <2>4, CalmMoves
<1>2. CASE RotateChannels(w) \/ RotateOpen(w)
  <2> DEFINE r(S) == [req[w] EXCEPT !.key = FreshKeys(S), !.todo = S]
  <2>2. pc[w] \in {"rotate_channels", "rotate_open"} /\ UNCHANGED <<rows, level>>
    BY <1>2, RotateOpens DEF KeysInv, server
  <2>a. IsFiniteSet(1..Len(level))
    <3>1. Len(level) \in Nat
      BY Domains DEF KeysInv
    <3>2. QED
      BY <3>1, FS_Interval
  <2>0. ASSUME NEW q \in Roles, Keep(w, "rotate_open", [req[w] EXCEPT !.as = q])
        PROVE  Undisturbed'
    <3>1. pc'[w] = "rotate_open" /\ req'[w].list = req[w].list
      BY <1>0, <2>0, KeepMoves DEF KeysInv, Request
    <3>2. Calmly(w)' /\ Busy(w)
      BY <1>0, <2>2, <3>1 DEF Calmly, RotateSteps, TxSteps, Busy
    <3>3. QED
      BY <2>2, <3>2, CalmMoves
  <2> SUFFICES ASSUME \A q \in Roles : ~Keep(w, "rotate_open", [req[w] EXCEPT !.as = q])
               PROVE  Undisturbed'
    BY <2>0
  <2>1. PICK S \in SUBSET DOMAIN level :
           Generate(S, req[w].list, "rotate") /\ Keep(w, "rotate_store", r(S))
    BY <1>2, RotateOpens DEF KeysInv, Renew
  <2>3. Len(made) \in Nat /\ DOMAIN made = 1..Len(made) /\ IsFiniteSet(S) /\ S \in SUBSET Nat
    <3>1. Len(level) \in Nat /\ DOMAIN level = 1..Len(level) /\ Len(made) \in Nat
          /\ DOMAIN made = 1..Len(made)
      BY Domains DEF KeysInv
    <3>2. S \subseteq 1..Len(level)
      BY <3>1
    <3>3. QED
      BY <2>a, <3>1, <3>2, FS_Subset
  <2>4. FreshKeys(S) \in [S -> (Len(made) + 1)..(Len(made) + Cardinality(S))]
        /\ Cardinality(S) \in Nat
    BY <2>3, FreshKeysFacts
  <2>5. r(S).key = FreshKeys(S) /\ r(S).list = req[w].list
    BY <1>0 DEF Request
  <2>6. pc'[w] = "rotate_store" /\ req'[w] = r(S)
    BY <2>1, KeepMoves DEF KeysInv
  <2>7. \A k \in Keyed(w)' : k \in (Len(made) + 1)..(Len(made) + Cardinality(S))
    BY <2>4, <2>5, <2>6 DEF Keyed
  <2>8. \A q \in rows : q.key \in 1..Len(made)
    BY <2>3 DEF RotationInv, Settled
  <2>9. \A q \in rows', k \in Keyed(w)' : q.key < k
    BY <2>2, <2>3, <2>4, <2>7, <2>8
  <2>10. req'[w].list # {}
    BY <1>0, <2>2, <2>5, <2>6 DEF Calmly
  <2>11. Calmly(w)' /\ Busy(w)
    BY <2>2, <2>6, <2>9, <2>10 DEF Calmly, TxSteps, Busy
  <2>12. QED
    BY <2>2, <2>11, CalmMoves
<1>3. CASE RotateStore(w)
  <2>1. pc[w] = "rotate_store" /\ UNCHANGED <<rows, level>>
        /\ pc'[w] \in {"rotate_store", "rotate_role"}
        /\ req'[w].key = req[w].key /\ req'[w].list = req[w].list
    BY <1>0, <1>3 DEF RotateStore, Keep, Goto, Request, server
  <2>2. pc[w] \in RotateSteps /\ pc'[w] \in RotateSteps /\ pc'[w] \notin TxSteps
        /\ pc'[w] \notin {"rotate_wait", "rotate_delete", "rotate_insert"}
    BY <2>1 DEF RotateSteps, TxSteps
  <2>3. QED
    BY <2>1, <2>2, CalmGoesOn
<1>4. CASE RotateRole(w)
  <2>1. /\ pc[w] = "rotate_role" /\ UNCHANGED <<rows, level>>
        /\ pc'[w] \in {"rotate_max", "rotate_commit"} /\ req' = req /\ tx' = tx
    BY <1>0, <1>4 DEF RotateRole, Goto, NextChannel, server
  <2>2. tx[w] = NoTx /\ req[w].todo = DOMAIN req[w].key
    BY <2>1 DEF KeysInv, Local, TxSteps, RotationInv, Slot
  <2>3. pc[w] \in RotateSteps /\ pc'[w] \in RotateSteps
        /\ pc'[w] \notin {"rotate_wait", "rotate_delete", "rotate_insert"}
    BY <2>1 DEF RotateSteps, TxSteps
  <2>4. (tx[w].del \cup tx[w].ins)' = {} /\ DOMAIN req[w].key \ req'[w].todo = {}
    BY <2>1, <2>2 DEF NoTx
  <2>5. QED
    BY <2>1, <2>3, <2>4, CalmGoesOn
<1>5. CASE RotateMax(w)
  <2> DEFINE r == [req[w] EXCEPT !.next = Top(Chan(w)) + 1]
  <2>1. /\ pc[w] = "rotate_max" /\ UNCHANGED <<rows, level, tx>> /\ Keep(w, "rotate_delete", r)
    BY <1>5 DEF RotateMax, server
  <2>2. /\ r.key = req[w].key /\ r.list = req[w].list /\ r.todo = req[w].todo
        /\ r.next = Top(Chan(w)) + 1
    BY <1>0 DEF Request
  <2> HIDE DEF r
  <2>3. pc'[w] = "rotate_delete" /\ req'[w] = r
    BY <2>1, KeepMoves DEF KeysInv
  <2>4. (req[w].next > Top(Chan(w)) /\ req[w].next <= req[w].key[Chan(w)])'
    <3>1. PICK c : c = Chan(w)
      OBVIOUS
    <3>2. Chan(w)' = c /\ Chan(w)' = Chan(w)
      BY <2>2, <2>3, <3>1 DEF Chan
    <3>3. Top(c) \in Nat
      BY TopFacts DEF KeysInv, TypeOK
    <3>4. pc[w] \in RotateSteps /\ req[w].todo # {}
      BY <2>1 DEF KeysInv, Local, RotateSteps, TxSteps
    <3>5. c \in DOMAIN level /\ req[w].key[c] \in Nat \ {0} /\ req[w].key[c] \in Keyed(w)
      BY <3>1, <3>4, NextToRotate, Domains DEF KeysInv, Keyed
    <3>6. \A q \in rows : q.key < req[w].key[c]
      BY <1>0, <3>4, <3>5 DEF Calmly
    <3>7. Top(c) + 1 <= req[w].key[c]
      BY <3>4, <3>5, <3>6, Settles
    <3>8. req'[w].next = Top(c) + 1 /\ req'[w].key[c] = req[w].key[c]
      BY <2>2, <2>3, <3>1
    <3>9. \A d : Top(d)' = Top(d)
      BY <2>1 DEF Top, RowsOf
    <3>10. Top(Chan(w))' = Top(c)
      BY <3>2, <3>9
    <3>11. req'[w].next > Top(c) /\ req'[w].next <= req'[w].key[c]
      BY <3>3, <3>5, <3>7, <3>8
    <3>12. QED
      BY <3>2, <3>10, <3>11
  <2>5. pc[w] \in RotateSteps /\ pc'[w] \in RotateSteps /\ pc[w] \in TxSteps
    BY <2>1, <2>3 DEF RotateSteps, TxSteps
  <2>6. /\ \A q \in (tx[w].del \cup tx[w].ins)' : q.chan \in DOMAIN req[w].key
        /\ \A c \in DOMAIN req[w].key \ req'[w].todo : Replaces(w, c)'
    <3>1. \A c \in DOMAIN req[w].key \ req[w].todo : Replaces(w, c)
      BY <1>0, <2>5 DEF Calmly
    <3>2. \A q \in tx[w].del \cup tx[w].ins : q.chan \in DOMAIN req[w].key
      BY <1>0, <2>5 DEF Calmly
    <3>3. QED
      BY <2>1, <2>2, <2>3, <3>1, <3>2, StillReplaces
  <2>7. QED
    BY <2>1, <2>2, <2>3, <2>4, <2>5, <2>6, CalmGoesOn
<1>6. CASE RotateWait(w)
  BY <1>0, <1>6 DEF RotateWait, Calmly
<1>7. QED
  BY <1>1, <1>2, <1>3, <1>4, <1>5, <1>6

\* The rows of the channel go: no other transaction is open.
LEMMA CalmDeletes ==
    ASSUME KeysInv, RotationInv, Undisturbed, NEW w \in Workers, Moves(w), RotateDelete(w)
    PROVE  Undisturbed'
<1> DEFINE S == RowsOf(Chan(w))
<1>0. /\ pc \in [Workers -> Steps \cup {"idle"}] /\ tx \in [Workers -> Transaction]
      /\ tx[w] \in Transaction /\ Calmly(w)
  BY Requests DEF KeysInv, TypeOK, Undisturbed, Transaction
<1>1. pc[w] = "rotate_delete" /\ UNCHANGED <<rows, level, req>>
  BY DEF RotateDelete, server
<1>2. pc[w] \in RotateSteps /\ pc[w] \in TxSteps
  BY <1>1 DEF RotateSteps, TxSteps
<1>3. ~Locked(w, S)
  <2>1. ASSUME NEW v \in Workers \ {w} PROVE tx[v] = NoTx
    <3>1. ~Busy(v)
      BY <1>1 DEF Busy, Undisturbed
    <3>2. pc[v] \notin TxSteps
      BY <3>1 DEF Busy, TxSteps
    <3>3. QED
      BY <3>2 DEF KeysInv, Local
  <2>2. QED
    BY <2>1 DEF Locked, NoTx
<1>4. Goto(w, "rotate_insert") /\ tx' = [tx EXCEPT ![w].del = @ \cup S]
  BY <1>3 DEF RotateDelete
<1>5. pc'[w] = "rotate_insert" /\ tx'[w].del = tx[w].del \cup S /\ tx'[w].ins = tx[w].ins
  BY <1>0, <1>4 DEF Goto, Transaction
<1>6. Chan(w) \in DOMAIN req[w].key
  BY <1>1, <1>2, NextToRotate DEF KeysInv, Local
<1>7. Chan(w)' = Chan(w) /\ \A c : RowsOf(c)' = RowsOf(c) /\ Top(c)' = Top(c)
  BY <1>1 DEF Chan, Top, RowsOf
<1>8. /\ (req[w].next > Top(Chan(w)) /\ req[w].next <= req[w].key[Chan(w)])'
      /\ (RowsOf(Chan(w)) \subseteq tx[w].del)'
  BY <1>0, <1>1, <1>5, <1>7 DEF Calmly
<1>a. (\A r \in tx[w].ins : r.chan = Chan(w) => r.version = req[w].next)'
  <2>1. Chan(w) \in req[w].todo
    BY <1>1, <1>2, NextToRotate DEF KeysInv, Local, TxSteps
  <2>2. \A r \in tx[w].ins : r.chan # Chan(w)
    BY <1>1, <1>2, <2>1 DEF RotationInv, Slot, Inserts
  <2>3. QED
    BY <1>5, <1>7, <2>2
<1>9. \A r \in (tx[w].del \cup tx[w].ins)' : r.chan \in DOMAIN req[w].key
  BY <1>0, <1>2, <1>5, <1>6 DEF Calmly, RowsOf
<1>10. \A c \in DOMAIN req[w].key \ req'[w].todo : Replaces(w, c)'
  <2>1. \A c \in DOMAIN req[w].key \ req[w].todo : Replaces(w, c)
    BY <1>0, <1>2 DEF Calmly
  <2> HIDE DEF S
  <2>2. QED
    BY <1>1, <1>5, <2>1, StillReplaces
<1>11. pc'[w] \in RotateSteps /\ pc'[w] # "rotate_wait"
  BY <1>5 DEF RotateSteps, TxSteps
<1>12. QED
  BY <1>1, <1>2, <1>8, <1>a, <1>9, <1>10, <1>11, CalmGoesOn

\* One of the channel's new rows: they have one version, above those it has and
\* among the keys there were.
LEMMA CalmRow ==
    ASSUME KeysInv, RotationInv, Undisturbed, NEW w \in Workers, Moves(w),
           pc[w] = "rotate_insert", NEW u \in Left(w),
           UNCHANGED <<rows, level, pc, req>>,
           tx' = [tx EXCEPT ![w].ins = @ \cup NewRows(w, {u})]
    PROVE  Undisturbed'
<1> DEFINE N == NewRows(w, {u})
<1>0. /\ tx \in [Workers -> Transaction] /\ tx[w] \in Transaction /\ Calmly(w)
  BY Requests DEF KeysInv, TypeOK, Undisturbed, Transaction
<1>1. pc[w] \in TxSteps /\ pc[w] \in RotateSteps /\ pc[w] \notin {"rotate_wait", "rotate_delete"}
  BY DEF TxSteps, RotateSteps
<1>2. PICK c : c = Chan(w)
  OBVIOUS
<1>3. c \in req[w].todo /\ c \in DOMAIN req[w].key /\ Chan(w)' = Chan(w)
  BY <1>1, <1>2, NextToRotate DEF KeysInv, Local, Chan
<1>4. \A q \in N : q.chan = c /\ q.version = req[w].next
  BY <1>2 DEF NewRows, RowsFor
<1>5. tx'[w].del = tx[w].del /\ tx'[w].ins = tx[w].ins \cup N
  BY <1>0 DEF Transaction
<1> HIDE DEF N
<1>6. \A d : RowsOf(d)' = RowsOf(d) /\ Top(d)' = Top(d)
  BY DEF RowsOf, Top
<1>7. (req[w].next > Top(Chan(w)) /\ req[w].next <= req[w].key[Chan(w)])'
  BY <1>0, <1>3, <1>6 DEF Calmly
<1>8. /\ (RowsOf(Chan(w)) \subseteq tx[w].del)'
      /\ (\A r \in tx[w].ins : r.chan = Chan(w) => r.version = req[w].next)'
  BY <1>0, <1>3, <1>4, <1>5, <1>6 DEF Calmly
<1>9. \A r \in (tx[w].del \cup tx[w].ins)' : r.chan \in DOMAIN req[w].key
  BY <1>0, <1>1, <1>3, <1>4, <1>5 DEF Calmly
<1>10. \A d \in DOMAIN req[w].key \ req'[w].todo : Replaces(w, d)'
  <2> SUFFICES ASSUME NEW d \in DOMAIN req[w].key \ req[w].todo PROVE Replaces(w, d)'
    OBVIOUS
  <2>1. Replaces(w, d) /\ d # c
    BY <1>0, <1>1, <1>3 DEF Calmly
  <2>2. {q \in tx'[w].ins : q.chan = d} = {q \in tx[w].ins : q.chan = d}
    BY <1>4, <1>5, <2>1
  <2>3. QED
    BY <1>5, <2>1, <2>2, StillReplaces
<1>11. pc'[w] \in RotateSteps /\ pc'[w] # "rotate_wait"
  BY <1>1
<1>12. QED
  BY <1>1, <1>7, <1>8, <1>9, <1>10, <1>11, CalmGoesOn

\* The channel has all its new rows: the next one's turn.
LEMMA CalmNextChannel ==
    ASSUME KeysInv, RotationInv, Undisturbed, NEW w \in Workers, Moves(w),
           pc[w] = "rotate_insert", UNCHANGED <<rows, level, tx>>, Left(w) = {},
           LET todo == req[w].todo \ {Chan(w)}
           IN  Keep(w, NextChannel(todo), [req[w] EXCEPT !.todo = todo])
    PROVE  Undisturbed'
<1> DEFINE left == req[w].todo \ {Chan(w)}
           r == [req[w] EXCEPT !.todo = left]
           s == NextChannel(left)
<1>0. tx[w] \in Transaction /\ req[w] \in Request /\ Calmly(w)
  BY Requests DEF KeysInv, TypeOK, Undisturbed, Transaction
<1>1. Keep(w, s, r)
  OBVIOUS
<1>2. r.key = req[w].key /\ r.todo = left /\ r.list = req[w].list
  BY <1>0 DEF Request
<1>3. /\ s \in {"rotate_max", "rotate_commit"}
      /\ pc[w] \in TxSteps /\ pc[w] \in RotateSteps /\ s \in RotateSteps
  BY DEF NextChannel, TxSteps, RotateSteps
<1> HIDE DEF r, s
<1>4. pc'[w] = s /\ req'[w] = r
  BY <1>1, KeepMoves DEF KeysInv
<1>5. PICK c : c = Chan(w)
  OBVIOUS
<1>6. /\ c \in req[w].todo /\ c \in DOMAIN req[w].key /\ c \in DOMAIN level
      /\ req[w].key[c] \in DOMAIN made
  BY <1>3, <1>5, NextToRotate DEF KeysInv, Local
<1> DEFINE v == req[w].next
           k == req[w].key[c]
<1>7. /\ v > Top(c) /\ v <= k /\ RowsOf(c) \subseteq tx[w].del
      /\ \A q \in tx[w].ins : q.chan = c => q.version = v
  BY <1>0, <1>5 DEF Calmly
<1>8. v \in 1..k
  <2>1. Top(c) \in Nat /\ k \in Nat /\ v \in Nat
    BY <1>0, <1>6, TopFacts, Domains DEF KeysInv, TypeOK, Request
  <2>2. QED
    BY <1>7, <2>1
<1>9. \A q \in tx[w].ins : q.chan = c => q.key = k /\ q.user \in req[w].list
  BY <1>3 DEF RotationInv, Slot, Inserts
<1>10. \A u \in req[w].list : \E q \in tx[w].ins : q.chan = c /\ q.user = u
  BY <1>5 DEF Left
<1>11. tx[w].ins \subseteq Row
  BY <1>0 DEF Transaction
<1> HIDE DEF v, k
<1>12. {q \in tx[w].ins : q.chan = c} = RowsFor(req[w].list, c, v, k)
  <2> DEFINE row(u) == [chan |-> c, user |-> u, version |-> v, key |-> k]
  <2>1. ASSUME NEW q \in tx[w].ins, q.chan = c PROVE q = row(q.user) /\ q.user \in req[w].list
    <3>1. q \in Row /\ q.version = v /\ q.key = k /\ q.user \in req[w].list
      BY <1>7, <1>9, <1>11, <2>1
    <3>2. QED
      BY <2>1, <3>1 DEF Row
  <2>2. ASSUME NEW u \in req[w].list PROVE row(u) \in tx[w].ins /\ row(u).chan = c
    <3>1. PICK q \in tx[w].ins : q.chan = c /\ q.user = u
      BY <1>10
    <3>2. q = row(u)
      BY <2>1, <3>1
    <3>3. QED
      BY <3>1, <3>2
  <2>3. RowsFor(req[w].list, c, v, k) = {row(u) : u \in req[w].list}
    BY DEF RowsFor
  <2> HIDE DEF row
  <2>4. QED
    BY <2>1, <2>2, <2>3
<1>13. Replaces(w, c)
  BY <1>7, <1>8, <1>12 DEF Replaces, k
<1>14. \A d \in DOMAIN req[w].key \ req'[w].todo : Replaces(w, d)'
  <2> SUFFICES ASSUME NEW d \in DOMAIN req[w].key \ left PROVE Replaces(w, d)'
    BY <1>2, <1>4
  <2>1. Replaces(w, d)
    BY <1>0, <1>3, <1>5, <1>13 DEF Calmly
  <2>2. req'[w].key = req[w].key /\ req'[w].list = req[w].list
    BY <1>2, <1>4
  <2>3. QED
    BY <2>1, <2>2, StillReplaces
<1>15. \A q \in (tx[w].del \cup tx[w].ins)' : q.chan \in DOMAIN req[w].key
  BY <1>0, <1>3 DEF Calmly
<1>16. pc'[w] \notin {"rotate_wait", "rotate_delete", "rotate_insert"}
  BY <1>3, <1>4
<1>17. req'[w].key = req[w].key /\ req'[w].list = req[w].list /\ pc'[w] \in RotateSteps
  BY <1>2, <1>3, <1>4
<1>18. QED
  BY <1>3, <1>14, <1>15, <1>16, <1>17, CalmGoesOn

LEMMA CalmInserts ==
    ASSUME KeysInv, RotationInv, Undisturbed, NEW w \in Workers, calm', Moves(w),
           RotateInsert(w)
    PROVE  Undisturbed'
<1>1. pc[w] = "rotate_insert" /\ UNCHANGED <<rows, level>>
  BY Inserting DEF server
<1>2. CASE \E u \in Left(w) : /\ UNCHANGED <<pc, req>>
                             /\ tx' = [tx EXCEPT ![w].ins = @ \cup NewRows(w, {u})]
  BY <1>1, <1>2, CalmRow
<1>3. CASE /\ Left(w) = {} /\ UNCHANGED tx
           /\ LET todo == req[w].todo \ {Chan(w)}
              IN  Keep(w, NextChannel(todo), [req[w] EXCEPT !.todo = todo])
  BY <1>1, <1>3, CalmNextChannel
<1>4. QED
  BY <1>2, <1>3, Inserting

\* What the commit leaves of a channel.
LEMMA Committed ==
    ASSUME KeysInv, RotationInv, Placed, Undisturbed, NEW w \in Workers, RotateCommit(w),
           NEW c \in DOMAIN level
    PROVE  \/ RowsOf(c)' = RowsOf(c)
           \/ \E k \in DOMAIN made : \E v \in 1..k :
                 /\ made[k].for # {} /\ made[k].for \ gone # {} /\ v > Top(c)
                 /\ RowsOf(c)' = RowsFor(made[k].for \ gone, c, v, k)
<1>1. pc[w] = "rotate_commit" /\ rows' = (rows \ tx[w].del) \cup tx[w].ins
      /\ pc[w] \in TxSteps /\ pc[w] \in RotateSteps
  BY DEF RotateCommit, TxSteps, RotateSteps
<1>2. /\ \A r \in tx[w].del \cup tx[w].ins : r.chan \in DOMAIN req[w].key
      /\ \A d \in DOMAIN req[w].key \ req[w].todo : Replaces(w, d)
      /\ req[w].list # {}
  BY <1>1 DEF Undisturbed, Calmly
<1>3. CASE c \notin DOMAIN req[w].key
  BY <1>1, <1>2, <1>3 DEF RowsOf
<1>4. CASE c \in DOMAIN req[w].key
  <2> DEFINE k == req[w].key[c]
  <2>1. Replaces(w, c)
    BY <1>1, <1>2, <1>4 DEF Placed
  <2>2. PICK v \in 1..k : /\ v > Top(c)
                          /\ {r \in tx[w].ins : r.chan = c} = RowsFor(req[w].list, c, v, k)
    BY <2>1 DEF Replaces
  <2>3. RowsOf(c)' = {r \in tx[w].ins : r.chan = c}
    BY <1>1, <2>1 DEF RowsOf, Replaces
  <2>4. k \in DOMAIN made /\ made[k].for = req[w].list
    BY <1>1, <1>4 DEF KeysInv, Local, Keyed, RotationInv, Slot, Rotates
  <2>5. req[w].list \ gone = req[w].list
    <3>1. ASSUME NEW u \in req[w].list PROVE u \notin gone
      <4> DEFINE r == [chan |-> c, user |-> u, version |-> v, key |-> k]
      <4>1. r \in RowsFor(req[w].list, c, v, k) /\ r.user = u
        BY DEF RowsFor
      <4> HIDE DEF r, k
      <4>2. r \in tx[w].ins
        BY <2>2, <4>1
      <4>3. QED
        BY <4>1, <4>2 DEF RotationInv, Slot
    <3>2. QED
      BY <3>1
  <2> HIDE DEF k
  <2>6. QED
    BY <1>2, <2>2, <2>3, <2>4, <2>5
<1>5. QED
  BY <1>3, <1>4

LEMMA CalmCommits ==
    ASSUME KeysInv, RotationInv, Placed, Undisturbed, NEW w \in Workers, Moves(w),
           RotateCommit(w)
    PROVE  Undisturbed'
<1>1. pc[w] = "rotate_commit" /\ level' = level /\ End(w) /\ pc[w] \in RotateSteps
  BY DEF RotateCommit, RotateSteps, TxSteps
<1>2. pc'[w] = "idle" /\ Busy(w)
  BY <1>1, Moved DEF End, Busy
<1>3. Calmly(w)'
  BY <1>2 DEF Calmly, RotateSteps, TxSteps
<1>4. SameKeys /\ gone' = gone
  BY MovesMade, MovesGone
<1>5. ASSUME NEW c \in DOMAIN level PROVE OneKey(c)'
  <2>1. CASE RowsOf(c)' = RowsOf(c)
    BY <1>1, <1>4, <2>1, Settles, SameRows
  <2>2. ASSUME NEW k \in DOMAIN made, NEW v \in 1..k, made[k].for # {},
               RowsOf(c)' = RowsFor(made[k].for \ gone, c, v, k)
        PROVE  OneKey(c)'
    <3>1. k \in DOMAIN made' /\ made'[k].for = made[k].for
      BY <1>4 DEF SameKeys
    <3>2. QED
      BY <1>4, <2>2, <3>1 DEF OneKey
  <2>3. QED
    BY <2>1, <2>2, Committed
<1>6. QED
  BY <1>1, <1>2, <1>3, <1>5, CalmWrites

\* An account takes its rows of every channel along, and leaves its place in the
\* lists of calls in progress.
LEMMA CalmDeletesAccount ==
    ASSUME KeysInv, RotationInv, Placed, Undisturbed, DeleteAccount
    PROVE  Undisturbed'
<1>1. PICK u \in Users \ gone :
         /\ \A w \in Workers : \A r \in tx[w].del \cup tx[w].ins : r.user # u
         /\ gone' = gone \cup {u} /\ rows' = {r \in rows : r.user # u}
  BY DEF DeleteAccount
<1>2. UNCHANGED <<level, made, pc, req, tx>>
  BY DEF DeleteAccount
<1>3. ASSUME NEW c PROVE /\ RowsOf(c)' = {r \in RowsOf(c) : r.user # u}
                         /\ Top(c) \in Nat /\ Top(c)' \in Nat /\ Top(c)' <= Top(c)
  <2>1. RowsOf(c)' = {r \in RowsOf(c) : r.user # u}
    BY <1>1 DEF RowsOf
  <2>2. RowsOf(c)' \subseteq RowsOf(c) /\ RowsOf(c) \subseteq rows
    BY <2>1 DEF RowsOf
  <2>3. Top(c) \in Nat /\ \A r \in RowsOf(c) : r.version <= Top(c)
    BY TopFacts DEF KeysInv, TypeOK
  <2>4. Top(c)' \in Nat /\ (Top(c)' # 0 => \E r \in RowsOf(c)' : r.version = Top(c)')
    <3>1. PICK T : T = RowsOf(c)'
      OBVIOUS
    <3>2. T \subseteq rows /\ rows \subseteq Row /\ IsFiniteSet(rows)
      BY <2>2, <3>1 DEF KeysInv, TypeOK
    <3>3. T \in SUBSET Row /\ IsFiniteSet(T)
      BY <3>2, FS_Subset
    <3>4. Top(c)' = Max({0} \cup {r.version : r \in T})
      BY <3>1 DEF Top
    <3>5. QED
      BY <3>1, <3>3, <3>4, HighestVersion
  <2>5. QED
    BY <2>1, <2>3, <2>4
<1>4. ASSUME NEW S, NEW c, NEW v, NEW k, RowsOf(c) = RowsFor(S \ gone, c, v, k)
      PROVE  RowsOf(c)' = RowsFor(S \ gone', c, v, k)
  <2>1. {r \in RowsFor(S \ gone, c, v, k) : r.user # u} = RowsFor((S \ gone) \ {u}, c, v, k)
    BY DEF RowsFor
  <2>2. (S \ gone) \ {u} = S \ gone'
    BY <1>1
  <2>3. QED
    BY <1>3, <1>4, <2>1, <2>2
<1>5. ASSUME NEW w \in Workers PROVE Calmly(w)'
  <2>1. Calmly(w) /\ Chan(w)' = Chan(w) /\ Keyed(w)' = Keyed(w)
    BY <1>2 DEF Undisturbed, Chan, Keyed
  <2>2. ASSUME NEW c, Creates(w, c) PROVE Creates(w, c)'
    <3>1. PICK k, S : k = req[w].key[c] /\ S = made[k].for \ req[w].list
      OBVIOUS
    <3>2. /\ made[k].for # {} /\ req[w].list \subseteq made[k].for
          /\ RowsOf(c) = RowsFor(S \ gone, c, 1, k)
      BY <2>2, <3>1 DEF Creates
    <3>3. RowsOf(c)' = RowsFor(S \ gone', c, 1, k)
      BY <1>4, <3>2
    <3>4. QED
      BY <1>2, <3>1, <3>2, <3>3 DEF Creates
  <2>3. ASSUME NEW c, Replaces(w, c), req[w].key[c] \in Nat PROVE Replaces(w, c)'
    <3>1. PICK v \in 1..req[w].key[c] :
             /\ v > Top(c)
             /\ {r \in tx[w].ins : r.chan = c} = RowsFor(req[w].list, c, v, req[w].key[c])
      BY <2>3 DEF Replaces
    <3>2. RowsOf(c)' \subseteq tx'[w].del
      BY <1>2, <1>3, <2>3 DEF Replaces
    <3>3. v > Top(c)'
      BY <1>3, <2>3, <3>1
    <3>4. QED
      BY <1>2, <3>1, <3>2, <3>3 DEF Replaces
  <2>4. \A c \in DOMAIN req[w].key : req[w].key[c] \in Nat
    <3>1. Keyed(w) \subseteq DOMAIN made /\ DOMAIN made \subseteq Nat
      BY Domains DEF KeysInv, Local
    <3>2. QED
      BY <3>1 DEF Keyed
  <2>5. pc'[w] \in {"rotate_delete", "rotate_insert"} =>
           (req[w].next > Top(Chan(w)) /\ req[w].next <= req[w].key[Chan(w)])'
    <3> SUFFICES ASSUME pc[w] \in {"rotate_delete", "rotate_insert"}
                 PROVE  (req[w].next > Top(Chan(w)) /\ req[w].next <= req[w].key[Chan(w)])'
      BY <1>2
    <3>1. PICK c, n : c = Chan(w) /\ n = req[w].next
      OBVIOUS
    <3>2. n \in Nat /\ n > Top(c) /\ n <= req[w].key[c]
      BY <2>1, <3>1, Requests DEF Calmly, KeysInv
    <3>3. n > Top(c)'
      BY <1>3, <3>2
    <3>4. Chan(w)' = c /\ req'[w].next = n /\ req'[w].key[c] = req[w].key[c]
      BY <1>2, <2>1, <3>1
    <3>5. Top(Chan(w))' = Top(c)'
      BY <3>4
    <3>6. QED
      BY <3>2, <3>3, <3>4, <3>5
  <2>6. pc'[w] = "create_keys" => \A c \in req'[w].todo : Creates(w, c)'
    BY <1>2, <2>1, <2>2 DEF Calmly
  <2>7. pc'[w] \in TxSteps => \A c \in DOMAIN req'[w].key \ req'[w].todo : Replaces(w, c)'
    BY <1>2, <2>1, <2>3, <2>4 DEF Calmly
  <2>8. pc'[w] = "rotate_insert" =>
           /\ (RowsOf(Chan(w)) \subseteq tx[w].del)'
           /\ (\A r \in tx[w].ins : r.chan = Chan(w) => r.version = req[w].next)'
    BY <1>2, <1>3, <2>1 DEF Calmly
  <2>9. \A r \in rows', k \in Keyed(w)' : r \in rows /\ k \in Keyed(w)
    BY <1>1, <2>1
  <2>10. QED
    BY <1>2, <2>1, <2>5, <2>6, <2>7, <2>8, <2>9 DEF Calmly
<1>6. ASSUME NEW c \in DOMAIN level' PROVE OneKey(c)' \/ Creation(c)'
  <2>1. ASSUME OneKey(c) PROVE OneKey(c)'
    <3>1. PICK k \in DOMAIN made : \E v \in 1..k :
             made[k].for # {} /\ RowsOf(c) = RowsFor(made[k].for \ gone, c, v, k)
      BY <2>1 DEF OneKey
    <3>2. PICK v \in 1..k : RowsOf(c) = RowsFor(made[k].for \ gone, c, v, k)
      BY <3>1
    <3>3. PICK S : S = made[k].for
      OBVIOUS
    <3>4. RowsOf(c)' = RowsFor(S \ gone', c, v, k)
      BY <1>4, <3>2, <3>3
    <3>5. QED
      BY <1>2, <3>1, <3>3, <3>4 DEF OneKey
  <2>2. Creation(c) => Creation(c)'
    BY <1>2 DEF Creation
  <2>3. QED
    BY <1>2, <2>1, <2>2 DEF Undisturbed
<1>7. QED
  BY <1>2, <1>5, <1>6 DEF Undisturbed, Busy

LEMMA CalmInvNext == ASSUME KeysInv, RotationInv, CalmInv, [Next]_vars PROVE CalmInv'
<1> SUFFICES ASSUME calm' PROVE Undisturbed'
  BY PlacedNext DEF CalmInv
<1>1. Placed /\ Undisturbed
  BY CalmIsOver DEF CalmInv
<1>a. CASE DeleteAccount
  BY <1>1, <1>a, CalmDeletesAccount
<1>b. ~DropServer
  BY DEF DropServer
<1>2. CASE UNCHANGED vars \/ OtherRoutes
  <2>1. UNCHANGED <<rows, level, made, pc, req, tx, gone>>
    BY <1>2 DEF vars, server, OtherRoutes
  <2>2. \A c : RowsOf(c)' = RowsOf(c) /\ Top(c)' = Top(c)
    BY <2>1 DEF RowsOf, Top
  <2>3. SameKeys
    BY <2>1 DEF SameKeys
  <2>4. ASSUME NEW w \in Workers PROVE Calmly(w)'
    <3>1. Calmly(w) /\ Chan(w)' = Chan(w)
      BY <1>1, <2>1 DEF Undisturbed, Chan
    <3>2. \A c : (Replaces(w, c) <=> Replaces(w, c)') /\ (Creates(w, c) <=> Creates(w, c)')
      BY <2>1, <2>2 DEF Replaces, Creates
    <3>3. QED
      BY <2>1, <2>2, <3>1, <3>2 DEF Calmly, Keyed
  <2>5. \A c \in DOMAIN level' : OneKey(c)' \/ Creation(c)'
    BY <1>1, <2>1, <2>2, <2>3, SameRows DEF Undisturbed, Creation
  <2>6. QED
    BY <1>1, <2>1, <2>4, <2>5 DEF Undisturbed, Busy
<1>3. ASSUME NEW w \in Workers, Moves(w) PROVE Undisturbed'
  <2>1. CASE StartCreate(w) \/ StartGeneral(w) \/ StartRotate(w) \/ StartLeave(w)
    BY <1>1, <1>3, <2>1, CalmBegins
  <2>2. CASE \/ CreateMembers(w) \/ CreateList(w) \/ CreateRole(w) \/ CreateInsert(w)
             \/ CreateStore(w)
    BY <1>1, <1>3, <2>2, CalmCreates
  <2>3. CASE CreateKeys(w)
    BY <1>1, <1>3, <2>3, CalmKeys
  <2>4. CASE \/ RotateMembers(w) \/ RotateList(w) \/ RotateChannels(w) \/ RotateOpen(w)
             \/ RotateStore(w) \/ RotateRole(w) \/ RotateMax(w) \/ RotateWait(w)
    BY <1>1, <1>3, <2>4, CalmRotates
  <2>5. CASE RotateDelete(w)
    BY <1>1, <1>3, <2>5, CalmDeletes
  <2>6. CASE RotateInsert(w)
    BY <1>1, <1>3, <2>6, CalmInserts
  <2>7. CASE RotateCommit(w)
    BY <1>1, <1>3, <2>7, CalmCommits
  <2>8. CASE LeaveClear(w)
    <3>1. pc[w] = "leave_clear" /\ UNCHANGED <<rows, level>> /\ End(w)
      BY <2>8 DEF LeaveClear, server
    <3>2. pc'[w] = "idle"
      BY <3>1, Moved DEF End
    <3>3. Calmly(w)' /\ ~Busy(w)'
      BY <3>2 DEF Calmly, RotateSteps, TxSteps, Busy
    <3>4. QED
      BY <1>1, <1>3, <3>1, <3>3, CalmMoves
  <2>9. ~CutOff(w) /\ ~Deadlock(w)
    BY DEF CutOff, Deadlock
  <2>10. QED
    BY <1>3, <2>1, <2>2, <2>3, <2>4, <2>5, <2>6, <2>7, <2>8, <2>9 DEF Moves, Step
<1>4. QED
  BY <1>a, <1>b, <1>2, <1>3 DEF Next, Moves

LEMMA CalmInvInit == ASSUME Init PROVE CalmInv
  BY DEF Init, CalmInv, Placed, Undisturbed, Busy, Calmly, RotateSteps, TxSteps

\* Where calls have run one at a time, undisturbed, every channel has one key
\* on the server, for all its recipients that have an account: createChannel
\* goes on until each member it was told of has a row, rotate-keys takes all
\* rows of a channel before it inserts new ones, and an account that goes takes
\* its own rows along, whatever call is in progress.
THEOREM OneKeyForEach == Spec => []OneKeyEach
<1>1. Init => KeysInv /\ RotationInv /\ CalmInv
  BY KeysInvInit, RotationInvInit, CalmInvInit
<1>2. KeysInv /\ RotationInv /\ CalmInv /\ [Next]_vars => (KeysInv /\ RotationInv /\ CalmInv)'
  BY KeysInvNext, RotationInvNext, CalmInvNext
<1>3. KeysInv /\ CalmInv => OneKeyEach
  <2> SUFFICES ASSUME KeysInv, CalmInv, calm, Quiet, NEW c \in DOMAIN level
               PROVE  \E k \in DOMAIN made, v \in 1..MaxKeys :
                         made[k].for # {} /\ RowsOf(c) = RowsFor(made[k].for \ gone, c, v, k)
    BY DEF OneKeyEach
  <2>1. OneKey(c)
    BY DEF CalmInv, Undisturbed, Creation, Quiet
  <2>2. PICK k \in DOMAIN made : \E v \in 1..k :
           made[k].for # {} /\ RowsOf(c) = RowsFor(made[k].for \ gone, c, v, k)
    BY <2>1 DEF OneKey
  <2>3. k \in 1..MaxKeys /\ MaxKeys \in Nat
    BY Domains, ChannelKeysAssumption DEF KeysInv
  <2>4. 1..k \subseteq 1..MaxKeys
    BY <2>3
  <2>5. QED
    BY <2>2, <2>4
<1>4. QED
  BY <1>1, <1>2, <1>3, PTL DEF Spec

\* The step property VersionsGrow is about.
Grows(c) == \/ RowsOf(c)' = {r \in RowsOf(c) : r.user \notin gone'}
            \/ Top(c)' > Top(c)
            \/ Top(c)' = Top(c) /\ RowsOf(c) \subseteq RowsOf(c)'

\* The highest version of a channel whose rows are of one version.
LEMMA TopOfOne ==
    ASSUME NEW c, NEW v \in Nat, RowsOf(c)' # {}, \A r \in RowsOf(c)' : r.version = v
    PROVE  Top(c)' = v
<1>1. ({0} \cup {r.version : r \in RowsOf(c)})' = {0, v}
  OBVIOUS
<1>2. IsFiniteSet({0, v})
  <2>1. IsFiniteSet({0}) /\ IsFiniteSet({v})
    BY FS_Singleton
  <2>2. {0, v} = {0} \cup {v}
    OBVIOUS
  <2>3. QED
    BY <2>1, <2>2, FS_Union
<1>3. Max({0, v}) \in {0, v} /\ \A n \in {0, v} : n <= Max({0, v})
  BY <1>2, MaxOfSet
<1>4. Max({0, v}) = v
  BY <1>3
<1>5. QED
  BY <1>1, <1>4 DEF Top

LEMMA RowsForOne ==
    ASSUME NEW S, S # {}, NEW c, NEW v, NEW k
    PROVE  RowsFor(S, c, v, k) # {} /\ \A r \in RowsFor(S, c, v, k) : r.version = v
<1> DEFINE row(u) == [chan |-> c, user |-> u, version |-> v, key |-> k]
<1>1. RowsFor(S, c, v, k) = {row(u) : u \in S}
  BY DEF RowsFor
<1>2. \A u \in S : row(u).version = v
  OBVIOUS
<1> HIDE DEF row
<1>3. QED
  BY <1>1, <1>2

LEMMA CalmlyGrows ==
    ASSUME KeysInv, RotationInv, CalmInv, [Next]_vars, calm', NEW c \in Channels
    PROVE  Grows(c)
<1>0. Placed /\ Undisturbed
  BY CalmIsOver DEF CalmInv
<1>1. CASE UNCHANGED <<rows, gone>>
  <2>1. \A r \in RowsOf(c) : r.user \notin gone'
    BY <1>1 DEF RotationInv, RowsOf
  <2>2. RowsOf(c)' = RowsOf(c)
    BY <1>1 DEF RowsOf
  <2>3. QED
    BY <2>1, <2>2 DEF Grows
<1>d. CASE DeleteAccount
  <2>1. PICK u \in Users \ gone : gone' = gone \cup {u} /\ rows' = {r \in rows : r.user # u}
    BY <1>d DEF DeleteAccount
  <2>2. \A r \in RowsOf(c) : r.user \notin gone
    BY DEF RotationInv, RowsOf
  <2>3. QED
    BY <2>1, <2>2 DEF Grows, RowsOf
<1>2. ASSUME NEW w \in Workers, CreateKeys(w) PROVE Grows(c)
  <2>g. gone' = gone
    BY <1>2, MovesGone DEF Moves, Step
  <2>a. PICK d : d = Max(req[w].todo)
    OBVIOUS
  <2>b. PICK k : k = req[w].key[d]
    OBVIOUS
  <2>1. rows' = rows \/ \E u \in req[w].list : rows' = rows \cup RowsFor({u}, d, 1, k)
    BY <1>2, <2>a, <2>b DEF CreateKeys
  <2>2. ASSUME NEW u \in req[w].list, rows' = rows \cup RowsFor({u}, d, 1, k) PROVE Grows(c)
    <3>1. CASE c # d
      <4>1. RowsOf(c)' = RowsOf(c) /\ \A r \in RowsOf(c) : r.user \notin gone'
        BY <2>2, <2>g, <3>1 DEF RowsOf, RowsFor, RotationInv
      <4>2. QED
        BY <4>1 DEF Grows
    <3>2. CASE c = d
      <4>1. req[w].todo = {d} /\ pc[w] = "create_keys"
        BY <1>2, <2>a, CreatedChannel DEF CreateKeys
      <4>2. \A r \in RowsOf(c) : r.version = 1
        BY <1>0, <3>2, <4>1 DEF Undisturbed, Calmly, Creates, RowsFor
      <4>3. RowsOf(c)' = RowsOf(c) \cup RowsFor({u}, d, 1, k)
        BY <2>2, <3>2 DEF RowsOf, RowsFor
      <4>4. RowsFor({u}, d, 1, k) # {} /\ \A r \in RowsFor({u}, d, 1, k) : r.version = 1
        BY RowsForOne
      <4>5. RowsOf(c)' # {} /\ \A r \in RowsOf(c)' : r.version = 1
        BY <4>2, <4>3, <4>4
      <4>6. Top(c)' = 1
        BY <4>5, TopOfOne
      <4>7. Top(c) = 0 \/ Top(c) = 1
        BY <4>2, TopFacts DEF KeysInv, TypeOK
      <4>8. QED
        BY <4>3, <4>6, <4>7 DEF Grows
    <3>3. QED
      BY <3>1, <3>2
  <2>3. QED
    BY <1>1, <2>1, <2>2, <2>g
<1>3. ASSUME NEW w \in Workers, RotateCommit(w) PROVE Grows(c)
  <2>g. gone' = gone
    BY <1>3, MovesGone DEF Moves, Step
  <2>s. ASSUME RowsOf(c)' = RowsOf(c) PROVE Grows(c)
    <3>1. \A r \in RowsOf(c) : r.user \notin gone'
      BY <2>g DEF RotationInv, RowsOf
    <3>2. QED
      BY <2>s, <3>1 DEF Grows
  <2>1. CASE c \in DOMAIN level
    <3>1. ASSUME NEW k \in DOMAIN made, NEW v \in 1..k, made[k].for \ gone # {}, v > Top(c),
                 RowsOf(c)' = RowsFor(made[k].for \ gone, c, v, k)
          PROVE  Grows(c)
      <4>1. v \in Nat
        BY Domains DEF KeysInv
      <4>2. RowsOf(c)' # {} /\ \A r \in RowsOf(c)' : r.version = v
        BY <3>1, RowsForOne
      <4>3. Top(c)' = v
        BY <4>1, <4>2, TopOfOne
      <4>4. QED
        BY <3>1, <4>3 DEF Grows
    <3>2. QED
      BY <1>0, <1>3, <2>1, <2>s, <3>1, Committed
  <2>2. CASE c \notin DOMAIN level
    <3>1. Placed' /\ level' = level
      BY <1>3, CalmInvNext DEF RotateCommit, CalmInv
    <3>2. RowsOf(c) = {} /\ RowsOf(c)' = {}
      BY <1>0, <2>2, <3>1 DEF RowsOf, Placed
    <3>3. QED
      BY <2>s, <3>2
  <2>3. QED
    BY <2>1, <2>2
<1>4. ASSUME NEW w \in Workers, Moves(w), ~CreateKeys(w), ~RotateCommit(w) PROVE rows' = rows
  <2>1. CASE CreateMembers(w) \/ CreateList(w) \/ RotateMembers(w) \/ RotateList(w)
    BY <2>1, CreateReads, RotateReads DEF server
  <2>2. CASE RotateChannels(w) \/ RotateOpen(w) \/ RotateInsert(w)
    BY <2>2, RotateOpens, Inserting DEF KeysInv, server
  <2>3. CASE StartCreate(w) \/ StartGeneral(w) \/ StartRotate(w) \/ StartLeave(w) \/ CutOff(w)
    BY <2>3 DEF StartCreate, StartGeneral, StartRotate, StartLeave, Begin, CutOff, server
  <2>4. CASE \/ CreateRole(w) \/ CreateInsert(w) \/ CreateStore(w) \/ RotateStore(w)
             \/ RotateRole(w) \/ RotateMax(w) \/ RotateDelete(w) \/ RotateWait(w)
             \/ Deadlock(w) \/ LeaveClear(w)
    BY <2>4 DEF CreateRole, CreateInsert, CreateStore, RotateStore, RotateRole, RotateMax,
                RotateDelete, RotateWait, Deadlock, LeaveClear, server
  <2>5. QED
    BY <1>4, <2>1, <2>2, <2>3, <2>4 DEF Moves, Step
<1>5. ASSUME NEW w \in Workers, Moves(w) PROVE Grows(c)
  BY <1>1, <1>2, <1>3, <1>4, <1>5, MovesGone
<1>6. CASE UNCHANGED vars \/ OtherRoutes
  BY <1>1, <1>6 DEF vars, server, OtherRoutes
<1>7. ~DropServer
  BY DEF DropServer
<1>8. QED
  BY <1>d, <1>5, <1>6, <1>7 DEF Next, Moves

\* ... and rows go with the accounts of their users, or for a higher key_version:
\* MAX(key_version) + 1 is above all the rows that a rotation replaces, and a
\* version that is there gets more rows only from the creation of its channel.
THEOREM KeyVersionsGrow == Spec => VersionsGrow
<1>1. Init => KeysInv /\ RotationInv /\ CalmInv
  BY KeysInvInit, RotationInvInit, CalmInvInit
<1>2. KeysInv /\ RotationInv /\ CalmInv /\ [Next]_vars => (KeysInv /\ RotationInv /\ CalmInv)'
  BY KeysInvNext, RotationInvNext, CalmInvNext
<1>3. KeysInv /\ RotationInv /\ CalmInv /\ [Next]_vars =>
         [calm' => \A c \in Channels :
             \/ RowsOf(c)' = {r \in RowsOf(c) : r.user \notin gone'}
             \/ Top(c)' > Top(c)
             \/ Top(c)' = Top(c) /\ RowsOf(c) \subseteq RowsOf(c)']_vars
  BY CalmlyGrows DEF Grows
<1>4. QED
  BY <1>1, <1>2, <1>3, PTL DEF Spec, VersionsGrow
=============================================================================
