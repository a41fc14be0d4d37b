---------------------------- MODULE PaddingProofs ---------------------------
(* What the padding of messages hides, and what it breaks.                   *)
EXTENDS Padding, TLAPS

LEMMA NoWrap ==
    ASSUME NEW k \in Nat, NEW w \in Nat, k < w
    PROVE  k % w = k
  BY SMT

LEMMA SmallestBucket ==
    ASSUME NEW n \in Nat, n <= 16384
    PROVE  /\ getBucket(n) \in PADDING_BUCKETS
           /\ n <= getBucket(n)
           /\ \A d \in PADDING_BUCKETS : n <= d => getBucket(n) <= d
<1> DEFINE P(b) == n <= b /\ \A d \in PADDING_BUCKETS : n <= d => b <= d
<1>1. \E b \in PADDING_BUCKETS : P(b)
  <2>1. CASE n <= 256
    BY SMT, <2>1 DEF PADDING_BUCKETS
  <2>2. CASE 256 < n /\ n <= 1024
    BY SMT, <2>2 DEF PADDING_BUCKETS
  <2>3. CASE 1024 < n /\ n <= 4096
    BY SMT, <2>3 DEF PADDING_BUCKETS
  <2>4. CASE 4096 < n
    BY SMT, <2>4 DEF PADDING_BUCKETS
  <2> QED
    BY SMT, <2>1, <2>2, <2>3, <2>4
<1>2. getBucket(n) = CHOOSE b \in PADDING_BUCKETS : P(b)
  BY SMT, <1>1 DEF getBucket
<1>3. getBucket(n) \in PADDING_BUCKETS /\ P(getBucket(n))
  <2> HIDE DEF P
  <2> QED
    BY SMT, <1>1, <1>2
<1> QED
  BY SMT, <1>3

\* A direct message whose JSON fits the largest bucket is as long as its bucket,
\* the IV and the tag together: all messages of one bucket look alike
\* (encryptMessage).
THEOREM MessageSizeHidesLength ==
    ASSUME NEW m \in Nat, NEW n \in Nat, Prefix + m <= 16384, Prefix + n <= 16384,
           MessageBucket(m) = MessageBucket(n)
    PROVE  MessageSize(m) = MessageSize(n) /\ MessageSize(n) = MessageBucket(n) + Iv + Tag
<1>1. Prefix + m <= getBucket(Prefix + m) /\ Prefix + n <= getBucket(Prefix + n)
  BY SMT, SmallestBucket DEF Prefix
<1>2. getBucket(Prefix + m) \in Nat /\ getBucket(Prefix + n) \in Nat
  BY SMT, SmallestBucket DEF Prefix, PADDING_BUCKETS
<1> QED
  BY SMT, <1>1, <1>2 DEF MessageSize, MessageBucket, padSize, Prefix, Iv, Tag

\* decryptMessage gives back the bytes that encryptMessage padded, whatever the
\* noise, for any message shorter than the prefix can count.
THEOREM StripUndoesPadding ==
    ASSUME NEW buffer \in Seq(0..255), NEW noise \in Seq(0..255),
           Len(buffer) < Word
    PROVE  strip(padBuffer(buffer, noise)) = buffer
<1>1. Word \in Nat
  BY SMT DEF Word
<1>2. Len(buffer) \in Nat
  BY SMT
<1>3. Len(buffer) % Word = Len(buffer)
  BY <1>1, <1>2, NoWrap
<1>4. strip(padBuffer(buffer, noise)) = SubSeq(buffer \o noise, 1, Len(buffer))
  BY SMT, <1>3 DEF strip, padBuffer
<1>5. SubSeq(buffer \o noise, 1, Len(buffer)) = buffer
  BY SMT
<1> QED
  BY SMT, <1>4, <1>5

\* A channel message keeps the size of its bucket only where the tag and the
\* prefix still fit: the last 16 lengths of every bucket are sent as they are
\* (encryptGroupMessage takes the bucket before it adds the tag).
THEOREM GroupSizeAtTheEdge ==
    ASSUME NEW n \in Nat, Prefix + n <= 16384
    PROVE  GroupSize(n) = getBucket(Prefix + n)
              <=> Prefix + n + Tag <= getBucket(Prefix + n)
<1>1. getBucket(Prefix + n) \in Nat
  BY SMT, SmallestBucket DEF Prefix, PADDING_BUCKETS
<1> QED
  BY SMT, <1>1 DEF GroupSize, SealedSize, padSize, Prefix, Tag

\* What decryptGroupMessage hands to AES-GCM never has the size of what
\* encryptGroupMessage got from it: the prefix and the noise are still there,
\* and no message of any length opens.
THEOREM GroupNeverOpens ==
    ASSUME NEW n \in Nat
    PROVE  GroupSize(n) > SealedSize(n)
<1>1. getBucket(Prefix + n) \in Int
  <2>1. CASE Prefix + n <= 16384
    BY SMT, <2>1, SmallestBucket DEF Prefix, PADDING_BUCKETS
  <2>2. CASE ~(Prefix + n <= 16384)
    BY SMT, <2>2 DEF getBucket, Prefix, PADDING_BUCKETS
  <2> QED
    BY SMT, <2>1, <2>2
<1> QED
  BY SMT, <1>1 DEF GroupSize, SealedSize, padSize, Prefix, Tag
=============================================================================
