------------------------------ MODULE Padding -------------------------------
(* Sizes and padding of encrypted messages: getBucket and padBuffer, which   *)
(* crypto/e2e.js and crypto/groups.js define alike, and the use each makes   *)
(* of them.  A buffer is a sequence of bytes; AES-GCM adds a tag of 16 bytes *)
(* to what it encrypts and opens nothing but exactly that.                   *)
EXTENDS Integers, Sequences

Prefix == 4
Tag == 16
Iv == 12
Word == 65536 * 65536

PADDING_BUCKETS == {256, 1024, 4096, 16384}

\* The first bucket that is large enough; the last one when none is.
getBucket(size) ==
    IF \E b \in PADDING_BUCKETS : size <= b
    THEN CHOOSE b \in PADDING_BUCKETS :
            size <= b /\ \A d \in PADDING_BUCKETS : size <= d => b <= d
    ELSE 16384

padSize(len, target) == IF Prefix + len > target THEN Prefix + len ELSE target

\* padBuffer: the length (setUint32, so modulo 2^32), the bytes, then noise.
padBuffer(buffer, noise) == [len |-> Len(buffer) % Word, rest |-> buffer \o noise]
\* decryptMessage: the first len bytes after the prefix.
strip(padded) == SubSeq(padded.rest, 1, padded.len)

\* encryptMessage pads, then encrypts, and puts the IV in front.
MessageBucket(len) == getBucket(Prefix + len)
MessageSize(len) == Iv + padSize(len, MessageBucket(len)) + Tag

\* encryptGroupMessage encrypts, then pads what it got for the bucket of the
\* plain text; decryptGroupMessage decrypts all of it.
SealedSize(len) == len + Tag
GroupSize(len) == padSize(SealedSize(len), getBucket(Prefix + len))
=============================================================================
