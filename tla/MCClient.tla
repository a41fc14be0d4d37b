------------------------------ MODULE MCClient ------------------------------
(* Client for TLC, and the padding of what it sends on bounded sizes.        *)
EXTENDS Client, Padding

Sizes == 0..17000

\* The loop of getBucket: the first of PADDING_BUCKETS in the order they are in.
FirstBucket(size) ==
    LET list == <<256, 1024, 4096, 16384>>
        fit == {i \in 1..4 : size <= list[i]}
    IN  list[IF fit = {} THEN 4 ELSE Min(fit)]

ASSUME \A n \in Sizes : getBucket(n) = FirstBucket(n)
ASSUME \A n \in Sizes :
    /\ GroupSize(n) # SealedSize(n)
    /\ Prefix + n <= 16384 => MessageSize(n) = MessageBucket(n) + Iv + Tag
ASSUME \A b, n \in {<< >>, <<7>>, <<7, 8>>} :
    SubSeq(b \o n, 1, Len(b)) = b
=============================================================================
