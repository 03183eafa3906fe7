------------------------------ MODULE MCServices ------------------------------
EXTENDS Services

CONSTANTS s1, s2, s3, s4, x1, x2, p1

MCChainOps == [c \in Chain |-> IF c = x1 THEN 3 ELSE 2]

\* More senders than buffers; two chains; both beside a plain read.
MCMix == {{s1, s2, s3, s4, p1}, {s1, x1, x2, p1}, {s1, s2, s3, x1, p1}}

\* Buckets of one, two and four pages.
MCBucketSizes == <<1, 2, 4>>
=============================================================================
