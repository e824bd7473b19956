---------------------------- MODULE MC_UdpCodec ----------------------------
EXTENDS UdpCodec

\* Transaction ids with a positive and a negative (all high bits set) value.
MCTids == {7, -2}
MCValidCid == BE(5, 8)
MCOtherCid == BE(-3, 8)
\* Two info hashes, one of them with its high bit set; only the first is
\* allowed by the access list.
MCHashBytes == {1, 200}
MCAllowed == {1}
====
