---------------------------- MODULE MCChannelDMReply ----------------------------
(* Small instances of ChannelDMReply for TLC.                                    *)
EXTENDS ChannelDMReply

CONSTANTS r1, r2, k1, k2

BothDatabases == {TRUE, FALSE}
Symmetry == Permutations(Requests)
=================================================================================
