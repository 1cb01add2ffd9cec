----------------------------- MODULE MCRoomLog -----------------------------
(* RoomLog for TLC: requests of one key with small nonces, and symmetry.    *)
EXTENDS RoomLog, TLC

CONSTANTS Key, Nonces

UnsignedOnly == {[did |-> Unsigned, nonce |-> 0]}
WithSigned == UnsignedOnly \cup [did : {Key}, nonce : Nonces]

WriterSymmetry == Permutations(Writers)
=============================================================================
