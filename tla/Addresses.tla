------------------------------ MODULE Addresses ------------------------------
(***************************************************************************)
(* What a mote is called: text in a drawing, two octets in a setup line,   *)
(* two bytes in a message, an integer in the key lists of its neighbours.  *)
(***************************************************************************)
EXTENDS Integers

CONSTANT Names     \* what motes are called: <<n, m>> for the label n.m
ASSUME NamesAssumption == Names \subseteq Nat \X Nat

Low(x) == x % 256                         \* what a byte keeps of a number
ShortLE(lo, hi) == lo + 256 * hi          \* an unsigned short in a mote's memory

\* A slip: the octets in the order in which they are written.
TransformAsWritten(n) == <<Low(n[1]), Low(n[2])>>

\* transformTo16BitHexString: the second octet first, and as much of each as
\* charArrayToHexString prints of a char.
TransformTo16Bit(n) == <<Low(n[2]), Low(n[1])>>

\* The address under which parse_extended_message inserts a neighbour's key.
StoredAddress(n) == ShortLE(TransformTo16Bit(n)[1], TransformTo16Bit(n)[2])

SetupAddress(n) == <<Low(n[1]), Low(n[2])>>         \* addr.u8[] of the setup command
RimeAddr2Int(a) == (a[1] * 256 + a[2]) % 65536      \* whose key a node looks up

\* Whatever a node is called, its neighbours keep its key under the address
\* that its setup line goes to; and two nodes whose octets fit a byte do not
\* share an address.
AddressesAgree ==
  \A n, m \in Names :
    /\ StoredAddress(n) = RimeAddr2Int(SetupAddress(n))
    /\ (n # m /\ {n[1], n[2], m[1], m[2]} \subseteq 0 .. 255) => StoredAddress(n) # StoredAddress(m)
=============================================================================
