------------------------------ MODULE LeaseBook ------------------------------
(***************************************************************************)
(* What the DHCPv4 server promises about leases, whatever its tables look  *)
(* like: a book that says who holds which address, and the copy of it on   *)
(* disk.  One packet gives at most one address to one holder, or takes one *)
(* back; the copy is an earlier book or the current one; a restart reads   *)
(* back nothing but what the copy says.  Giving an address may cost other  *)
(* leases, at most two: those filed under the keys it passes through.      *)
(***************************************************************************)
CONSTANTS Addrs,      \* addresses
          Holders     \* who may hold one

VARIABLES book,       \* address |-> its holder, for the addresses given
          disk        \* the copy

Without(f, S) == [x \in DOMAIN f \ S |-> f[x]]
With(f, x, y) == [z \in DOMAIN f \cup {x} |-> IF z = x THEN y ELSE f[z]]

Init == book = <<>> /\ disk = <<>>

\* The copy is brought up to date, or that fails or is not due.
Copy == disk' \in {disk, book'}

\* The addresses that lose their holder.
Lost == DOMAIN book \ DOMAIN book'

Give(a, h) ==
  /\ book' = With(Without(book, Lost), a, h)
  /\ \E x, y \in Addrs : Lost \subseteq {x, y}
  /\ Copy

Take(a) == book' = Without(book, {a}) /\ Copy

CatchUp == UNCHANGED book /\ disk' = book

Recover == (\E S \in SUBSET DOMAIN disk : book' = Without(disk, S)) /\ UNCHANGED disk

Next ==
  \/ \E a \in Addrs, h \in Holders : Give(a, h)
  \/ \E a \in Addrs : Take(a)
  \/ CatchUp \/ Recover

Spec == Init /\ [][Next]_<<book, disk>>
===============================================================================
