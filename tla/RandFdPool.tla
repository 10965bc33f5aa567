------------------------------ MODULE RandFdPool ------------------------------
(***************************************************************************)
(* The pool of random-port UDP sockets of src/forward.rs (`RandFdPool`).   *)
(*                                                                         *)
(* A pool is a record [slots, finger].  Slots 1..NumRRand are the fixed    *)
(* pool, later ones hold temporary overflow sockets (the code counts from  *)
(* 0).  A slot with refcount 0 is Rust's `None`: the code stores `None`    *)
(* whenever a count reaches 0.  The list of slots a transaction holds (the *)
(* code's `RfdList`) is a set here: its order only selects which of        *)
(* several sockets held for one server is used for a resend.               *)
(***************************************************************************)
EXTENDS Integers, Sequences, FiniteSets, FiniteSetsExt

CONSTANTS NumRRand,       \* size of the fixed pool
          RandPortLimit   \* sockets one transaction may hold per server

ASSUME PoolAssumption == NumRRand \in Nat \ {0} /\ RandPortLimit \in Nat \ {0}

\* A slot: refcount 0 is an empty one.
Slot == [refcount : Nat, server : Nat, temporary : BOOLEAN]

NoSocket == [refcount |-> 0, server |-> 0, temporary |-> FALSE]

NewSocket(srv, temp) == [refcount |-> 1, server |-> srv, temporary |-> temp]

EmptyPool == [slots |-> [k \in 1 .. NumRRand |-> NoSocket], finger |-> 0]

OpenSlots(slots) == {k \in DOMAIN slots : slots[k].refcount > 0}

FreeSlots(slots) == DOMAIN slots \ OpenSlots(slots)

\* The sockets of the transaction `fdl` that are pinned to server `srv`.
HeldFor(slots, fdl, srv) ==
  {k \in fdl \cap OpenSlots(slots) : slots[k].server = srv}

\* Sockets a transaction may piggy-back on once the fixed pool is full.
Shareable(slots, fdl, srv) ==
  {k \in OpenSlots(slots) \ fdl : ~slots[k].temporary /\ slots[k].server = srv}

\* The first shareable slot met walking round from `finger`.
ShareVictim(pool, fdl, srv) ==
  LET n     == Len(pool.slots)
      At(j) == ((j + pool.finger) % n) + 1
      Hits  == {j \in 0 .. n - 1 : At(j) \in Shareable(pool.slots, fdl, srv)}
  IN  At(Min(Hits))

\* The slot a temporary socket takes: the first empty one, or a pushed one.
OverflowSlot(slots) ==
  IF FreeSlots(slots) # {} THEN Min(FreeSlots(slots)) ELSE Len(slots) + 1

SetSlot(slots, k, s) ==
  [j \in 1 .. (IF k > Len(slots) THEN k ELSE Len(slots)) |->
      IF j = k THEN s ELSE slots[j]]

PutSocket(pool, k, s) == [pool EXCEPT !.slots = SetSlot(@, k, s)]

\* A bind() at slot k that succeeds, or fails and leaves everything as it was.
BindAt(pool, fdl, k, s) ==
  { [pool |-> PutSocket(pool, k, s), fdl |-> fdl \cup {k}, ok |-> TRUE],
    [pool |-> pool, fdl |-> fdl, ok |-> FALSE] }

\* One more user of the socket in slot k; the next walk starts after it.
ShareSocket(pool, k) ==
  [slots |-> [pool.slots EXCEPT ![k].refcount = @ + 1], finger |-> k]

\* `allocate`: the outcomes of asking for a source socket towards `srv`, for a
\* transaction that holds `fdl`.
Allocate(pool, fdl, srv) ==
  LET fixedFree == FreeSlots(pool.slots) \cap (1 .. NumRRand)
      victim    == ShareVictim(pool, fdl, srv)
  IN  CASE Cardinality(HeldFor(pool.slots, fdl, srv)) >= RandPortLimit ->
             {[pool |-> pool, fdl |-> fdl, ok |-> TRUE]}
        [] Cardinality(HeldFor(pool.slots, fdl, srv)) < RandPortLimit /\ fixedFree # {} ->
             BindAt(pool, fdl, Min(fixedFree), NewSocket(srv, FALSE))
        [] OTHER ->
             IF Shareable(pool.slots, fdl, srv) # {}
             THEN {[pool |-> ShareSocket(pool, victim), fdl |-> fdl \cup {victim}, ok |-> TRUE]}
             ELSE BindAt(pool, fdl, OverflowSlot(pool.slots), NewSocket(srv, TRUE))

\* Fault: a slot several queries release at once is released only once.
ReleasedOnce(s, n) ==
  IF n > 0 /\ (s.temporary \/ s.refcount <= 1)
  THEN NoSocket ELSE [s EXCEPT !.refcount = IF n > 0 THEN @ - 1 ELSE @]

\* One slot after it has been released n times.
Released(s, n) ==
  IF n > 0 /\ (s.temporary \/ s.refcount <= n)
  THEN NoSocket ELSE [s EXCEPT !.refcount = @ - n]

\* `free_rfds` on a list in which slot k occurs n[k] times: release each entry,
\* then pop the trailing empty overflow slots.
FreeRfds(pool, n) ==
  LET after == [k \in DOMAIN pool.slots |-> Released(pool.slots[k], n[k])]
      last  == Max({NumRRand} \cup OpenSlots(after))
  IN  [pool EXCEPT !.slots = [k \in 1 .. last |-> after[k]]]
===============================================================================
