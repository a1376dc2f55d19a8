---------------------------- MODULE ResourceLocks ----------------------------
(***************************************************************************)
(* The table stage_resource_locks, internal/locks/postgres.go: at most one *)
(* row per lock key, naming the owner of the lock and the time the lock    *)
(* expires.  The owner is the id of a stage attempt; 0 stands for no row.  *)
(* Each operator is the effect of one SQL statement on the table.          *)
(***************************************************************************)
EXTENDS Integers

Row == [owner : Nat, expires : Int]
NoRow == [owner |-> 0, expires |-> 0]

\* Mutant: a lock may be taken over at the time it expires, not only later.
AcquirableAtExpiry(table, k, owner, now) ==
    table[k].owner \in {0, owner} \/ table[k].expires <= now

\* The INSERT ... ON CONFLICT statement changes a row: the key is free, its
\* lock has expired, or it is the owner's own.
Acquirable(table, k, owner, now) ==
    table[k].owner \in {0, owner} \/ table[k].expires < now

Acquire(table, ks, owner, expires) ==
    [k \in DOMAIN table |-> IF k \in ks THEN [owner |-> owner, expires |-> expires]
                            ELSE table[k]]

\* An UPDATE of the owner's rows only; no such row is not an error.
Refresh(table, ks, owner, expires) ==
    [k \in DOMAIN table |-> IF k \in ks /\ table[k].owner = owner
                            THEN [owner |-> owner, expires |-> expires]
                            ELSE table[k]]

Release(table, ks, owner) ==
    [k \in DOMAIN table |-> IF k \in ks /\ table[k].owner = owner THEN NoRow ELSE table[k]]
=============================================================================
