----------------------------- MODULE TtlManager -----------------------------
(***************************************************************************)
(* The table of block timers (agent/internal/ttl).  A timer is kept as the *)
(* ticks left until ExpiresAt, so that the passing of time, and not the    *)
(* value of the clock, is part of the state; the source of an entry, which *)
(* only log lines read, is left out.  Each operation below is one critical *)
(* section of Manager.mu.                                                  *)
(***************************************************************************)
EXTENDS Integers

CONSTANTS
    Key,            \* what a timer is for: the text of an address or subnet
    LocalBlockTTL,  \* Config.LocalBlockTTL, in ticks
    CloudBlockTTL,  \* Config.CloudBlockTTL, in ticks
    MaxTTL          \* the longest time to live a caller may ask for

VARIABLE entries    \* Manager.entries: ticks left, or NoEntry

NoEntry == -1
Due == 0

Tables == [Key -> NoEntry .. MaxTTL]
Empty == [k \in Key |-> NoEntry]

AdjustTTL(ttl, source) ==
    IF source = "cloud"
    THEN IF ttl <= 0 \/ ttl > CloudBlockTTL THEN CloudBlockTTL ELSE ttl
    ELSE IF ttl <= 0 THEN LocalBlockTTL ELSE ttl

\* Add for each of keys: an entry that exists is overwritten.
Add(keys, ttl, source) ==
    entries' = [k \in Key |-> IF k \in keys THEN AdjustTTL(ttl, source) ELSE entries[k]]

Remove(keys) ==
    entries' = [k \in Key |-> IF k \in keys THEN NoEntry ELSE entries[k]]

Expired == {k \in Key : entries[k] = Due}

\* The locked half of Sweep; the callback runs after it, without the lock.
Collect ==
    /\ Expired # {}
    /\ Remove(Expired)

\* Restore of what Snapshot returned some time ago.
Restore(snap) ==
    entries' = [k \in Key |-> IF snap[k] > Due THEN snap[k] ELSE entries[k]]

\* A tick takes every timer one step closer to ExpiresAt.
Elapse(table) ==
    [k \in Key |-> IF table[k] > Due THEN table[k] - 1 ELSE table[k]]
=============================================================================
