-------------------------------- MODULE Lease --------------------------------
(***************************************************************************)
(* The heartbeat lease pipeline/sync_lock.py keeps in one row of the       *)
(* store: a process that falls silent for longer than the TTL is evicted   *)
(* by whoever asks next, and finds out at its next beat.                   *)
(*                                                                         *)
(* The row's heartbeat is kept as its age, counted up to one past the TTL, *)
(* which is as far as acquire() looks.  Whether a beat lands in time is the*)
(* environment's choice: a process may be paused, and a beat that meets a  *)
(* locked database is skipped.                                             *)
(***************************************************************************)
EXTENDS Integers

CONSTANTS
  Holders,       \* processes that may take the lease
  TTL,           \* ticks of silence before a lease is presumed dead
  MaxEpoch,      \* bound: epochs are counted round this many
  Nobody

ASSUME LeaseAssumption ==
  TTL \in Nat /\ MaxEpoch \in Nat \ {0} /\ Nobody \notin Holders

VARIABLES
  lock,          \* the sync_lock row: holder, age of heartbeat_at, epoch
  seat,          \* per process: the epoch it acquired with, 0 when it has not
  lost,          \* per process: its heartbeat thread has found the row taken
  proof          \* history, per process: time since the row last named it

leaseVars == <<lock, seat, lost, proof>>

Epochs == 0 .. MaxEpoch
Ages == 0 .. TTL + 1
Older(age) == IF age > TTL THEN age ELSE age + 1

LeaseInit ==
  /\ lock = [holder |-> Nobody, age |-> 0, epoch |-> 0]
  /\ seat = [p \in Holders |-> 0]
  /\ lost = [p \in Holders |-> FALSE]
  /\ proof = [p \in Holders |-> TTL + 1]

LeaseTypeOK ==
  /\ lock \in [holder : Holders \cup {Nobody}, age : Ages, epoch : Epochs]
  /\ seat \in [Holders -> Epochs]
  /\ lost \in [Holders -> BOOLEAN]
  /\ proof \in [Holders -> Ages]

Holding(p) == seat[p] /= 0

\* A slip: the heartbeat of whoever holds the row is taken at its word.
Free_OnTime == lock.holder = Nobody \/ lock.age >= TTL

\* epoch + 1.  A holder id is drawn per acquisition and a process here has one
\* acquisition at a time, so an epoch that comes round names nobody else.
NextEpoch == (lock.epoch % MaxEpoch) + 1

\* The compare-and-set of acquire(): free, or silent for longer than the TTL.
Free == lock.holder = Nobody \/ lock.age > TTL

Acquire(p) ==
  /\ ~Holding(p) /\ Free
  /\ lock' = [holder |-> p, age |-> 0, epoch |-> NextEpoch]
  /\ seat' = [seat EXCEPT ![p] = NextEpoch]
  /\ lost' = [lost EXCEPT ![p] = FALSE]
  /\ proof' = [proof EXCEPT ![p] = 0]

Ours(p) == lock.holder = p /\ lock.epoch = seat[p]

\* One round of _run_beats: the row is stamped only if it still names this
\* acquisition; otherwise the thread sets lost and ends.
Beat(p) ==
  /\ Holding(p) /\ ~lost[p]
  /\ IF Ours(p)
     THEN /\ lock' = [lock EXCEPT !.age = 0]
          /\ proof' = [proof EXCEPT ![p] = 0]
          /\ UNCHANGED lost
     ELSE lost' = [lost EXCEPT ![p] = TRUE] /\ UNCHANGED <<lock, proof>>
  /\ UNCHANGED seat

\* A slip: the row is freed whoever holds it.
Release_Unfenced(p) ==
  /\ Holding(p)
  /\ lock' = [lock EXCEPT !.holder = Nobody, !.age = 0]
  /\ seat' = [seat EXCEPT ![p] = 0]
  /\ lost' = [lost EXCEPT ![p] = FALSE]
  /\ proof' = [proof EXCEPT ![p] = TTL + 1]

\* __exit__: the row is freed only if it is still ours.
Release(p) ==
  /\ Holding(p)
  /\ lock' = IF Ours(p) THEN [lock EXCEPT !.holder = Nobody, !.age = 0] ELSE lock
  /\ seat' = [seat EXCEPT ![p] = 0]
  /\ lost' = [lost EXCEPT ![p] = FALSE]
  /\ proof' = [proof EXCEPT ![p] = TTL + 1]

\* The process dies: its memory is gone, the row stays until it goes stale.
Abandon(p) ==
  /\ Holding(p)
  /\ seat' = [seat EXCEPT ![p] = 0]
  /\ lost' = [lost EXCEPT ![p] = FALSE]
  /\ proof' = [proof EXCEPT ![p] = TTL + 1]
  /\ UNCHANGED lock

LeaseTick ==
  /\ lock' = IF lock.holder = Nobody THEN lock ELSE [lock EXCEPT !.age = Older(@)]
  /\ proof' = [p \in Holders |-> Older(proof[p])]
  /\ UNCHANGED <<seat, lost>>

\* No two processes at work under the lease have both been named by its row
\* within the TTL: whoever is evicted has been silent for longer than that.
\* (A process that has not noticed yet may still be writing.)
OneProven ==
  \A p, q \in Holders :
    /\ Holding(p) /\ proof[p] <= TTL
    /\ Holding(q) /\ proof[q] <= TTL
    => p = q
=============================================================================
