--------------------------- MODULE ConnectionPool ---------------------------
(***************************************************************************)
(* ConnectionPool and ReadGuard: a fixed number of read-only SQLite        *)
(* connections, opened with SQLITE_OPEN_NOMUTEX, handed to one thread at a *)
(* time. acquire waits on a condition variable for a free slot; release    *)
(* frees the slot under the mutex and notifies after unlocking. The guards *)
(* are taken in the DAL's queries only, so no thread asks for a second.    *)
(***************************************************************************)
EXTENDS Naturals, FiniteSets

CONSTANTS Threads, PoolSize, None

ASSUME PoolSizeAssumption == PoolSize \in Nat \ {0}
ASSUME NoneAssumption == None \notin 1..PoolSize
ASSUME ThreadsAssumption == IsFiniteSet(Threads)

VARIABLES
  in_use,   \* slot -> BOOLEAN
  conn,     \* thread -> the slot its ReadGuard holds, or None
  at        \* thread -> where it is

poolVars == <<in_use, conn, at>>

Slots == 1..PoolSize
Places == {"out", "wait", "woken", "in", "notify"}

PoolInit ==
  /\ in_use = [x \in Slots |-> FALSE]
  /\ conn = [t \in Threads |-> None]
  /\ at = [t \in Threads |-> "out"]

(* The constructor gives up, and the server does not start, when one of     *)
(* the connections cannot be opened.                                        *)

SomeFree == \E x \in Slots : ~in_use[x]

(* The first slot that is not in use.                                       *)
Take(t) ==
  \E x \in Slots :
    /\ ~in_use[x]
    /\ \A y \in 1..(x - 1) : in_use[y]
    /\ in_use' = [in_use EXCEPT ![x] = TRUE]
    /\ conn' = [conn EXCEPT ![t] = x]
    /\ at' = [at EXCEPT ![t] = "in"]

Block(t) ==
  /\ ~SomeFree
  /\ at' = [at EXCEPT ![t] = "wait"]
  /\ UNCHANGED <<in_use, conn>>

(* acquire: under the mutex the predicate is tested, and again after every  *)
(* wake-up; waiting gives the mutex back.                                   *)
Acquire(t) ==
  /\ at[t] \in {"out", "woken"}
  /\ Take(t) \/ Block(t)

SpuriousWakeup(t) ==
  /\ at[t] = "wait"
  /\ at' = [at EXCEPT ![t] = "woken"]
  /\ UNCHANGED <<in_use, conn>>

(* release, first half: the slot is freed under the mutex.                  *)
Release(t) ==
  /\ at[t] = "in"
  /\ in_use' = [in_use EXCEPT ![conn[t]] = FALSE]
  /\ conn' = [conn EXCEPT ![t] = None]
  /\ at' = [at EXCEPT ![t] = "notify"]

(* Mutant: notify_one is forgotten.                                         *)
NotifyNobody(t) ==
  /\ at[t] = "notify"
  /\ at' = [at EXCEPT ![t] = "out"]
  /\ UNCHANGED <<in_use, conn>>

(* release, second half: notify_one after the unlock.                       *)
Notify(t) ==
  /\ at[t] = "notify"
  /\ \/ \E u \in Threads : /\ at[u] = "wait"
                           /\ at' = [at EXCEPT ![t] = "out", ![u] = "woken"]
     \/ /\ \A u \in Threads : at[u] # "wait"
        /\ at' = [at EXCEPT ![t] = "out"]
  /\ UNCHANGED <<in_use, conn>>

PoolStep(t) == Acquire(t) \/ SpuriousWakeup(t) \/ Release(t) \/ Notify(t)
PoolNext == \E t \in Threads : PoolStep(t)
PoolSpec == PoolInit /\ [][PoolNext]_poolVars

-----------------------------------------------------------------------------
PoolTypeOK ==
  /\ in_use \in [Slots -> BOOLEAN]
  /\ conn \in [Threads -> Slots \cup {None}]
  /\ at \in [Threads -> Places]

(* A connection, which must not be used by two threads at once, is held by  *)
(* at most one thread, and a slot is marked in use exactly while a thread   *)
(* holds it: none is lost and none is handed out twice.                     *)
ConnectionsExclusive ==
  /\ \A t, u \in Threads : t # u /\ conn[t] # None => conn[t] # conn[u]
  /\ \A x \in Slots : in_use[x] <=> \E t \in Threads : conn[t] = x

(* A thread sleeps while a connection is free only if somebody has been, or *)
(* is about to be, notified (the notification comes after the unlock).      *)
NobodySleepsInVain ==
  (SomeFree /\ \E t \in Threads : at[t] = "wait")
    => \E t \in Threads : at[t] \in {"woken", "notify"}
=============================================================================
