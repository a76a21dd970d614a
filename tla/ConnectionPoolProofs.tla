------------------------ MODULE ConnectionPoolProofs ------------------------
(***************************************************************************)
(* Proofs about ConnectionPool, for any number of threads and connections. *)
(*                                                                         *)
(* That a connection has one user needs that a thread holds a connection   *)
(* exactly while it is between acquire and release. That nobody sleeps in  *)
(* vain is an argument by counting: while a thread sleeps there are as     *)
(* many wake-ups on their way as there are free connections, since every   *)
(* release adds one of each and a thread that takes a connection after a   *)
(* wake-up uses up one of each.                                            *)
(***************************************************************************)
EXTENDS ConnectionPool, FiniteSetTheorems, TLAPS

HoldsInside == \A t \in Threads : at[t] = "in" <=> conn[t] # None

PoolInv == PoolTypeOK /\ HoldsInside /\ ConnectionsExclusive

Free == {x \in Slots : ~in_use[x]}
Awake == {t \in Threads : at[t] \in {"woken", "notify"}}
Waiting == \E t \in Threads : at[t] = "wait"

WakeupsMatch == Waiting => Cardinality(Free) <= Cardinality(Awake)

LEMMA InitPoolInv == PoolInit => PoolInv
BY NoneAssumption DEF PoolInit, PoolInv, PoolTypeOK, HoldsInside, ConnectionsExclusive, Slots, Places

LEMMA TakeKeeps ==
  ASSUME PoolInv, NEW t \in Threads, at[t] \in {"out", "woken"}, Take(t)
  PROVE  PoolInv'
<1>1. PICK x \in Slots : /\ ~in_use[x]
                         /\ in_use' = [in_use EXCEPT ![x] = TRUE]
                         /\ conn' = [conn EXCEPT ![t] = x]
                         /\ at' = [at EXCEPT ![t] = "in"]
  BY DEF Take
<1>2. x # None /\ conn[t] = None
  BY NoneAssumption DEF Slots, PoolInv, HoldsInside
<1>3. PoolTypeOK'
  BY <1>1 DEF PoolInv, PoolTypeOK, Places
<1>4. HoldsInside'
  BY <1>1, <1>2 DEF PoolInv, PoolTypeOK, HoldsInside
<1>5. \A u \in Threads : conn[u] # x
  BY <1>1 DEF PoolInv, ConnectionsExclusive
<1>6. ConnectionsExclusive'
  <2>1. \A u \in Threads : conn'[u] = IF u = t THEN x ELSE conn[u]
    BY <1>1 DEF PoolInv, PoolTypeOK
  <2>2. \A y \in Slots : in_use'[y] = IF y = x THEN TRUE ELSE in_use[y]
    BY <1>1 DEF PoolInv, PoolTypeOK
  <2>3. \A u, v \in Threads : u # v /\ conn'[u] # None => conn'[u] # conn'[v]
    BY <1>5, <2>1 DEF PoolInv, ConnectionsExclusive
  <2>4. ASSUME NEW y \in Slots
        PROVE  in_use'[y] <=> \E u \in Threads : conn'[u] = y
    <3>1. CASE y = x
      BY <2>1, <2>2, <3>1
    <3>2. CASE y # x
      <4>1. conn[t] # y
        BY <1>2, NoneAssumption DEF Slots
      <4>2. \A u \in Threads : conn'[u] = y <=> conn[u] = y
        BY <2>1, <3>2, <4>1
      <4>3. in_use'[y] = in_use[y]
        BY <2>2, <3>2
      <4>4. in_use[y] <=> \E u \in Threads : conn[u] = y
        BY DEF PoolInv, ConnectionsExclusive
      <4>5. QED
        BY <4>2, <4>3, <4>4
    <3>3. QED
      BY <3>1, <3>2
  <2>5. QED
    BY <2>3, <2>4 DEF ConnectionsExclusive
<1>7. QED
  BY <1>3, <1>4, <1>6 DEF PoolInv

LEMMA ReleaseKeeps ==
  ASSUME PoolInv, NEW t \in Threads, Release(t)
  PROVE  PoolInv' /\ conn[t] \in Slots /\ in_use[conn[t]]
<1>1. conn[t] \in Slots /\ conn[t] # None
  BY DEF PoolInv, PoolTypeOK, HoldsInside, Release
<1>2. PoolTypeOK'
  BY <1>1, NoneAssumption DEF PoolInv, PoolTypeOK, Release, Places, Slots
<1>3. HoldsInside'
  BY DEF PoolInv, PoolTypeOK, HoldsInside, Release
<1>4. in_use[conn[t]]
  BY <1>1 DEF PoolInv, ConnectionsExclusive
<1>5. ConnectionsExclusive'
  <2>1. \A u, v \in Threads : u # v /\ conn'[u] # None => conn'[u] # conn'[v]
    BY DEF PoolInv, PoolTypeOK, ConnectionsExclusive, Release
  <2>2. ASSUME NEW x \in Slots
        PROVE  in_use'[x] <=> \E u \in Threads : conn'[u] = x
    BY <1>1, NoneAssumption DEF PoolInv, PoolTypeOK, ConnectionsExclusive, Release, Slots
  <2>3. QED
    BY <2>1, <2>2 DEF ConnectionsExclusive
<1>6. QED
  BY <1>1, <1>2, <1>3, <1>4, <1>5 DEF PoolInv

(* The steps that only move threads between the places outside.             *)
LEMMA MovesKeep ==
  ASSUME PoolInv, in_use' = in_use, conn' = conn, at' \in [Threads -> Places],
         \A t \in Threads : at'[t] = "in" <=> at[t] = "in"
  PROVE  PoolInv'
BY DEF PoolInv, PoolTypeOK, HoldsInside, ConnectionsExclusive

LEMMA StepPoolInv == PoolInv /\ [PoolNext]_poolVars => PoolInv'
<1> SUFFICES ASSUME PoolInv, [PoolNext]_poolVars PROVE PoolInv'
  OBVIOUS
<1>1. CASE UNCHANGED poolVars
  BY <1>1 DEF poolVars, PoolInv, PoolTypeOK, HoldsInside, ConnectionsExclusive
<1>2. ASSUME NEW t \in Threads, PoolStep(t) PROVE PoolInv'
  <2> USE DEF Places
  <2>1. at \in [Threads -> Places]
    BY DEF PoolInv, PoolTypeOK
  <2>2. CASE Acquire(t)
    <3>1. CASE Take(t)
      BY <2>2, <3>1, TakeKeeps DEF Acquire
    <3>2. CASE Block(t)
      BY <2>1, <2>2, <3>2, MovesKeep DEF Acquire, Block
    <3>3. QED
      BY <2>2, <3>1, <3>2 DEF Acquire
  <2>3. CASE SpuriousWakeup(t)
    BY <2>1, <2>3, MovesKeep DEF SpuriousWakeup
  <2>4. CASE Release(t)
    BY <2>4, ReleaseKeeps
  <2>5. CASE Notify(t)
    BY <2>1, <2>5, MovesKeep DEF Notify
  <2>6. QED
    BY <1>2, <2>2, <2>3, <2>4, <2>5 DEF PoolStep
<1>3. QED
  BY <1>1, <1>2 DEF PoolNext

-----------------------------------------------------------------------------
(* Counting wake-ups and free connections.                                  *)

LEMMA CountsFinite ==
  /\ IsFiniteSet(Free) /\ IsFiniteSet(Awake)
  /\ Cardinality(Free) \in Nat /\ Cardinality(Awake) \in Nat
<1>1. IsFiniteSet(Slots)
  BY PoolSizeAssumption, FS_Interval DEF Slots
<1>2. Free \in SUBSET Slots /\ Awake \in SUBSET Threads
  BY DEF Free, Awake
<1>3. IsFiniteSet(Free) /\ IsFiniteSet(Awake)
  BY <1>1, <1>2, ThreadsAssumption, FS_Subset
<1>4. QED
  BY <1>3, FS_CardinalityType

LEMMA InitWakeups == PoolInit => WakeupsMatch
BY DEF PoolInit, WakeupsMatch, Waiting

LEMMA TakeCounts ==
  ASSUME PoolInv, WakeupsMatch, NEW t \in Threads, at[t] \in {"out", "woken"}, Take(t)
  PROVE  WakeupsMatch'
<1>1. PICK x \in Slots : /\ ~in_use[x]
                         /\ in_use' = [in_use EXCEPT ![x] = TRUE]
                         /\ at' = [at EXCEPT ![t] = "in"]
  BY DEF Take
<1>2. x \in Free /\ Free' = Free \ {x}
  BY <1>1 DEF Free, PoolInv, PoolTypeOK
<1>3. Awake' = Awake \ {t}
  BY <1>1 DEF Awake, PoolInv, PoolTypeOK
<1>4. Waiting' => Waiting
  BY <1>1 DEF Waiting, PoolInv, PoolTypeOK
<1>5. Cardinality(Free') = Cardinality(Free) - 1
  BY <1>2, CountsFinite, FS_RemoveElement
<1>6. Cardinality(Awake') >= Cardinality(Awake) - 1
  <2>1. Cardinality(Awake \ {t}) = IF t \in Awake THEN Cardinality(Awake) - 1 ELSE Cardinality(Awake)
    BY CountsFinite, FS_RemoveElement
  <2>2. QED
    BY <1>3, <2>1, CountsFinite
<1>7. Cardinality(Awake') \in Nat
  BY <1>3, CountsFinite, FS_RemoveElement, FS_CardinalityType
<1>8. QED
  BY <1>4, <1>5, <1>6, <1>7, CountsFinite DEF WakeupsMatch

LEMMA BlockCounts ==
  ASSUME NEW t \in Threads, Block(t)
  PROVE  WakeupsMatch'
<1>1. Free' = {}
  BY DEF Block, SomeFree, Free
<1>2. Cardinality(Free') = 0
  BY <1>1, FS_EmptySet
<1>3. IsFiniteSet(Awake')
  <2>1. Awake' \in SUBSET Threads
    BY DEF Awake
  <2>2. QED
    BY <2>1, ThreadsAssumption, FS_Subset
<1>4. Cardinality(Awake') \in Nat
  BY <1>3, FS_CardinalityType
<1>5. QED
  BY <1>2, <1>4 DEF WakeupsMatch

LEMMA SpuriousCounts ==
  ASSUME PoolInv, WakeupsMatch, NEW t \in Threads, SpuriousWakeup(t)
  PROVE  WakeupsMatch'
<1>1. Free' = Free
  BY DEF SpuriousWakeup, Free
<1>2. Awake' = Awake \cup {t} /\ t \notin Awake
  BY DEF SpuriousWakeup, Awake, PoolInv, PoolTypeOK
<1>3. Waiting
  BY DEF SpuriousWakeup, Waiting
<1>4. Cardinality(Awake') = Cardinality(Awake) + 1
  BY <1>2, CountsFinite, FS_AddElement
<1>5. QED
  BY <1>1, <1>3, <1>4, CountsFinite DEF WakeupsMatch

LEMMA ReleaseCounts ==
  ASSUME PoolInv, WakeupsMatch, NEW t \in Threads, Release(t)
  PROVE  WakeupsMatch'
<1>1. conn[t] \in Slots /\ in_use[conn[t]]
  BY ReleaseKeeps
<1>2. Free' = Free \cup {conn[t]} /\ conn[t] \notin Free
  BY <1>1 DEF Release, Free, PoolInv, PoolTypeOK
<1>3. Awake' = Awake \cup {t} /\ t \notin Awake
  BY DEF Release, Awake, PoolInv, PoolTypeOK
<1>4. Waiting' => Waiting
  BY DEF Release, Waiting, PoolInv, PoolTypeOK
<1>5. Cardinality(Free') = Cardinality(Free) + 1 /\ Cardinality(Awake') = Cardinality(Awake) + 1
  BY <1>2, <1>3, CountsFinite, FS_AddElement
<1>6. QED
  BY <1>4, <1>5, CountsFinite DEF WakeupsMatch

LEMMA NotifyCounts ==
  ASSUME PoolInv, WakeupsMatch, NEW t \in Threads, Notify(t)
  PROVE  WakeupsMatch'
<1>1. Free' = Free
  BY DEF Notify, Free
<1>2. CASE \E u \in Threads : at[u] = "wait" /\ at' = [at EXCEPT ![t] = "out", ![u] = "woken"]
  <2>1. PICK u \in Threads : at[u] = "wait" /\ at' = [at EXCEPT ![t] = "out", ![u] = "woken"]
    BY <1>2
  <2>2. t \in Awake /\ u \notin Awake /\ t # u
    BY <2>1 DEF Notify, Awake
  <2>3. Awake' = (Awake \ {t}) \cup {u}
    BY <2>1, <2>2 DEF Awake, PoolInv, PoolTypeOK
  <2>4. IsFiniteSet(Awake \ {t}) /\ Cardinality(Awake \ {t}) = Cardinality(Awake) - 1
    BY <2>2, CountsFinite, FS_RemoveElement
  <2>5. Cardinality(Awake') = Cardinality(Awake)
    <3>1. u \notin Awake \ {t}
      BY <2>2
    <3>2. Cardinality((Awake \ {t}) \cup {u}) = Cardinality(Awake \ {t}) + 1
      BY <2>4, <3>1, FS_AddElement
    <3>3. QED
      BY <2>3, <2>4, <3>2, CountsFinite
  <2>6. Waiting
    BY <2>1 DEF Waiting
  <2>7. QED
    BY <1>1, <2>5, <2>6 DEF WakeupsMatch
<1>3. CASE \A u \in Threads : at[u] # "wait"
  <2>1. at' = [at EXCEPT ![t] = "out"]
    BY <1>3 DEF Notify
  <2>2. ~Waiting'
    BY <1>3, <2>1 DEF Waiting, PoolInv, PoolTypeOK
  <2>3. QED
    BY <2>2 DEF WakeupsMatch
<1>4. QED
  BY <1>2, <1>3 DEF Notify

LEMMA StepWakeups == PoolInv /\ WakeupsMatch /\ [PoolNext]_poolVars => WakeupsMatch'
<1> SUFFICES ASSUME PoolInv, WakeupsMatch, [PoolNext]_poolVars PROVE WakeupsMatch'
  OBVIOUS
<1>1. CASE UNCHANGED poolVars
  BY <1>1 DEF poolVars, WakeupsMatch, Waiting, Free, Awake
<1>2. ASSUME NEW t \in Threads, PoolStep(t) PROVE WakeupsMatch'
  BY <1>2, TakeCounts, BlockCounts, SpuriousCounts, ReleaseCounts, NotifyCounts DEF PoolStep, Acquire
<1>3. QED
  BY <1>1, <1>2 DEF PoolNext

LEMMA WakeupsSuffice == WakeupsMatch => NobodySleepsInVain
<1> SUFFICES ASSUME WakeupsMatch, SomeFree, Waiting
             PROVE  \E t \in Threads : at[t] \in {"woken", "notify"}
  BY DEF NobodySleepsInVain, Waiting
<1>1. Free # {}
  BY DEF SomeFree, Free
<1>2. Cardinality(Free) # 0
  BY <1>1, CountsFinite, FS_EmptySet
<1>3. Cardinality(Awake) # 0
  BY <1>2, CountsFinite DEF WakeupsMatch
<1>4. Awake # {}
  BY <1>3, FS_EmptySet
<1>5. QED
  BY <1>4 DEF Awake

-----------------------------------------------------------------------------
(* Types are kept by every step of acquire and release.                     *)
THEOREM PoolTypes == PoolSpec => []PoolTypeOK
<1>1. PoolInv => PoolTypeOK
  BY DEF PoolInv
<1>2. QED
  BY InitPoolInv, StepPoolInv, <1>1, PTL DEF PoolSpec

(* acquire never hands a connection to a second thread, and release never   *)
(* loses one, whatever the number of threads and of connections.            *)
THEOREM OneThreadPerConnection == PoolSpec => []ConnectionsExclusive
<1>1. PoolInv => ConnectionsExclusive
  BY DEF PoolInv
<1>2. QED
  BY InitPoolInv, StepPoolInv, <1>1, PTL DEF PoolSpec

(* A free connection and a sleeping thread never meet without a wake-up on  *)
(* its way, although release notifies after it has given up the mutex and   *)
(* another thread may take the connection first.                            *)
THEOREM NoThreadLeftAsleep == PoolSpec => []NobodySleepsInVain
<1>1. PoolInit => PoolInv /\ WakeupsMatch
  BY InitPoolInv, InitWakeups
<1>2. (PoolInv /\ WakeupsMatch) /\ [PoolNext]_poolVars => (PoolInv /\ WakeupsMatch)'
  BY StepPoolInv, StepWakeups
<1>3. QED
  BY <1>1, <1>2, WakeupsSuffice, PTL DEF PoolSpec
=============================================================================
