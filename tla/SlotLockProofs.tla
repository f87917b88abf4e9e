--------------------------- MODULE SlotLockProofs ---------------------------
(***************************************************************************)
(* Theorems of SlotLock, for any number of callers, slots, ids, resends    *)
(* and any lengths of leases.                                              *)
(***************************************************************************)
EXTENDS SlotLock, TLAPS

\* Each lock id is known to one caller only: uuids are not guessed or shared.
IdsApart ==
  \A c, d \in Callers : c # d =>
    /\ call[c].id # NoLock => call[c].id # call[d].id /\ call[c].id # held[d].id
    /\ held[c].id # NoLock => held[c].id # held[d].id

\* What a request in the server has to do with its caller's view.
CallsMatchViews ==
  \A c \in Callers :
    /\ call[c].op \in {"verify", "release", "refresh"} =>
         /\ call[c].id = held[c].id
         /\ call[c].slot = held[c].slot
         /\ call[c].id # NoLock
    /\ call[c].op = "acquire" => call[c].id # NoLock /\ call[c].id # held[c].id
    /\ call[c].op = "release" => held[c].due = 0
    /\ call[c].op = "refresh" => held[c].due = 0 \/ held[c].due <= call[c].ttl
    /\ call[c].op = "none" => call[c].step = "sent" /\ call[c].id = NoLock

\* The lock of a granted or refreshed answer that is still on its way.
Granted(c) ==
  /\ call[c].op \in {"acquire", "refresh"}
  /\ call[c].step = "done"
  /\ call[c].id \notin revoked
  /\ call[c].age < call[c].ttl

GrantedLockIsHeld ==
  \A c \in Callers : Granted(c) =>
    /\ key[call[c].slot] = call[c].id
    /\ pttl[call[c].slot] >= call[c].ttl - call[c].age

IInv ==
  TypeOK /\ IdsApart /\ CallsMatchViews /\ GrantedLockIsHeld /\ TrustedLockIsHeld

USE ConstantsAssumption

LEMMA InitInv == Init => IInv
BY DEF Init, IInv, TypeOK, IdsApart, CallsMatchViews, GrantedLockIsHeld, Granted,
       TrustedLockIsHeld, Trusts, Idle, NoView, Calls, Views, Ops

\* Executing a command, and putting a request into the server, touch one
\* caller's request only.
LEMMA ExecutedEffect ==
  ASSUME TypeOK, NEW c \in Callers, NEW step \in {"probe", "done", "refused"},
         Executed(c, step)
  PROVE  /\ call' \in [Callers -> Calls]
         /\ \A d \in Callers :
              /\ call'[d].op = call[d].op /\ call'[d].slot = call[d].slot
              /\ call'[d].id = call[d].id /\ call'[d].ttl = call[d].ttl
         /\ \A d \in Callers : d # c => call'[d] = call[d]
         /\ (call'[c].step = step /\ call'[c].age = 0) \/ call'[c].step = call[c].step
<1> USE DEF TypeOK, Calls
<1>1. CASE call' = [call EXCEPT ![c] = [@ EXCEPT !.step = step, !.age = 0]]
  <2>1. call'[c] = [call[c] EXCEPT !.step = step, !.age = 0]
    BY <1>1
  <2>2. call[c] \in Calls /\ 0 \in 0..MaxTtl
    OBVIOUS
  <2>3. call'[c] \in Calls
    <3> HIDE DEF TypeOK
    <3> QED BY <2>1, <2>2
  <2> QED BY <1>1, <2>1, <2>2, <2>3
<1>2. CASE call[c].tries < MaxRetries /\ call' = [call EXCEPT ![c].tries = @ + 1]
  <2>1. call[c].tries + 1 \in 0..MaxRetries
    BY <1>2
  <2>2. call'[c] = [call[c] EXCEPT !.tries = call[c].tries + 1]
    BY <1>2
  <2>3. call'[c] \in Calls
    <3>1. call[c] \in Calls
      OBVIOUS
    <3> HIDE DEF TypeOK
    <3> QED BY <2>1, <2>2, <3>1
  <2> QED BY <1>2, <2>2, <2>3
<1> QED BY <1>1, <1>2 DEF Executed

LEMMA RequestEffect ==
  ASSUME TypeOK, NEW c \in Callers, NEW op \in Ops, NEW s \in Slots,
         NEW i \in LockIds \cup {NoLock}, NEW t \in -1..MaxTtl,
         Request(c, op, s, i, t)
  PROVE  /\ call' \in [Callers -> Calls]
         /\ \A d \in Callers : d # c => call'[d] = call[d]
         /\ call'[c].op = op /\ call'[c].slot = s /\ call'[c].id = i
         /\ call'[c].ttl = t /\ call'[c].step = "sent" /\ call'[c].age = 0
<1>1. call \in [Callers -> Calls]
  BY DEF TypeOK
<1>2. call' = [call EXCEPT ![c] = [op |-> op, step |-> "sent", slot |-> s, id |-> i,
                                   ttl |-> t, tries |-> 0, age |-> 0]]
  BY Zenon DEF Request
<1>3. 0 \in 0..MaxRetries /\ 0 \in 0..MaxTtl
  OBVIOUS
<1>4. [op |-> op, step |-> "sent", slot |-> s, id |-> i, ttl |-> t, tries |-> 0, age |-> 0]
        \in Calls
  BY <1>3 DEF Calls
<1> QED BY <1>1, <1>2, <1>4

LEMMA LockTTLType == \A t \in TtlChoices : LockTTL(t) \in -1..MaxTtl
BY DEF LockTTL

LEMMA StoreEffect ==
  ASSUME TypeOK, NEW s \in Slots, NEW i \in LockIds \cup {NoLock}, NEW t \in 0..MaxTtl,
         i = NoLock <=> t = 0, Store(s, i, t)
  PROVE  /\ key' \in [Slots -> LockIds \cup {NoLock}]
         /\ pttl' \in [Slots -> 0..MaxTtl]
         /\ \A r \in Slots : key'[r] = NoLock <=> pttl'[r] = 0
         /\ \A r \in Slots : r # s => key'[r] = key[r] /\ pttl'[r] = pttl[r]
         /\ key'[s] = i /\ pttl'[s] = t
BY DEF TypeOK, Store

LEMMA TypeStep == TypeOK /\ [Next]_vars => TypeOK'
<1> SUFFICES ASSUME TypeOK, [Next]_vars PROVE TypeOK'
  OBVIOUS
<1>1. CASE Tick
  <2> USE DEF TypeOK, Tick
  <2>1. /\ key' \in [Slots -> LockIds \cup {NoLock}]
        /\ pttl' \in [Slots -> 0..MaxTtl]
        /\ \A s \in Slots : key'[s] = NoLock <=> pttl'[s] = 0
    BY <1>1
  <2>3. ASSUME NEW c \in Callers
        PROVE  /\ held'[c] \in Views
               /\ held'[c].id = held[c].id /\ held'[c].slot = held[c].slot
    <3>1. held[c] \in Views
      OBVIOUS
    <3>2. held'[c] = [held[c] EXCEPT !.due = IF @ > 0 THEN @ - 1 ELSE 0]
      BY <1>1
    <3> HIDE DEF TypeOK, Tick
    <3> QED BY <3>1, <3>2 DEF Views
  <2>2. held' \in [Callers -> Views]
    BY <1>1, <2>3
  <2>4. \A n \in 0..MaxTtl : Least(n + 1, MaxTtl) \in 0..MaxTtl
    BY DEF Least
  <2>5. ASSUME NEW c \in Callers
        PROVE  /\ call'[c] \in Calls /\ call'[c].op = call[c].op
               /\ call'[c].slot = call[c].slot /\ call'[c].id = call[c].id
    <3>1. call[c] \in Calls
      OBVIOUS
    <3>2. call'[c] = call[c] \/ call'[c] = [call[c] EXCEPT !.age = Least(@ + 1, MaxTtl)]
      BY <1>1
    <3>3. Least(call[c].age + 1, MaxTtl) \in 0..MaxTtl
      BY <2>4, <3>1 DEF Calls
    <3> HIDE DEF TypeOK, Tick
    <3> QED BY <3>1, <3>2, <3>3 DEF Calls
  <2>6. call' \in [Callers -> Calls]
    BY <1>1, <2>5
  <2>7. revoked' \in SUBSET LockIds
    BY <1>1
  <2> QED BY <2>1, <2>2, <2>3, <2>5, <2>6, <2>7
<1>2. ASSUME NEW c \in Callers, Ask(c) PROVE TypeOK'
  <2>1. ASSUME NEW s \in Slots, NEW i \in LockIds, NEW t \in TtlChoices, Acquire(c, s, i, t)
        PROVE  TypeOK'
    <3>1. LockTTL(t) \in -1..MaxTtl /\ "acquire" \in Ops
      BY LockTTLType DEF Ops
    <3> QED BY <2>1, <3>1, RequestEffect DEF Acquire, TypeOK
  <2>2. CASE Verify(c)
    <3>1. 0 \in -1..MaxTtl /\ "verify" \in Ops
      BY DEF Ops
    <3>2. held[c].slot \in Slots /\ held[c].id \in LockIds
      BY <2>2 DEF Verify, TypeOK, Views
    <3>3. /\ call' \in [Callers -> Calls] /\ \A d \in Callers : d # c => call'[d] = call[d]
          /\ call'[c].slot = held[c].slot /\ call'[c].id = held[c].id
      BY <2>2, <3>1, <3>2, RequestEffect DEF Verify
    <3> QED BY <2>2, <3>2, <3>3 DEF Verify, TypeOK
  <2>3. CASE Release(c)
    <3>1. 0 \in -1..MaxTtl /\ "release" \in Ops
      BY DEF Ops
    <3>2. held' \in [Callers -> Views] /\ \A d \in Callers :
            held'[d].id = held[d].id /\ held'[d].slot = held[d].slot
      BY <2>3 DEF Release, Views, TypeOK
    <3> QED BY <2>3, <3>1, <3>2, RequestEffect DEF Release, TypeOK, Views
  <2>4. ASSUME NEW t \in TtlChoices, Refresh(c, t) PROVE TypeOK'
    <3> USE DEF TypeOK
    <3>1. LockTTL(t) \in -1..MaxTtl
      BY LockTTLType
    <3>2. held[c].slot \in Slots /\ held[c].id \in LockIds \cup {NoLock} /\ "refresh" \in Ops
      BY <2>4 DEF Refresh, Views, Ops
    <3>3. call' \in [Callers -> Calls] /\ \A d \in Callers : d # c => call'[d] = call[d]
      BY <2>4, <3>1, <3>2, RequestEffect DEF Refresh
    <3>4. call'[c].slot = held[c].slot /\ call'[c].id = held[c].id
      BY <2>4, <3>1, <3>2, RequestEffect DEF Refresh
    <3>5. held' \in [Callers -> Views] /\ \A d \in Callers :
            held'[d].id = held[d].id /\ held'[d].slot = held[d].slot
      BY <2>4, <3>1 DEF Refresh, Views, Least
    <3> QED BY <2>4, <3>2, <3>3, <3>4, <3>5 DEF Refresh
  <2>5. ASSUME NEW s \in Slots, ForceRelease(c, s) PROVE TypeOK'
    <3>1. 0 \in -1..MaxTtl /\ "force" \in Ops
      BY DEF Ops
    <3> QED BY <2>5, <3>1, RequestEffect DEF ForceRelease, TypeOK
  <2> QED BY <1>2, <2>1, <2>2, <2>3, <2>4, <2>5 DEF Ask
<1>3. ASSUME NEW c \in Callers, Finish(c) PROVE TypeOK'
  <2> USE DEF TypeOK, Calls, Ops
  <2>1. CASE SetRejected(c) \/ Fail(c)
    BY <2>1 DEF SetRejected, Fail, Idle
  <2>2. CASE Probe(c)
    BY <2>2 DEF Probe
  <2>3. CASE Reply(c)
    <3>1. ViewAfter(c) \in Views
      BY DEF ViewAfter, Views, NoView
    <3>2. ViewAfter(c).id # NoLock => ViewAfter(c).slot \in Slots
      BY <2>3 DEF ViewAfter, Views, NoView
    <3> QED BY <2>3, <3>1, <3>2 DEF Reply, Idle
  <2>4. CASE Abandon(c)
    BY <2>4 DEF Abandon, NoView, Views
  <2> QED BY <1>3, <2>1, <2>2, <2>3, <2>4 DEF Finish
<1>4. ASSUME NEW c \in Callers, Execute(c) PROVE TypeOK'
  <2>0. /\ call[c].op # "none" => call[c].slot \in Slots
        /\ call[c].op = "acquire" => call[c].id \in LockIds
        /\ call[c].ttl > 0 => call[c].ttl \in 1..MaxTtl
        /\ "probe" \in {"probe", "done", "refused"}
        /\ 0 \in 0..MaxTtl /\ NoLock \in LockIds \cup {NoLock}
    BY DEF TypeOK, Calls
  <2>6. ASSUME NEW i \in LockIds \cup {NoLock}, NEW n \in 0..MaxTtl, NEW step \in {"probe", "done", "refused"},
               call[c].slot \in Slots, i = NoLock <=> n = 0, Store(call[c].slot, i, n), Executed(c, step),
               held' = held, revoked' \in SUBSET LockIds
        PROVE  TypeOK'
    <3>1. /\ key' \in [Slots -> LockIds \cup {NoLock}]
          /\ pttl' \in [Slots -> 0..MaxTtl]
          /\ \A s \in Slots : key'[s] = NoLock <=> pttl'[s] = 0
      BY <2>6, StoreEffect
    <3> QED BY <2>6, <3>1, ExecutedEffect DEF TypeOK
  <2>7. ASSUME NEW step \in {"probe", "done", "refused"}, Executed(c, step),
               UNCHANGED <<key, pttl, held, revoked>>
        PROVE  TypeOK'
    BY <2>7, ExecutedEffect DEF TypeOK
  <2>1. CASE SetNxPx(c)
    <3>1. CASE key[call[c].slot] = NoLock
      <4>1. call[c].id # NoLock /\ call[c].ttl \in 1..MaxTtl
        BY <2>0, <2>1 DEF SetNxPx, Pending
      <4> QED BY <2>0, <2>1, <2>6, <3>1, <4>1 DEF SetNxPx, Pending, TypeOK
    <3>2. CASE key[call[c].slot] # NoLock
      BY <2>1, <2>7, <3>2 DEF SetNxPx
    <3> QED BY <3>1, <3>2
  <2>2. CASE GetKey(c)
    BY <2>2, <2>7 DEF GetKey
  <2>3. CASE ReleaseScript(c)
    <3>1. CASE key[call[c].slot] = call[c].id
      BY <2>0, <2>3, <2>6, <3>1 DEF ReleaseScript, Pending, TypeOK
    <3>2. CASE key[call[c].slot] # call[c].id
      BY <2>3, <2>7, <3>2 DEF ReleaseScript
    <3> QED BY <3>1, <3>2
  <2>4. CASE RefreshScript(c)
    <3>1. CASE key[call[c].slot] = call[c].id /\ call[c].ttl > 0
      <4>1. call[c].id \in LockIds /\ call[c].slot \in Slots
        BY <2>4 DEF RefreshScript, Pending, TypeOK
      <4> QED BY <2>0, <2>4, <2>6, <3>1, <4>1 DEF RefreshScript, TypeOK
    <3>2. CASE key[call[c].slot] = call[c].id /\ ~(call[c].ttl > 0)
      BY <2>0, <2>4, <2>6, <3>2 DEF RefreshScript, Pending, TypeOK
    <3>3. CASE key[call[c].slot] # call[c].id
      BY <2>4, <2>7, <3>3 DEF RefreshScript
    <3> QED BY <3>1, <3>2, <3>3
  <2>5. CASE DelKey(c)
    <3>1. revoked' \in SUBSET LockIds
      BY <2>0, <2>5 DEF DelKey, Pending, TypeOK
    <3> QED BY <2>0, <2>5, <2>6, <3>1 DEF DelKey, Pending
  <2> QED BY <1>4, <2>1, <2>2, <2>3, <2>4, <2>5 DEF Execute
<1>5. CASE UNCHANGED vars
  BY <1>5 DEF vars, TypeOK
<1> QED BY <1>1, <1>2, <1>3, <1>4, <1>5 DEF Next

\* Callers, requests and leases keep their types.
THEOREM TypeCorrect == Spec => []TypeOK
<1>1. Init => TypeOK
  BY InitInv DEF IInv
<1> QED BY <1>1, TypeStep, PTL DEF Spec
\* The typing facts about one caller that the steps below use.
LEMMA CallerTypes ==
  ASSUME TypeOK, NEW c \in Callers
  PROVE  /\ call[c].id \in LockIds \cup {NoLock} /\ held[c].id \in LockIds \cup {NoLock}
         /\ call[c].op \in Ops /\ call[c].ttl \in -1..MaxTtl /\ call[c].age \in 0..MaxTtl
         /\ held[c].due \in 0..MaxTtl /\ held[c].late \in 0..MaxTtl
         /\ call[c].op # "none" => call[c].slot \in Slots
         /\ call[c].op \notin {"none", "force"} => call[c].id \in LockIds
         /\ held[c].id # NoLock => held[c].slot \in Slots
BY DEF TypeOK, Calls, Views

LEMMA ExecuteStep ==
  ASSUME IInv, TypeOK', NEW c \in Callers, Execute(c)
  PROVE  IInv'
<1> USE DEF IInv
<1>1. PICK step \in {"probe", "done", "refused"} : Executed(c, step)
  BY DEF Execute, SetNxPx, GetKey, ReleaseScript, RefreshScript, DelKey
<1>2. /\ held' = held
      /\ call[c].op # "none" /\ call[c].step = "sent" /\ call[c].slot \in Slots
  BY CallerTypes DEF Execute, SetNxPx, GetKey, ReleaseScript, RefreshScript, DelKey, Pending
<1>3. IdsApart'
  BY <1>1, <1>2, ExecutedEffect DEF IdsApart
<1>4. CallsMatchViews'
  BY <1>1, <1>2, ExecutedEffect DEF CallsMatchViews
<1>5. GrantedLockIsHeld' /\ TrustedLockIsHeld'
  <2> USE DEF GrantedLockIsHeld, TrustedLockIsHeld, Granted, Trusts
  <2>0. \A d \in Callers : (Granted(d) /\ d # c) \/ Trusts(d) =>
          /\ Granted(d) => call[d].slot \in Slots /\ call[d].id # NoLock
          /\ Trusts(d) => held[d].slot \in Slots /\ held[d].id # NoLock
    BY CallerTypes
  <2>6. ASSUME UNCHANGED <<key, pttl, revoked>>,
               Executed(c, "refused") \/ Executed(c, "probe")
        PROVE  GrantedLockIsHeld' /\ TrustedLockIsHeld'
    <3>1. ~Granted(c)'
      BY <1>2, <2>6, ExecutedEffect
    <3>2. GrantedLockIsHeld'
      BY <1>2, <2>6, <3>1, ExecutedEffect
    <3> QED BY <1>2, <2>6, <3>2
  <2>1. CASE SetNxPx(c)
    <3>1. CASE key[call[c].slot] = NoLock
      <4>1. /\ Store(call[c].slot, call[c].id, call[c].ttl) /\ Executed(c, "done")
            /\ revoked' = revoked /\ call[c].ttl > 0 /\ call[c].op = "acquire"
        BY <2>1, <3>1 DEF SetNxPx, Pending
      <4>2. /\ \A r \in Slots : r # call[c].slot => key'[r] = key[r] /\ pttl'[r] = pttl[r]
            /\ key'[call[c].slot] = call[c].id /\ pttl'[call[c].slot] = call[c].ttl
        BY <1>2, <4>1 DEF Store, TypeOK
      <4>3. TrustedLockIsHeld'
        BY <1>2, <2>0, <3>1, <4>1, <4>2
      <4>4. ASSUME NEW d \in Callers, d # c, Granted(d)' PROVE
              key'[call'[d].slot] = call'[d].id /\ pttl'[call'[d].slot] >= call'[d].ttl - call'[d].age
        BY <1>2, <2>0, <3>1, <4>1, <4>2, <4>4, ExecutedEffect
      <4>5. ASSUME Granted(c)' PROVE
              key'[call'[c].slot] = call'[c].id /\ pttl'[call'[c].slot] >= call'[c].ttl - call'[c].age
        BY <1>2, <4>1, <4>2, <4>5, ExecutedEffect, CallerTypes
      <4> QED BY <4>3, <4>4, <4>5
    <3>2. CASE key[call[c].slot] # NoLock
      BY <1>2, <2>1, <3>2, <2>6 DEF SetNxPx
    <3> QED BY <3>1, <3>2
  <2>2. CASE GetKey(c)
    BY <1>2, <2>2, <2>6 DEF GetKey, Pending
  <2>3. CASE ReleaseScript(c)
    <3>1. CASE key[call[c].slot] = call[c].id
      <4>1. /\ Store(call[c].slot, NoLock, 0) /\ Executed(c, "done")
            /\ revoked' = revoked /\ call[c].op = "release"
        BY <2>3, <3>1, CallerTypes DEF ReleaseScript, Pending
      <4>2. \A r \in Slots : r # call[c].slot => key'[r] = key[r] /\ pttl'[r] = pttl[r]
        BY <4>1 DEF Store, TypeOK
      <4>3. ASSUME NEW d \in Callers, Trusts(d) PROVE held[d].slot # call[c].slot
        <5>1. d # c
          BY <4>1, <4>3, CallerTypes DEF CallsMatchViews
        <5> QED BY <3>1, <4>1, <4>3, <5>1 DEF IdsApart, CallsMatchViews
      <4>4. TrustedLockIsHeld'
        BY <1>2, <2>0, <4>1, <4>2, <4>3
      <4>5. ASSUME NEW d \in Callers, d # c, Granted(d) PROVE call[d].slot # call[c].slot
        BY <2>0, <3>1, <4>1, <4>5 DEF IdsApart
      <4>6. GrantedLockIsHeld'
        BY <1>2, <2>0, <4>1, <4>2, <4>5, ExecutedEffect
      <4> QED BY <4>4, <4>6
    <3>2. CASE key[call[c].slot] # call[c].id
      BY <1>2, <2>3, <3>2, <2>6 DEF ReleaseScript, Pending
    <3> QED BY <3>1, <3>2
  <2>4. CASE RefreshScript(c)
    <3>1. CASE key[call[c].slot] = call[c].id
      <4>1. /\ Executed(c, "done") /\ revoked' = revoked /\ call[c].op = "refresh"
            /\ held[c].id = call[c].id /\ held[c].slot = call[c].slot /\ call[c].id # NoLock
        BY <2>4, <3>1 DEF RefreshScript, Pending, CallsMatchViews
      <4>2. /\ \A r \in Slots : r # call[c].slot => key'[r] = key[r] /\ pttl'[r] = pttl[r]
            /\ call[c].ttl > 0 => key'[call[c].slot] = call[c].id /\ pttl'[call[c].slot] = call[c].ttl
        BY <1>2, <2>4, <3>1 DEF RefreshScript, Store, TypeOK
      <4>3. ASSUME NEW d \in Callers, Trusts(d), d # c PROVE held[d].slot # call[c].slot
        BY <3>1, <4>1, <4>3 DEF IdsApart
      <4>4. ASSUME Trusts(c)
            PROVE  /\ key'[held[c].slot] = held[c].id
                   /\ pttl'[held[c].slot] >= held[c].due - held[c].late
        <5>1. held[c].due > 0 /\ held[c].due <= call[c].ttl /\ call[c].ttl > 0
          BY <4>1, <4>4, CallerTypes DEF CallsMatchViews
        <5> QED BY <4>1, <4>2, <5>1, CallerTypes
      <4>5. TrustedLockIsHeld'
        BY <1>2, <2>0, <4>1, <4>2, <4>3, <4>4
      <4>6. ASSUME NEW d \in Callers, d # c, Granted(d) PROVE call[d].slot # call[c].slot
        BY <2>0, <3>1, <4>1, <4>6 DEF IdsApart
      <4>7. ASSUME Granted(c)' PROVE
              key'[call'[c].slot] = call'[c].id /\ pttl'[call'[c].slot] >= call'[c].ttl - call'[c].age
        BY <1>2, <4>1, <4>2, <4>7, ExecutedEffect, CallerTypes
      <4>8. GrantedLockIsHeld'
        BY <1>2, <2>0, <4>1, <4>2, <4>6, <4>7, ExecutedEffect
      <4> QED BY <4>5, <4>8
    <3>2. CASE key[call[c].slot] # call[c].id
      BY <1>2, <2>4, <3>2, <2>6 DEF RefreshScript, Pending
    <3> QED BY <3>1, <3>2
  <2>5. CASE DelKey(c)
    <3>1. /\ \A r \in Slots : r # call[c].slot => key'[r] = key[r] /\ pttl'[r] = pttl[r]
          /\ call[c].op = "force"
          /\ revoked' = revoked \cup ({key[call[c].slot]} \ {NoLock})
      BY <1>2, <2>5 DEF DelKey, Store, Pending, TypeOK
    <3>2. TrustedLockIsHeld'
      BY <1>2, <2>0, <3>1
    <3>3. GrantedLockIsHeld'
      BY <1>1, <1>2, <2>0, <3>1, ExecutedEffect
    <3> QED BY <3>2, <3>3
  <2> QED BY <2>1, <2>2, <2>3, <2>4, <2>5 DEF Execute
<1> QED BY <1>3, <1>4, <1>5

LEMMA AskStep ==
  ASSUME IInv, TypeOK', NEW c \in Callers, Ask(c)
  PROVE  IInv'
<1> USE DEF IInv
<1>0. UNCHANGED <<key, pttl>> /\ call[c].op = "none"
  BY DEF Ask, Acquire, Verify, Release, Refresh, ForceRelease
<1>1. ASSUME NEW s \in Slots, NEW i \in LockIds, NEW t \in TtlChoices, Acquire(c, s, i, t)
      PROVE  IInv'
  <2>1. LockTTL(t) \in -1..MaxTtl /\ "acquire" \in Ops
    BY LockTTLType DEF Ops
  <2>2. /\ \A d \in Callers : d # c => call'[d] = call[d]
        /\ call'[c].op = "acquire" /\ call'[c].id = i /\ call'[c].step = "sent"
    BY <1>1, <2>1, RequestEffect DEF Acquire
  <2>3. held' = held /\ revoked' = revoked \ {i} /\ i # NoLock
        /\ \A d \in Callers : call[d].id # i /\ held[d].id # i
    BY <1>1 DEF Acquire, Fresh, Unknown
  <2>4. IdsApart' /\ CallsMatchViews'
    BY <2>2, <2>3 DEF IdsApart, CallsMatchViews
  <2>5. GrantedLockIsHeld' /\ TrustedLockIsHeld'
    BY <1>0, <2>2, <2>3 DEF GrantedLockIsHeld, Granted, TrustedLockIsHeld, Trusts
  <2> QED BY <2>4, <2>5
\* The other requests bring no new id and only lower what the caller trusts.
<1>2. ASSUME \A d \in Callers : d # c => call'[d] = call[d] /\ held'[d] = held[d],
             held'[c].id = held[c].id, held'[c].slot = held[c].slot,
             held'[c].late = held[c].late, held'[c].due <= held[c].due,
             call'[c].step = "sent", call'[c].id \in {NoLock, held[c].id},
             revoked' = revoked, CallsMatchViews'
      PROVE  IInv'
  <2>1. IdsApart'
    BY <1>2 DEF IdsApart
  <2>2. GrantedLockIsHeld'
    BY <1>0, <1>2 DEF GrantedLockIsHeld, Granted
  <2>3. ASSUME NEW d \in Callers, Trusts(d)'
        PROVE  Trusts(d) /\ held'[d].id = held[d].id /\ held'[d].slot = held[d].slot
               /\ held'[d].due - held'[d].late <= held[d].due - held[d].late
    BY <1>2, <2>3, CallerTypes DEF Trusts, TypeOK, Views
  <2>4. TrustedLockIsHeld'
    BY <1>0, <2>3, CallerTypes DEF TrustedLockIsHeld, Trusts, TypeOK, Views
  <2> QED BY <1>2, <2>1, <2>2, <2>4
<1>3. CASE Verify(c)
  <2>1. 0 \in -1..MaxTtl /\ "verify" \in Ops /\ held[c].id \in LockIds /\ held[c].slot \in Slots
    BY <1>3, CallerTypes DEF Verify, Ops
  <2>2. /\ \A d \in Callers : d # c => call'[d] = call[d]
        /\ call'[c].op = "verify" /\ call'[c].id = held[c].id
        /\ call'[c].slot = held[c].slot /\ call'[c].step = "sent"
    BY <1>3, <2>1, RequestEffect DEF Verify
  <2>3. held' = held /\ revoked' = revoked /\ held[c].id # NoLock
    BY <1>3 DEF Verify
  <2>4. CallsMatchViews'
    BY <2>2, <2>3 DEF CallsMatchViews
  <2> QED BY <1>2, <2>2, <2>3, <2>4, CallerTypes
<1>4. CASE Release(c)
  <2>1. 0 \in -1..MaxTtl /\ "release" \in Ops /\ held[c].id \in LockIds /\ held[c].slot \in Slots
    BY <1>4, CallerTypes DEF Release, Ops
  <2>2. /\ \A d \in Callers : d # c => call'[d] = call[d]
        /\ call'[c].op = "release" /\ call'[c].id = held[c].id
        /\ call'[c].slot = held[c].slot /\ call'[c].step = "sent"
    BY <1>4, <2>1, RequestEffect DEF Release
  <2>3. /\ \A d \in Callers : d # c => held'[d] = held[d]
        /\ held'[c].id = held[c].id /\ held'[c].slot = held[c].slot
        /\ held'[c].late = held[c].late /\ held'[c].due = 0
        /\ revoked' = revoked /\ held[c].id # NoLock
    BY <1>4 DEF Release, TypeOK, Views
  <2>4. CallsMatchViews'
    BY <2>2, <2>3 DEF CallsMatchViews
  <2> QED BY <1>2, <2>2, <2>3, <2>4, CallerTypes
<1>5. ASSUME NEW t \in TtlChoices, Refresh(c, t) PROVE IInv'
  <2>1. /\ LockTTL(t) \in -1..MaxTtl /\ "refresh" \in Ops
        /\ held[c].id \in LockIds /\ held[c].slot \in Slots
    BY <1>5, LockTTLType, CallerTypes DEF Refresh, Ops
  <2>2. /\ \A d \in Callers : d # c => call'[d] = call[d]
        /\ call'[c].op = "refresh" /\ call'[c].id = held[c].id /\ call'[c].ttl = LockTTL(t)
        /\ call'[c].slot = held[c].slot /\ call'[c].step = "sent"
    BY <1>5, <2>1, RequestEffect DEF Refresh
  <2>3. /\ \A d \in Callers : d # c => held'[d] = held[d]
        /\ held'[c].id = held[c].id /\ held'[c].slot = held[c].slot
        /\ held'[c].late = held[c].late /\ held'[c].due <= held[c].due
        /\ held'[c].due = 0 \/ held'[c].due <= LockTTL(t)
        /\ revoked' = revoked /\ held[c].id # NoLock
    BY <1>5, <2>1, CallerTypes DEF Refresh, TypeOK, Views, Least
  <2>4. CallsMatchViews'
    BY <2>2, <2>3 DEF CallsMatchViews
  <2> QED BY <1>2, <2>2, <2>3, <2>4
<1>6. ASSUME NEW s \in Slots, ForceRelease(c, s) PROVE IInv'
  <2>1. 0 \in -1..MaxTtl /\ "force" \in Ops
    BY DEF Ops
  <2>2. /\ \A d \in Callers : d # c => call'[d] = call[d]
        /\ call'[c].op = "force" /\ call'[c].id = NoLock /\ call'[c].step = "sent"
    BY <1>6, <2>1, RequestEffect DEF ForceRelease
  <2>3. held' = held /\ revoked' = revoked
    BY <1>6 DEF ForceRelease
  <2>4. CallsMatchViews'
    BY <2>2, <2>3 DEF CallsMatchViews
  <2> QED BY <1>2, <2>2, <2>3, <2>4, CallerTypes
<1> QED BY <1>1, <1>3, <1>4, <1>5, <1>6 DEF Ask

LEMMA FinishStep ==
  ASSUME IInv, TypeOK', NEW c \in Callers, Finish(c)
  PROVE  IInv'
<1> USE DEF IInv
<1>1. CASE SetRejected(c) \/ Fail(c)
  BY <1>1 DEF SetRejected, Fail, Idle, IdsApart, CallsMatchViews, GrantedLockIsHeld,
              Granted, TrustedLockIsHeld, Trusts, TypeOK
<1>2. CASE Probe(c)
  BY <1>2 DEF Probe, IdsApart, CallsMatchViews, GrantedLockIsHeld,
              Granted, TrustedLockIsHeld, Trusts, TypeOK, Calls
<1>3. CASE Reply(c)
  <2>1. /\ call'[c] = Idle /\ held'[c] = ViewAfter(c)
        /\ \A d \in Callers : d # c => call'[d] = call[d] /\ held'[d] = held[d]
        /\ UNCHANGED <<key, pttl, revoked>>
    BY <1>3 DEF Reply, TypeOK
  <2>2. \/ held'[c] = held[c]
        \/ held'[c].id = NoLock
        \/ /\ call[c].op \in {"acquire", "refresh"} /\ call[c].step = "done"
           /\ held'[c].id = call[c].id /\ held'[c].slot = call[c].slot
           /\ held'[c].due = (IF call[c].ttl > 0 THEN call[c].ttl ELSE 0)
           /\ held'[c].late = call[c].age
    BY <2>1 DEF ViewAfter, NoView
  <2>3. IdsApart'
    BY <2>1, <2>2, CallerTypes DEF IdsApart, Idle
  <2>4. CallsMatchViews'
    BY <2>1 DEF CallsMatchViews, Idle
  <2>5. GrantedLockIsHeld'
    BY <2>1 DEF GrantedLockIsHeld, Granted, Idle
  <2>6. ASSUME Trusts(c)'
        PROVE  /\ key'[held'[c].slot] = held'[c].id
               /\ pttl'[held'[c].slot] >= held'[c].due - held'[c].late
    <3>1. CASE held'[c] = held[c]
      BY <2>1, <2>6, <3>1 DEF Trusts, TrustedLockIsHeld
    <3>2. CASE held'[c] # held[c]
      <4>1. Granted(c)
        BY <2>1, <2>2, <2>6, <3>2, CallerTypes DEF Trusts, Granted
      <4> QED BY <2>1, <2>2, <2>6, <3>2, <4>1, CallerTypes DEF Trusts, Granted, GrantedLockIsHeld
    <3> QED BY <3>1, <3>2
  <2>7. TrustedLockIsHeld'
    BY <2>1, <2>6 DEF TrustedLockIsHeld, Trusts
  <2> QED BY <2>3, <2>4, <2>5, <2>7
<1>4. CASE Abandon(c)
  <2>1. /\ held'[c].id = NoLock /\ held'[c].due = 0 /\ call' = call /\ call[c].op = "none"
        /\ \A d \in Callers : d # c => held'[d] = held[d]
        /\ UNCHANGED <<key, pttl, revoked>>
    BY <1>4 DEF Abandon, NoView, TypeOK
  <2>2. IdsApart' /\ CallsMatchViews'
    BY <2>1 DEF IdsApart, CallsMatchViews
  <2>3. GrantedLockIsHeld' /\ TrustedLockIsHeld'
    BY <2>1 DEF GrantedLockIsHeld, Granted, TrustedLockIsHeld, Trusts
  <2> QED BY <2>2, <2>3
<1> QED BY <1>1, <1>2, <1>3, <1>4 DEF Finish

LEMMA TickStep ==
  ASSUME IInv, TypeOK', Tick
  PROVE  IInv'
<1> USE DEF IInv
<1>1. ASSUME NEW c \in Callers
      PROVE  /\ held'[c].id = held[c].id /\ held'[c].slot = held[c].slot
             /\ held'[c].late = held[c].late
             /\ held'[c].due = IF held[c].due > 0 THEN held[c].due - 1 ELSE 0
             /\ held[c].id \in revoked /\ held[c].id # NoLock => held[c].id \in revoked'
  BY CallerTypes DEF Tick, Unknown, TypeOK, Views
<1>2. ASSUME NEW c \in Callers
      PROVE  /\ call'[c].op = call[c].op /\ call'[c].slot = call[c].slot
             /\ call'[c].id = call[c].id /\ call'[c].ttl = call[c].ttl
             /\ call'[c].step = call[c].step
             /\ Granted(c) => call'[c].age = call[c].age + 1
             /\ call[c].id \in revoked => call[c].id \in revoked'
  <2>1. call[c] \in Calls
    BY DEF TypeOK
  <2>2. call'[c] = call[c] \/ call'[c] = [call[c] EXCEPT !.age = Least(call[c].age + 1, MaxTtl)]
    BY DEF Tick
  <2>3. /\ call'[c].op = call[c].op /\ call'[c].slot = call[c].slot
        /\ call'[c].id = call[c].id /\ call'[c].ttl = call[c].ttl
        /\ call'[c].step = call[c].step
    <3> HIDE DEF IInv
    <3> QED BY <2>1, <2>2 DEF Calls
  <2>4. ASSUME Granted(c) PROVE call'[c].age = call[c].age + 1
    <3>1. call'[c] = [call[c] EXCEPT !.age = Least(call[c].age + 1, MaxTtl)]
      BY <2>4 DEF Tick, Granted
    <3>2. call'[c].age = Least(call[c].age + 1, MaxTtl)
      BY <2>1, <3>1 DEF Calls
    <3>3. call[c].age + 1 <= MaxTtl
      BY <2>4, CallerTypes DEF Granted
    <3> QED BY <3>2, <3>3, CallerTypes DEF Least
  <2>5. call[c].id \in revoked => call[c].id \in revoked'
    BY DEF Tick, Unknown
  <2> QED BY <2>3, <2>4, <2>5
<1>3. IdsApart' /\ CallsMatchViews'
  <2>1. IdsApart'
    BY <1>1, <1>2 DEF IdsApart
  <2>3. \A c \in Callers : held[c].due = 0 => held'[c].due = 0
    BY <1>1
  <2>4. \A c \in Callers : held[c].due <= call[c].ttl => held'[c].due = 0 \/ held'[c].due <= call[c].ttl
    BY <1>1, CallerTypes
  <2>5. CallsMatchViews'
    BY <1>1, <1>2, <2>3, <2>4 DEF CallsMatchViews
  <2> QED BY <2>1, <2>5
<1>4. \A s \in Slots : pttl[s] > 1 => key'[s] = key[s] /\ pttl'[s] = pttl[s] - 1
  BY DEF Tick, TypeOK
<1>5. GrantedLockIsHeld'
  <2> SUFFICES ASSUME NEW c \in Callers, Granted(c)'
               PROVE  /\ key'[call'[c].slot] = call'[c].id
                      /\ pttl'[call'[c].slot] >= call'[c].ttl - call'[c].age
    BY DEF GrantedLockIsHeld
  <2>1. Granted(c) /\ call'[c].age = call[c].age + 1
    BY <1>2, CallerTypes DEF Granted, Tick, TypeOK, Calls, Least
  <2>2. call[c].slot \in Slots /\ pttl[call[c].slot] > 1
    BY <1>2, <2>1, CallerTypes DEF Granted, GrantedLockIsHeld, TypeOK
  <2> QED BY <1>2, <1>4, <2>1, <2>2, CallerTypes DEF GrantedLockIsHeld, TypeOK
<1>6. TrustedLockIsHeld'
  <2> SUFFICES ASSUME NEW c \in Callers, Trusts(c)'
               PROVE  /\ key'[held'[c].slot] = held'[c].id
                      /\ pttl'[held'[c].slot] >= held'[c].due - held'[c].late
    BY DEF TrustedLockIsHeld
  <2>1. Trusts(c) /\ held'[c].due = held[c].due - 1 /\ held[c].due - held[c].late > 1
    BY <1>1, CallerTypes DEF Trusts
  <2>2. held[c].slot \in Slots /\ pttl[held[c].slot] > 1
    BY <2>1, CallerTypes DEF Trusts, TrustedLockIsHeld, TypeOK
  <2> QED BY <1>1, <1>4, <2>1, <2>2, CallerTypes DEF TrustedLockIsHeld, TypeOK
<1> QED BY <1>3, <1>5, <1>6

LEMMA Inductive == IInv /\ [Next]_vars => IInv'
<1> SUFFICES ASSUME IInv, [Next]_vars PROVE IInv'
  OBVIOUS
<1>1. TypeOK'
  BY TypeStep DEF IInv
<1>2. CASE UNCHANGED vars
  BY <1>2 DEF vars, IInv, TypeOK, IdsApart, CallsMatchViews, GrantedLockIsHeld, Granted,
              TrustedLockIsHeld, Trusts
<1> QED BY <1>1, <1>2, AskStep, ExecuteStep, FinishStep, TickStep DEF Next

THEOREM Invariant == Spec => []IInv
<1> QED BY InitInv, Inductive, PTL DEF Spec

\* Whatever a caller may rely on by its own clock is what Redis holds.
THEOREM TrustIsJustified == Spec => []TrustedLockIsHeld
<1>1. IInv => TrustedLockIsHeld
  BY DEF IInv
<1> QED BY <1>1, Invariant, PTL

\* No two callers ever rely on a lock of one slot.
THEOREM Exclusion == Spec => []MutualExclusion
<1>1. IInv => MutualExclusion
  <2> SUFFICES ASSUME IInv, NEW c \in Callers, NEW d \in Callers, Trusts(c), Trusts(d),
                      held[c].slot = held[d].slot
               PROVE  c = d
    BY DEF MutualExclusion
  <2>1. held[c].id = held[d].id /\ held[c].id # NoLock
    BY DEF IInv, TrustedLockIsHeld, Trusts
  <2> QED BY <2>1 DEF IInv, IdsApart
<1> QED BY <1>1, Invariant, PTL

LEMMA AskedTypeNext == Asked' \in SUBSET (Slots \X LockIds)
BY DEF Asked

LEMMA LeaseStep == IInv /\ [Next]_vars => [Lease!Next]_(Lease!vars)
<1> SUFFICES ASSUME IInv, [Next]_vars PROVE [Lease!Next]_(Lease!vars)
  OBVIOUS
<1> USE DEF IInv
<1>1. CASE UNCHANGED vars
  BY <1>1 DEF vars, Lease!vars, Asked
<1>2. ASSUME UNCHANGED <<key, pttl>> PROVE Lease!Next
  BY <1>2, AskedTypeNext DEF Lease!Next, Lease!Request, Lease!Asking
<1>3. CASE Tick
  BY <1>3, AskedTypeNext DEF Tick, Lease!Next, Lease!Pass, Lease!Asking
<1>4. ASSUME NEW c \in Callers, Ask(c) \/ Finish(c) PROVE Lease!Next
  BY <1>2, <1>4 DEF Ask, Acquire, Verify, Release, Refresh, ForceRelease,
                    Finish, SetRejected, Probe, Reply, Fail, Abandon
<1>5. ASSUME NEW c \in Callers, Execute(c) PROVE Lease!Next
  <2> DEFINE s == call[c].slot
  <2>1. s \in Slots /\ call[c].step = "sent" /\ call[c].op # "none"
    BY <1>5, CallerTypes DEF Execute, SetNxPx, GetKey, ReleaseScript, RefreshScript, DelKey, Pending
  <2>2. ASSUME key[s] \in LockIds,
               (call[c].op \in {"release", "refresh"} /\ call[c].id = key[s]) \/ call[c].op = "force"
        PROVE  <<s, key[s]>> \in Asked
    BY <2>1, <2>2 DEF Asked
  <2>3. ASSUME <<s, key[s]>> \in Asked, Store(s, NoLock, 0) PROVE Lease!End(s)
    BY <2>3, AskedTypeNext DEF Store, Lease!End, Lease!Asking
  <2>4. CASE SetNxPx(c)
    <3>1. CASE key[s] # NoLock
      BY <1>2, <2>4, <3>1 DEF SetNxPx
    <3>2. CASE key[s] = NoLock
      <4>1. Store(s, call[c].id, call[c].ttl) /\ call[c].ttl \in Nat \ {0} /\ call[c].id \in LockIds
        BY <2>4, <3>2, CallerTypes DEF SetNxPx, Pending
      <4>2. pttl'[s] = call[c].ttl /\ pttl' = [pttl EXCEPT ![s] = pttl'[s]]
        BY <2>1, <4>1 DEF Store, TypeOK
      <4>3. Lease!Grant(s)
        BY <3>2, <4>1, <4>2, AskedTypeNext DEF Lease!Grant, Lease!Asking, Store
      <4> QED BY <2>1, <4>3 DEF Lease!Next
    <3> QED BY <3>1, <3>2
  <2>5. CASE GetKey(c)
    BY <1>2, <2>5 DEF GetKey
  <2>6. CASE ReleaseScript(c)
    <3>1. CASE key[s] # call[c].id
      BY <1>2, <2>6, <3>1 DEF ReleaseScript
    <3>2. CASE key[s] = call[c].id
      <4>1. Store(s, NoLock, 0) /\ call[c].op = "release" /\ key[s] \in LockIds
        BY <2>6, <3>2, CallerTypes DEF ReleaseScript, Pending
      <4> QED BY <2>1, <2>2, <2>3, <3>2, <4>1 DEF Lease!Next
    <3> QED BY <3>1, <3>2
  <2>7. CASE RefreshScript(c)
    <3>1. CASE key[s] # call[c].id
      BY <1>2, <2>7, <3>1 DEF RefreshScript
    <3>2. CASE key[s] = call[c].id
      <4>1. call[c].op = "refresh" /\ key[s] \in LockIds /\ <<s, key[s]>> \in Asked
        BY <2>2, <2>7, <3>2, CallerTypes DEF RefreshScript, Pending
      <4>2. CASE ~(call[c].ttl > 0)
        <5>1. Store(s, NoLock, 0)
          BY <2>7, <3>2, <4>2 DEF RefreshScript
        <5> QED BY <2>1, <2>3, <4>1, <5>1 DEF Lease!Next
      <4>3. CASE call[c].ttl > 0
        <5>1. Store(s, key[s], call[c].ttl) /\ call[c].ttl \in Nat \ {0}
          BY <2>7, <3>2, <4>3, CallerTypes DEF RefreshScript
        <5>2. pttl'[s] = call[c].ttl /\ pttl' = [pttl EXCEPT ![s] = pttl'[s]] /\ key' = key
          BY <2>1, <5>1 DEF Store, TypeOK
        <5>3. Lease!Extend(s)
          BY <4>1, <5>1, <5>2, AskedTypeNext DEF Lease!Extend, Lease!Asking
        <5> QED BY <2>1, <5>3 DEF Lease!Next
      <4> QED BY <4>2, <4>3
    <3> QED BY <3>1, <3>2
  <2>8. CASE DelKey(c)
    <3>1. Store(s, NoLock, 0) /\ call[c].op = "force"
      BY <2>8 DEF DelKey, Pending
    <3>2. CASE key[s] = NoLock
      <4>1. UNCHANGED <<key, pttl>>
        BY <2>1, <3>1, <3>2 DEF Store, TypeOK
      <4> QED BY <1>2, <4>1
    <3>3. CASE key[s] # NoLock
      <4>1. key[s] \in LockIds
        BY <2>1, <3>3 DEF TypeOK
      <4> QED BY <2>1, <2>2, <2>3, <3>1, <4>1 DEF Lease!Next
    <3> QED BY <3>2, <3>3
  <2> QED BY <1>5, <2>4, <2>5, <2>6, <2>7, <2>8 DEF Execute
<1> QED BY <1>1, <1>3, <1>4, <1>5 DEF Next

\* The lock service implements the lease it stands for.
THEOREM ImplementsLease == Spec => LeaseSpec
<1>1. Init => Lease!Init
  BY DEF Init, Lease!Init, Asked, Idle
<1> QED BY <1>1, LeaseStep, Invariant, PTL DEF Spec, LeaseSpec, Lease!Spec
=============================================================================
