------------------------------ MODULE SlotLock ------------------------------
(***************************************************************************)
(* The Redis slot lock: services/lockService.js behind routes/locks.js.    *)
(*                                                                         *)
(* A request is one Redis command (acquire, release, refresh, force) or    *)
(* two (verify, a refused acquire), each at an await.  ioredis is          *)
(* configured with maxRetriesPerRequest, so a command whose connection     *)
(* closed before its answer arrived is sent AGAIN, although Redis may have *)
(* executed it; after the last retry the call throws and the route answers *)
(* 500.  Time is counted in ticks; Redis counts a key's time to live down  *)
(* and removes the key at zero.                                            *)
(***************************************************************************)
EXTENDS Integers, FiniteSets

CONSTANTS
  Callers,     \* clients of the /api/locks routes
  Slots,       \* lock keys: booking_lock:{resource}:date:time
  LockIds,     \* the uuids that are told apart
  NoLock,      \* no lock id
  NoSlot,      \* no slot
  DefaultTtl,  \* LOCK_TTL, in ticks
  TtlChoices,  \* values of the body's ttl; the route does not validate it
  MaxTtl,      \* bound on a time to live
  MaxRetries   \* maxRetriesPerRequest

ASSUME ConstantsAssumption ==
  /\ NoLock \notin LockIds
  /\ NoSlot \notin Slots
  /\ MaxTtl \in Nat \ {0}
  /\ DefaultTtl \in 1..MaxTtl
  /\ TtlChoices \subseteq -1..MaxTtl
  /\ MaxRetries \in Nat

VARIABLES
  key,      \* Redis: slot -> the lock id stored under its key, or NoLock
  pttl,     \* Redis: slot -> the key's remaining time to live
  call,     \* caller -> its request in the server
  held,     \* caller -> the lock it was last told it has
  revoked   \* history: lock ids an administrator has removed

vars == <<key, pttl, call, held, revoked>>

Ops == {"none", "acquire", "verify", "release", "refresh", "force"}

Calls == [ op    : Ops,
           step  : {"sent", "probe", "done", "refused"},
           slot  : Slots \cup {NoSlot},
           id    : LockIds \cup {NoLock},
           ttl   : -1..MaxTtl,
           tries : 0..MaxRetries,
           age   : 0..MaxTtl ]

\* due: ticks until the expiresAt in the answer; late: the ticks that had
\* passed since Redis executed the command when expiresAt was computed.
Views == [ slot : Slots \cup {NoSlot},
           id   : LockIds \cup {NoLock},
           due  : 0..MaxTtl,
           late : 0..MaxTtl ]

Idle == [op |-> "none", step |-> "sent", slot |-> NoSlot, id |-> NoLock,
         ttl |-> 0, tries |-> 0, age |-> 0]

NoView == [slot |-> NoSlot, id |-> NoLock, due |-> 0, late |-> 0]

TypeOK ==
  /\ key \in [Slots -> LockIds \cup {NoLock}]
  /\ pttl \in [Slots -> 0..MaxTtl]
  /\ \A s \in Slots : key[s] = NoLock <=> pttl[s] = 0
  /\ call \in [Callers -> Calls]
  /\ \A c \in Callers : call[c].op # "none" =>
       call[c].slot \in Slots /\ (call[c].op # "force" => call[c].id \in LockIds)
  /\ held \in [Callers -> Views]
  /\ \A c \in Callers : held[c].id # NoLock => held[c].slot \in Slots
  /\ revoked \in SUBSET LockIds

Init ==
  /\ key = [s \in Slots |-> NoLock]
  /\ pttl = [s \in Slots |-> 0]
  /\ call = [c \in Callers |-> Idle]
  /\ held = [c \in Callers |-> NoView]
  /\ revoked = {}

-----------------------------------------------------------------------------
(* Helpers                                                                 *)

Least(a, b) == IF a < b THEN a ELSE b

\* The body's ttl or, when it is missing or 0, the default: `ttl || DEFAULT_TTL`.
LockTTL(t) == IF t = 0 THEN DefaultTtl ELSE t

\* No caller has the id and no request in the server carries it.
Unknown(i) == \A c \in Callers : call[c].id # i /\ held[c].id # i

\* uuidv4(): an id nobody knows and no key stores.
Fresh(i) == Unknown(i) /\ \A s \in Slots : key[s] # i

\* The handler has computed key, id and time and awaits its first command.
Request(c, op, s, i, t) ==
  call' = [call EXCEPT ![c] = [op |-> op, step |-> "sent", slot |-> s, id |-> i,
                               ttl |-> t, tries |-> 0, age |-> 0]]

\* The command of c's request is at Redis or on its way there.
Pending(c, op) == call[c].op = op /\ call[c].step = "sent"

\* After execution: the answer arrives and the handler goes on at step, or the
\* connection closes first and the client sends the command again.
Executed(c, step) ==
  \/ call' = [call EXCEPT ![c] = [@ EXCEPT !.step = step, !.age = 0]]
  \/ /\ call[c].tries < MaxRetries
     /\ call' = [call EXCEPT ![c].tries = @ + 1]

\* Mutant: SET NX without PX, the key gets no time to live.
StoreWithoutTime(s, i, t) ==
  /\ key' = [key EXCEPT ![s] = i]
  /\ UNCHANGED pttl

Store(s, i, t) ==
  /\ key' = [key EXCEPT ![s] = i]
  /\ pttl' = [pttl EXCEPT ![s] = t]

-----------------------------------------------------------------------------
(* Requests                                                                *)

\* POST /acquire
Acquire(c, s, i, t) ==
  /\ call[c].op = "none"
  /\ Fresh(i)
  /\ Request(c, "acquire", s, i, LockTTL(t))
  /\ revoked' = revoked \ {i}
  /\ UNCHANGED <<key, pttl, held>>

\* POST /verify, for the lock the caller was told it has.
Verify(c) ==
  /\ call[c].op = "none"
  /\ held[c].id # NoLock
  /\ Request(c, "verify", held[c].slot, held[c].id, 0)
  /\ UNCHANGED <<key, pttl, held, revoked>>

\* POST /release.  The caller stops counting on the lock when it asks.
Release(c) ==
  /\ call[c].op = "none"
  /\ held[c].id # NoLock
  /\ Request(c, "release", held[c].slot, held[c].id, 0)
  /\ held' = [held EXCEPT ![c].due = 0]
  /\ UNCHANGED <<key, pttl, revoked>>

\* POST /refresh.  Until the answer the caller counts on no more than the
\* time it asked for.
Refresh(c, t) ==
  /\ call[c].op = "none"
  /\ held[c].id # NoLock
  /\ Request(c, "refresh", held[c].slot, held[c].id, LockTTL(t))
  /\ held' = [held EXCEPT ![c].due = IF LockTTL(t) < 0 THEN 0
                                     ELSE Least(@, LockTTL(t))]
  /\ UNCHANGED <<key, pttl, revoked>>

\* POST /admin/force-release
ForceRelease(c, s) ==
  /\ call[c].op = "none"
  /\ Request(c, "force", s, NoLock, 0)
  /\ UNCHANGED <<key, pttl, held, revoked>>

-----------------------------------------------------------------------------
(* Commands executed by Redis                                              *)

\* Mutant: SET PX without NX.
SetPx(c) ==
  LET r == call[c] IN
  /\ Pending(c, "acquire")
  /\ r.ttl > 0
  /\ Store(r.slot, r.id, r.ttl)
  /\ Executed(c, "done")
  /\ UNCHANGED <<held, revoked>>

\* SET key id NX PX ttl: writes only when the key does not exist.
SetNxPx(c) ==
  LET r == call[c] IN
  /\ Pending(c, "acquire")
  /\ r.ttl > 0
  /\ \/ /\ key[r.slot] = NoLock
        /\ Store(r.slot, r.id, r.ttl)
        /\ Executed(c, "done")
     \/ /\ key[r.slot] # NoLock
        /\ Executed(c, "probe")
        /\ UNCHANGED <<key, pttl>>
  /\ UNCHANGED <<held, revoked>>

\* A negative ttl is an error for SET: the call throws, the route answers 500.
SetRejected(c) ==
  /\ Pending(c, "acquire")
  /\ call[c].ttl < 0
  /\ call' = [call EXCEPT ![c] = Idle]
  /\ UNCHANGED <<key, pttl, held, revoked>>

\* GET key: verifyLock goes on to PTTL only when the id matches.
GetKey(c) ==
  LET match == key[call[c].slot] = call[c].id IN
  /\ Pending(c, "verify")
  /\ Executed(c, IF match THEN "probe" ELSE "refused")
  /\ UNCHANGED <<key, pttl, held, revoked>>

\* PTTL key, the second command of verifyLock and of a refused acquireLock.
Probe(c) ==
  /\ call[c].step = "probe"
  /\ call' = [call EXCEPT ![c].step = IF call[c].op = "verify" THEN "done" ELSE "refused"]
  /\ UNCHANGED <<key, pttl, held, revoked>>

\* Mutant: DEL instead of RELEASE_SCRIPT.
ReleaseUnchecked(c) ==
  /\ Pending(c, "release")
  /\ Store(call[c].slot, NoLock, 0)
  /\ Executed(c, "done")
  /\ UNCHANGED <<held, revoked>>

\* RELEASE_SCRIPT: delete the key if it holds the caller's id.
ReleaseScript(c) ==
  LET r == call[c] IN
  /\ Pending(c, "release")
  /\ \/ /\ key[r.slot] = r.id
        /\ Store(r.slot, NoLock, 0)
        /\ Executed(c, "done")
     \/ /\ key[r.slot] # r.id
        /\ Executed(c, "refused")
        /\ UNCHANGED <<key, pttl>>
  /\ UNCHANGED <<held, revoked>>

\* Mutant: PEXPIRE instead of REFRESH_SCRIPT.
RefreshUnchecked(c) ==
  LET r == call[c] IN
  /\ Pending(c, "refresh")
  /\ r.ttl > 0 /\ key[r.slot] # NoLock
  /\ Store(r.slot, key[r.slot], r.ttl)
  /\ Executed(c, "done")
  /\ UNCHANGED <<held, revoked>>

\* REFRESH_SCRIPT: PEXPIRE if the key holds the caller's id.  PEXPIRE with a
\* negative time deletes the key and still answers 1.
RefreshScript(c) ==
  LET r == call[c] IN
  /\ Pending(c, "refresh")
  /\ \/ /\ key[r.slot] = r.id
        /\ IF r.ttl > 0 THEN Store(r.slot, r.id, r.ttl)
                        ELSE Store(r.slot, NoLock, 0)
        /\ Executed(c, "done")
     \/ /\ key[r.slot] # r.id
        /\ Executed(c, "refused")
        /\ UNCHANGED <<key, pttl>>
  /\ UNCHANGED <<held, revoked>>

\* DEL key, whoever holds it.
DelKey(c) ==
  LET s == call[c].slot IN
  /\ Pending(c, "force")
  /\ Store(s, NoLock, 0)
  /\ Executed(c, IF key[s] # NoLock THEN "done" ELSE "refused")
  /\ revoked' = revoked \cup ({key[s]} \ {NoLock})
  /\ UNCHANGED held

-----------------------------------------------------------------------------
(* Answers, failures, time                                                 *)

\* The caller's view after its answer.  A granted or refreshed lock comes with
\* expiresAt = Date.now() + ttl, computed when the answer has come back.
ViewAfter(c) ==
  LET r == call[c]
      lease == [slot |-> r.slot, id |-> r.id,
                due |-> IF r.ttl > 0 THEN r.ttl ELSE 0, late |-> r.age]
  IN CASE r.op \in {"acquire", "refresh"} /\ r.step = "done" -> lease
       [] r.op \in {"refresh", "verify"} /\ r.step = "refused" -> NoView
       [] r.op = "release" -> NoView
       [] OTHER -> held[c]

\* The route answers 200, 404 or 409.
Reply(c) ==
  /\ call[c].step \in {"done", "refused"}
  /\ held' = [held EXCEPT ![c] = ViewAfter(c)]
  /\ call' = [call EXCEPT ![c] = Idle]
  /\ UNCHANGED <<key, pttl, revoked>>

\* The request ends without an answer: the retries are used up and the call
\* throws (500), or the server process dies.  Its command may have been executed.
Fail(c) ==
  /\ call[c].op # "none"
  /\ call' = [call EXCEPT ![c] = Idle]
  /\ UNCHANGED <<key, pttl, held, revoked>>

\* The client goes away with its lock and never comes back for it.
Abandon(c) ==
  /\ held[c].id # NoLock
  /\ call[c].op = "none"
  /\ held' = [held EXCEPT ![c] = NoView]
  /\ UNCHANGED <<key, pttl, call, revoked>>

\* One unit of time for Redis, for the server and for every client's clock.
Tick ==
  /\ pttl' = [s \in Slots |-> IF pttl[s] > 0 THEN pttl[s] - 1 ELSE 0]
  /\ key' = [s \in Slots |-> IF pttl[s] > 1 THEN key[s] ELSE NoLock]
  /\ held' = [c \in Callers |->
                [held[c] EXCEPT !.due = IF @ > 0 THEN @ - 1 ELSE 0]]
  /\ call' = [c \in Callers |->
                IF /\ call[c].op \in {"acquire", "refresh"}
                   /\ call[c].step = "done"
                  THEN [call[c] EXCEPT !.age = Least(@ + 1, MaxTtl)]
                  ELSE call[c]]
  /\ revoked' = {i \in revoked : ~Unknown(i)}

Ask(c) ==
  \/ \E s \in Slots, i \in LockIds, t \in TtlChoices : Acquire(c, s, i, t)
  \/ Verify(c) \/ Release(c)
  \/ \E t \in TtlChoices : Refresh(c, t)
  \/ \E s \in Slots : ForceRelease(c, s)

Execute(c) ==
  \/ SetNxPx(c) \/ GetKey(c)
  \/ ReleaseScript(c) \/ RefreshScript(c) \/ DelKey(c)

Finish(c) ==
  SetRejected(c) \/ Probe(c) \/ Reply(c) \/ Fail(c) \/ Abandon(c)

Next ==
  \/ Tick
  \/ \E c \in Callers : Ask(c) \/ Execute(c) \/ Finish(c)

\* Nothing of the server is assumed to happen; only time does not stop.
Spec == Init /\ [][Next]_vars /\ WF_vars(Tick)

-----------------------------------------------------------------------------
(* Properties                                                              *)

\* The caller may rely on its lock: by its clock, corrected for the time its
\* last answer took, the lock has not run out, and no administrator took it.
Trusts(c) ==
  held[c].id # NoLock /\ held[c].due > held[c].late /\ held[c].id \notin revoked

\* A lock that a caller may rely on is in Redis and lasts at least as long as
\* the caller was told, less the delay of the answer: expiresAt, which
\* acquireLock and refreshLock compute after the answer, is off by no more
\* than that delay, through resends, expiry, stale releases and refreshes.
TrustedLockIsHeld ==
  \A c \in Callers : Trusts(c) =>
    /\ key[held[c].slot] = held[c].id
    /\ pttl[held[c].slot] >= held[c].due - held[c].late

\* Two callers never rely on a lock of the same slot at the same time: what
\* the service says it is for (lockService.js "Prevents double-booking").
MutualExclusion ==
  \A c, d \in Callers :
    Trusts(c) /\ Trusts(d) /\ held[c].slot = held[d].slot => c = d

\* The service implements a lease: no lock is overwritten, and none is ended
\* or extended early except by a request of its own holder (the Lua scripts'
\* comparison) or of an administrator; a resent command changes nothing in that.
Asked ==
  {p \in Slots \X LockIds :
     \E c \in Callers :
       /\ call[c].step = "sent"
       /\ call[c].slot = p[1]
       /\ \/ call[c].op \in {"release", "refresh"} /\ call[c].id = p[2]
          \/ call[c].op = "force"}

Lease == INSTANCE AbstractLease
           WITH Ids <- LockIds, None <- NoLock,
                holder <- key, left <- pttl, asked <- Asked

LeaseSpec == Lease!Spec

\* Nobody can refresh or release the lock stored for s any more.
Orphan(s, i) == key[s] = i /\ Unknown(i)

\* A lock whose owner crashed, gave up or was told "locked by another user" by
\* the resend of its own successful SET does not block its slot for ever.
OrphanIsFreed ==
  \A s \in Slots, i \in LockIds : Orphan(s, i) ~> key[s] # i
=============================================================================
