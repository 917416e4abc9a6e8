---------------------------- MODULE KeyResolver ----------------------------
(***************************************************************************)
(* The AI gateway's cache of customers' provider keys (byok.Resolver), for *)
(* one company: entries of different companies never meet.  Completions    *)
(* resolve the key concurrently while the company rotates or removes its   *)
(* secret, an operator invalidates, and time passes.                       *)
(*                                                                         *)
(* Each action is one critical section of Resolver.mu, or one call of the  *)
(* secret store.  A load, the cache entry made from it and the key they    *)
(* share are one element of loads, named by its position: the code         *)
(* compares entries by pointer.  Closing the cache at shutdown does to the *)
(* company what Invalidate does.                                           *)
(*                                                                         *)
(* A definition named X_Y is X with a fault Y: the properties below must   *)
(* fail when it takes the place of X.                                      *)
(***************************************************************************)
EXTENDS Integers, Sequences

CONSTANTS
    Callers,        \* completions that need the key
    TTL,            \* Config.TTL
    VersionCheck,   \* Config.VersionCheck
    MaxCalls,       \* bound: calls of ResolveKey
    MaxClock,       \* bound: time
    MaxVersions,    \* bound: versions of the secret
    MaxFaults       \* bound: failed calls, cancellations, invalidations

ASSUME TTLAssumption == TTL \in Nat \ {0} /\ VersionCheck \in Nat
ASSUME BoundsAssumption ==
    MaxCalls \in Nat /\ MaxClock \in Nat /\ MaxVersions \in Nat /\ MaxFaults \in Nat

VARIABLES
    secret,    \* the version in Secrets Manager, 0 if there is none
    newest,    \* the last version the secret had
    loads,     \* every load there has been
    entry,     \* entries[company], 0 if there is none
    pending,   \* loads[company], 0 if there is none
    call,      \* what each caller is doing
    clock,     \* time
    calls,     \* calls so far
    faults     \* faults so far

vars == <<secret, newest, loads, entry, pending, call, clock, calls, faults>>
worldVars == <<secret, newest, clock>>
cacheVars == <<loads, entry, pending>>

-----------------------------------------------------------------------------
(* A call: when it began (now), the entry it found (cached), the load it   *)
(* waits for or makes (load), the version it is given (got) and whether    *)
(* that copy is empty.  wants and alone are history: the oldest version    *)
(* that is current for a call that begins now, and whether it began while  *)
(* no load was under way.                                                  *)
NoCall == [pc |-> "idle", now |-> 0, cached |-> 0, load |-> 0, got |-> 0,
           empty |-> FALSE, wants |-> 0, alone |-> FALSE]

NewLoad == [state |-> "running", version |-> 0, expires |-> 0, checkedAt |-> 0]

AtStep(c, pc) == call[c].pc = pc

Go(c, pc) == call' = [call EXCEPT ![c].pc = pc]

Fail(c) == call' = [call EXCEPT ![c] = NoCall]

(* Clone of the key of load l, for c alone; a zeroed key gives an empty    *)
(* copy.                                                                   *)
Return(c, l) ==
    call' = [call EXCEPT ![c].pc = "use", ![c].got = loads[l].version,
                         ![c].empty = loads[l].state = "zeroed"]

Zeroed_Not(ls, l) == ls
Zeroed(ls, l) == IF l = 0 THEN ls ELSE [ls EXCEPT ![l].state = "zeroed"]

(* evictLocked: zero the key and drop the entry. *)
Evict == entry' = 0 /\ loads' = Zeroed(loads, entry) /\ UNCHANGED pending

-----------------------------------------------------------------------------
(* ResolveKey.                                                             *)

Call(c) ==
    /\ AtStep(c, "idle")
    /\ calls < MaxCalls
    /\ calls' = calls + 1
    /\ call' = [call EXCEPT ![c] = [NoCall EXCEPT
                  !.pc = "look", !.now = clock, !.alone = pending = 0,
                  !.wants = IF secret = 0 THEN newest + 1 ELSE secret]]
    /\ UNCHANGED <<worldVars, cacheVars, faults>>

(* There is an entry that has not expired at time t. *)
Cached(t) == entry # 0 /\ t < loads[entry].expires

(* An expired entry is evicted; time may have passed since now was read. *)
Lookup(c) ==
    /\ AtStep(c, "look")
    /\ \/ /\ Cached(call[c].now)
          /\ call' = [call EXCEPT ![c].cached = entry,
                        ![c].pc = IF call[c].now - loads[entry].checkedAt < VersionCheck
                                  THEN "copy" ELSE "check"]
          /\ UNCHANGED cacheVars
       \/ /\ ~Cached(call[c].now)
          /\ Evict
          /\ Go(c, "load")
    /\ UNCHANGED <<worldVars, calls, faults>>

IsCurrent_Always(l) == secret # 0
IsCurrent(l) == secret = loads[l].version

(* Secrets.CurrentVersion. *)
CheckVersion(c) ==
    /\ AtStep(c, "check")
    /\ Go(c, IF secret = 0 THEN "gone"
             ELSE IF IsCurrent(call[c].cached) THEN "mark" ELSE "rotated")
    /\ UNCHANGED <<worldVars, cacheVars, calls, faults>>

(* ErrNoKey: the company has removed its key. *)
EvictGone(c) ==
    /\ AtStep(c, "gone")
    /\ Evict
    /\ Fail(c)
    /\ UNCHANGED <<worldVars, calls, faults>>

Mark(c) ==
    /\ AtStep(c, "mark")
    /\ loads' = [loads EXCEPT ![call[c].cached].checkedAt = call[c].now]
    /\ Go(c, "copy")
    /\ UNCHANGED <<worldVars, entry, pending, calls, faults>>

StillCached_Unchecked(c) == TRUE
StillCached(c) == entry = call[c].cached

(* copyIfCurrent. *)
Copy(c) ==
    /\ AtStep(c, "copy")
    /\ IF StillCached(c) THEN Return(c, call[c].cached) ELSE Go(c, "load")
    /\ UNCHANGED <<worldVars, cacheVars, calls, faults>>

EvictRotated(c) ==
    /\ AtStep(c, "rotated")
    /\ IF StillCached(c) THEN Evict ELSE UNCHANGED cacheVars
    /\ Go(c, "load")
    /\ UNCHANGED <<worldVars, calls, faults>>

-----------------------------------------------------------------------------
(* load.                                                                   *)

JoinsLoad == pending # 0

NextLoad == Len(loads) + 1

(* Another caller has loaded the key, or is loading it, or this one does. *)
Load(c) ==
    /\ AtStep(c, "load")
    /\ \/ /\ Cached(clock)
          /\ Return(c, entry)
          /\ UNCHANGED cacheVars
       \/ /\ ~Cached(clock)
          /\ JoinsLoad
          /\ call' = [call EXCEPT ![c].pc = "wait", ![c].load = pending]
          /\ UNCHANGED cacheVars
       \/ /\ ~Cached(clock)
          /\ ~JoinsLoad
          /\ loads' = Append(loads, NewLoad)
          /\ pending' = NextLoad
          /\ call' = [call EXCEPT ![c].pc = "fetch", ![c].load = NextLoad]
          /\ UNCHANGED entry
    /\ UNCHANGED <<worldVars, calls, faults>>

(* Secrets.Get; opening the envelope takes until Install. *)
Fetch(c) ==
    /\ AtStep(c, "fetch")
    /\ secret # 0
    /\ loads' = [loads EXCEPT ![call[c].load].version = secret]
    /\ Go(c, "install")
    /\ UNCHANGED <<worldVars, entry, pending, calls, faults>>

(* The new key replaces whatever is cached by now. *)
Install(c) ==
    LET l == call[c].load
    IN  /\ AtStep(c, "install")
        /\ pending' = 0
        /\ entry' = l
        /\ loads' = [Zeroed(loads, entry) EXCEPT
                       ![l].state = "live", ![l].expires = clock + TTL, ![l].checkedAt = clock]
        /\ Return(c, l)
        /\ UNCHANGED <<worldVars, calls, faults>>

LoadFails_NotClosed(c) ==
    /\ pending' = 0
    /\ Fail(c)
    /\ UNCHANGED <<worldVars, loads, entry, calls>>

(* Closing done wakes the waiters, who get the error too. *)
LoadFails(c) ==
    /\ pending' = 0
    /\ loads' = [loads EXCEPT ![call[c].load].state = "failed"]
    /\ Fail(c)
    /\ UNCHANGED <<worldVars, entry, calls>>

NoSecret(c) ==
    /\ AtStep(c, "fetch")
    /\ secret = 0
    /\ LoadFails(c)
    /\ UNCHANGED faults

(* The wait ends with the load: the key may have been evicted since. *)
ReloadsEmpty(l) == loads[l].state = "zeroed"

WaitEnds(c) ==
    LET l == call[c].load
    IN  /\ AtStep(c, "wait")
        /\ loads[l].state # "running"
        /\ CASE loads[l].state = "failed" -> Fail(c)
             [] ReloadsEmpty(l)           -> Go(c, "load")
             [] OTHER                     -> Return(c, l)
        /\ UNCHANGED <<worldVars, cacheVars, calls, faults>>

(* The completion is over and its copy of the key is zeroed. *)
Finish(c) ==
    /\ AtStep(c, "use")
    /\ Fail(c)
    /\ UNCHANGED <<worldVars, cacheVars, calls, faults>>

-----------------------------------------------------------------------------
(* What else happens.                                                      *)

Fault == faults < MaxFaults /\ faults' = faults + 1

(* AWS fails, or the caller's context ends, before the load is over. *)
CallFails(c) ==
    /\ Fault
    /\ \/ /\ call[c].pc \in {"check", "wait"}
          /\ Fail(c)
          /\ UNCHANGED <<worldVars, cacheVars, calls>>
       \/ /\ call[c].pc \in {"fetch", "install"}
          /\ LoadFails(c)

Invalidate ==
    /\ Fault
    /\ Evict
    /\ UNCHANGED <<worldVars, call, calls>>

Sweep ==
    /\ entry # 0
    /\ ~Cached(clock)
    /\ Evict
    /\ UNCHANGED <<worldVars, call, calls, faults>>

Rotate ==
    /\ newest < MaxVersions
    /\ newest' = newest + 1
    /\ secret' = newest + 1
    /\ UNCHANGED <<clock, cacheVars, call, calls, faults>>

Remove ==
    /\ secret # 0
    /\ secret' = 0
    /\ UNCHANGED <<newest, clock, cacheVars, call, calls, faults>>

Tick ==
    /\ clock < MaxClock
    /\ clock' = clock + 1
    /\ UNCHANGED <<secret, newest, cacheVars, call, calls, faults>>

-----------------------------------------------------------------------------
Init ==
    /\ secret = 0
    /\ newest = 0
    /\ loads = << >>
    /\ entry = 0
    /\ pending = 0
    /\ call = [c \in Callers |-> NoCall]
    /\ clock = 0
    /\ calls = 0
    /\ faults = 0

Resolve(c) ==
    \/ Lookup(c) \/ CheckVersion(c) \/ EvictGone(c) \/ Mark(c) \/ Copy(c)
    \/ EvictRotated(c) \/ Load(c) \/ Fetch(c) \/ Install(c) \/ NoSecret(c)
    \/ WaitEnds(c)

Next ==
    \/ \E c \in Callers : Call(c) \/ Resolve(c) \/ Finish(c) \/ CallFails(c)
    \/ Invalidate \/ Sweep \/ Rotate \/ Remove \/ Tick

Spec == Init /\ [][Next]_vars

(* A caller goes on, and Run sweeps for ever. *)
FairSpec == Spec /\ WF_vars(Sweep) /\ \A c \in Callers : WF_vars(Resolve(c))

-----------------------------------------------------------------------------
(* Properties.                                                             *)

LoadRecord == [state : {"running", "failed", "live", "zeroed"},
               version : Nat, expires : Nat, checkedAt : Nat]

CallRecord == [pc : {"idle", "look", "check", "gone", "mark", "copy", "rotated",
                     "load", "fetch", "install", "wait", "use"},
               now : Nat, cached : Nat, load : Nat, got : Nat, empty : BOOLEAN,
               wants : Nat, alone : BOOLEAN]

(* Every variable has its type. *)
TypeOK ==
    /\ secret \in Nat /\ newest \in Nat
    /\ loads \in Seq(LoadRecord)
    /\ entry \in 0..Len(loads)
    /\ pending \in 0..Len(loads)
    /\ call \in [Callers -> CallRecord]
    /\ \A c \in Callers : call[c].cached <= Len(loads) /\ call[c].load <= Len(loads)
    /\ clock \in Nat /\ calls \in Nat /\ faults \in Nat

(* A completion never runs with a zeroed key, although the cache zeroes    *)
(* keys that callers have found but not yet copied.                        *)
NoEmptyKey == \A c \in Callers : ~call[c].empty

(* Nothing but the current entry keeps a key in memory: an entry that is   *)
(* replaced, rotated, expired or invalidated has its key zeroed, whatever  *)
(* load was under way.                                                     *)
OnlyEntryIsLive ==
    \A l \in 1..Len(loads) : loads[l].state = "live" <=> l = entry

(* Concurrent misses share one load. *)
OneFetch ==
    \A c, d \in Callers :
        call[c].pc \in {"fetch", "install"} /\ call[d].pc \in {"fetch", "install"} => c = d

(* With VersionCheck zero, a call that begins while no load is under way   *)
(* gets a version that was current during the call, however long ago the   *)
(* cached one was loaded and whoever copies, evicts or reloads meanwhile.  *)
CurrentWhenAlone ==
    \A c \in Callers : call[c].pc = "use" /\ call[c].alone => call[c].got >= call[c].wants

(* Every call returns: a waiter is woken by its load, also by a failed     *)
(* one, and one that finds the key zeroed loads it itself.                 *)
CallsReturn ==
    \A c \in Callers : call[c].pc # "idle" ~> call[c].pc \in {"idle", "use"}

(* A key that has expired is zeroed, also when nobody asks for it again. *)
ExpiredIsZeroed ==
    \A l \in 1..MaxCalls :
        LET is(state) == l <= Len(loads) /\ loads[l].state = state
        IN  (is("live") /\ clock >= loads[l].expires) ~> is("zeroed")

-----------------------------------------------------------------------------
(* The inductive invariant behind the safety properties.                   *)

Fetching(c) == call[c].pc \in {"fetch", "install"}
HasEntry(c) == call[c].pc \in {"check", "gone", "mark", "copy", "rotated"}
IsLoading(c) == call[c].pc \in {"load", "fetch", "install", "wait"}

(* The load that is running is the pending one, and who fetches makes it. *)
LoadInv ==
    /\ \A l \in 1..Len(loads) : loads[l].state = "running" <=> l = pending
    /\ \A c \in Callers :
          /\ HasEntry(c) => call[c].cached # 0
          /\ Fetching(c) \/ AtStep(c, "wait") => call[c].load # 0
          /\ Fetching(c) => call[c].load = pending
          /\ AtStep(c, "install") => loads[call[c].load].version # 0

(* No time lies in the future, and the secret is at least what any call    *)
(* in progress wants.                                                      *)
TimeInv ==
    /\ secret <= newest
    /\ \A l \in 1..Len(loads) : loads[l].checkedAt <= clock
    /\ \A c \in Callers :
          /\ call[c].now <= clock
          /\ call[c].wants <= newest + 1
          /\ secret = 0 \/ secret >= call[c].wants

Fresh(c, l) == loads[l].version >= call[c].wants

(* What a call that began alone may still come to copy is fresh: every     *)
(* entry that replaces the one it found comes from a load that began after *)
(* it.                                                                     *)
AloneOK(c) ==
    /\ pending # 0 => loads[pending].version = 0 \/ Fresh(c, pending)
    /\ AtStep(c, "look") =>
          /\ entry # 0 /\ loads[entry].checkedAt > call[c].now => Fresh(c, entry)
          /\ \A d \in Callers : AtStep(d, "mark") /\ call[d].now > call[c].now
                                  => Fresh(c, call[d].cached)
    /\ HasEntry(c) => entry \in {0, call[c].cached} \/ Fresh(c, entry)
    /\ AtStep(c, "mark") \/ AtStep(c, "copy") => Fresh(c, call[c].cached)
    /\ IsLoading(c) => entry = 0 \/ Fresh(c, entry)
    /\ AtStep(c, "wait") /\ loads[call[c].load].state \in {"live", "zeroed"}
          => Fresh(c, call[c].load)
    /\ AtStep(c, "use") => call[c].got >= call[c].wants

AloneInv == \A c \in Callers : call[c].alone => AloneOK(c)

CacheInv == TypeOK /\ LoadInv /\ OneFetch /\ OnlyEntryIsLive /\ NoEmptyKey

IInv == CacheInv /\ TimeInv /\ AloneInv

=============================================================================
