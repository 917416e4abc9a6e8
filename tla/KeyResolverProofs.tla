------------------------- MODULE KeyResolverProofs -------------------------
(***************************************************************************)
(* Proofs about KeyResolver, for any number of callers and any bounds.     *)
(***************************************************************************)
EXTENDS KeyResolver, TLAPS

(* The record of an idle caller, and that of a new load, have their types. *)
LEMMA NoCallType == NoCall \in CallRecord
BY DEF NoCall, CallRecord

LEMMA NewLoadType == NewLoad \in LoadRecord
BY DEF NewLoad, LoadRecord

(* Replacing one load. *)
LEMMA SetLoad ==
    ASSUME NEW ls \in Seq(LoadRecord), NEW l \in 1..Len(ls), NEW r \in LoadRecord
    PROVE  LET new == [ls EXCEPT ![l] = r]
           IN  /\ new \in Seq(LoadRecord)
               /\ Len(new) = Len(ls)
               /\ new[l] = r
               /\ \A k \in 1..Len(ls) : k # l => new[k] = ls[k]
<1> DEFINE new == [ls EXCEPT ![l] = r]
<1>1. new \in [1..Len(ls) -> LoadRecord]
  OBVIOUS
<1>2. Len(ls) \in Nat
  OBVIOUS
<1>3. new \in Seq(LoadRecord) /\ Len(new) = Len(ls)
  BY <1>1, <1>2
<1> QED BY <1>3

(* Zeroing a key changes the state of that load alone. *)
LEMMA ZeroedType ==
    ASSUME NEW ls \in Seq(LoadRecord), NEW l \in 0..Len(ls)
    PROVE  /\ Zeroed(ls, l) \in Seq(LoadRecord)
           /\ Len(Zeroed(ls, l)) = Len(ls)
           /\ \A k \in 1..Len(ls) :
                /\ Zeroed(ls, l)[k].version = ls[k].version
                /\ Zeroed(ls, l)[k].checkedAt = ls[k].checkedAt
                /\ Zeroed(ls, l)[k].expires = ls[k].expires
                /\ Zeroed(ls, l)[k].state = IF k = l THEN "zeroed" ELSE ls[k].state
<1>1. CASE l = 0
  BY <1>1 DEF Zeroed, LoadRecord
<1>2. CASE l # 0
  <2> DEFINE r == [ls[l] EXCEPT !.state = "zeroed"]
  <2>1. Zeroed(ls, l) = [ls EXCEPT ![l] = r]
    BY <1>2 DEF Zeroed
  <2>2. ls[l] \in LoadRecord
    BY <1>2
  <2>3. /\ r \in LoadRecord /\ r.state = "zeroed" /\ r.version = ls[l].version
        /\ r.checkedAt = ls[l].checkedAt /\ r.expires = ls[l].expires
    BY <2>2 DEF LoadRecord
  <2> HIDE DEF r
  <2> QED BY <1>2, <2>1, <2>3, SetLoad
<1> QED BY <1>1, <1>2

(* Every load is a record. *)
LEMMA LoadFields ==
    ASSUME NEW ls \in Seq(LoadRecord), NEW l \in 1..Len(ls)
    PROVE  /\ ls[l] \in LoadRecord
           /\ ls[l].state \in {"running", "failed", "live", "zeroed"}
           /\ ls[l].version \in Nat /\ ls[l].expires \in Nat /\ ls[l].checkedAt \in Nat
<1>1. ls[l] \in LoadRecord
  OBVIOUS
<1> QED BY <1>1 DEF LoadRecord

(* Replacing the record of one caller. *)
LEMMA SetCall ==
    ASSUME TypeOK, NEW c \in Callers, NEW r \in CallRecord,
           call' = [call EXCEPT ![c] = r]
    PROVE  /\ call' \in [Callers -> CallRecord]
           /\ call'[c] = r
           /\ \A d \in Callers : d # c => call'[d] = call[d]
BY DEF TypeOK

(* What a caller's record may become when the cache stays as it is. *)
CallFits(r) ==
    /\ r \in CallRecord
    /\ r.cached <= Len(loads) /\ r.load <= Len(loads)
    /\ r.pc \notin {"fetch", "install"}
    /\ r.pc \in {"check", "gone", "mark", "copy", "rotated"} => r.cached # 0
    /\ r.pc = "wait" => r.load # 0
    /\ ~r.empty

(* A step that changes no more than the record of one caller. *)
LEMMA CallOnly ==
    ASSUME CacheInv, NEW c \in Callers, NEW r, CallFits(r),
           call' = [call EXCEPT ![c] = r],
           UNCHANGED <<worldVars, cacheVars>>,
           calls' \in Nat, faults' \in Nat
    PROVE  CacheInv'
<1>0. TypeOK /\ r \in CallRecord
  BY DEF CacheInv, CallFits
<1>1. /\ call' \in [Callers -> CallRecord] /\ call'[c] = r
      /\ \A d \in Callers : d # c => call'[d] = call[d]
  BY <1>0, SetCall
<1>2. UNCHANGED <<loads, entry, pending, secret, newest, clock>>
  BY DEF cacheVars, worldVars
<1>3. TypeOK'
  BY <1>0, <1>1, <1>2 DEF TypeOK, CallFits
<1>4. LoadInv'
  BY <1>0, <1>1, <1>2 DEF CacheInv, LoadInv, CallFits, Fetching, HasEntry, AtStep
<1>5. OneFetch'
  BY <1>1 DEF CacheInv, OneFetch, CallFits
<1>6. OnlyEntryIsLive'
  BY <1>2 DEF CacheInv, OnlyEntryIsLive
<1>7. NoEmptyKey'
  BY <1>1 DEF CacheInv, NoEmptyKey, CallFits
<1> QED BY <1>3, <1>4, <1>5, <1>6, <1>7 DEF CacheInv

(* Evict zeroes the key of the entry, if there is one. *)
LEMMA EvictEffect ==
    ASSUME TypeOK, Evict
    PROVE  /\ entry' = 0 /\ pending' = pending
           /\ loads' \in Seq(LoadRecord) /\ Len(loads') = Len(loads)
           /\ \A k \in 1..Len(loads) :
                /\ loads'[k].version = loads[k].version
                /\ loads'[k].checkedAt = loads[k].checkedAt
                /\ loads'[k].state = IF k = entry THEN "zeroed" ELSE loads[k].state
BY ZeroedType DEF TypeOK, Evict

(* A step that evicts and gives a caller a record that does not fetch. *)
LEMMA EvictStep ==
    ASSUME CacheInv, Evict, call' \in [Callers -> CallRecord],
           \A d \in Callers :
              \/ call'[d] = call[d]
              \/ CallFits(call'[d]),
           UNCHANGED worldVars, calls' \in Nat, faults' \in Nat
    PROVE  CacheInv'
<1>0. TypeOK
  BY DEF CacheInv
<1>1. /\ entry' = 0 /\ pending' = pending
      /\ loads' \in Seq(LoadRecord) /\ Len(loads') = Len(loads)
      /\ \A k \in 1..Len(loads) :
           /\ loads'[k].version = loads[k].version
           /\ loads'[k].checkedAt = loads[k].checkedAt
           /\ loads'[k].state = IF k = entry THEN "zeroed" ELSE loads[k].state
  BY <1>0, EvictEffect
<1>2. UNCHANGED <<secret, newest, clock>>
  BY DEF worldVars
<1>3. TypeOK'
  BY <1>0, <1>1, <1>2 DEF TypeOK, CallFits
<1>a. entry # 0 => loads[entry].state = "live"
  BY <1>0 DEF TypeOK, CacheInv, OnlyEntryIsLive
<1>4. LoadInv'
  <2>1. \A l \in 1..Len(loads)' : loads'[l].state = "running" <=> l = pending'
    BY <1>0, <1>1, <1>a DEF CacheInv, LoadInv, TypeOK
  <2>2. ASSUME NEW d \in Callers
        PROVE  /\ HasEntry(d)' => call'[d].cached # 0
               /\ Fetching(d)' \/ AtStep(d, "wait")' => call'[d].load # 0
               /\ Fetching(d)' => call'[d].load = pending'
               /\ AtStep(d, "install")' => loads'[call'[d].load].version # 0
    <3>1. CASE CallFits(call'[d])
      BY <3>1 DEF CallFits, Fetching, HasEntry, AtStep
    <3>2. CASE call'[d] = call[d]
      <4>1. /\ HasEntry(d) => call[d].cached # 0
            /\ Fetching(d) \/ AtStep(d, "wait") => call[d].load # 0
            /\ Fetching(d) => call[d].load = pending
            /\ AtStep(d, "install") => loads[call[d].load].version # 0
        BY DEF CacheInv, LoadInv
      <4>2. call[d].load \in Nat /\ call[d].load <= Len(loads) /\ pending \in 0..Len(loads)
        BY <1>0 DEF TypeOK, CallRecord
      <4>3. AtStep(d, "install") => Fetching(d)
        BY DEF AtStep, Fetching
      <4> QED BY <3>2, <4>1, <4>2, <4>3, <1>1, <1>a DEF Fetching, HasEntry, AtStep
    <3> QED BY <3>1, <3>2
  <2> QED BY <2>1, <2>2 DEF LoadInv
<1>5. OneFetch'
  BY DEF CacheInv, OneFetch, CallFits
<1>6. OnlyEntryIsLive'
  BY <1>0, <1>1 DEF CacheInv, OnlyEntryIsLive, TypeOK
<1>7. NoEmptyKey'
  BY DEF CacheInv, NoEmptyKey, CallFits
<1> QED BY <1>3, <1>4, <1>5, <1>6, <1>7 DEF CacheInv

(* An entry holds a live key. *)
LEMMA EntryIsLive ==
    ASSUME CacheInv, entry # 0
    PROVE  entry \in 1..Len(loads) /\ loads[entry].state = "live"
BY DEF CacheInv, TypeOK, OnlyEntryIsLive

(* The record that Return gives its caller. *)
Given(c, l) == [call[c] EXCEPT !.pc = "use", !.got = loads[l].version,
                               !.empty = loads[l].state = "zeroed"]

LEMMA ReturnFits ==
    ASSUME CacheInv, NEW c \in Callers, NEW l \in 1..Len(loads),
           loads[l].state # "zeroed", Return(c, l)
    PROVE  call' = [call EXCEPT ![c] = Given(c, l)] /\ CallFits(Given(c, l))
<1>1. call' = [call EXCEPT ![c] = Given(c, l)]
  BY DEF Return, Given
<1>2. /\ call[c] \in CallRecord /\ call[c].cached <= Len(loads)
      /\ call[c].load <= Len(loads) /\ loads[l].version \in Nat
  BY LoadFields DEF CacheInv, TypeOK
<1>3. /\ Given(c, l).pc = "use" /\ Given(c, l).cached = call[c].cached
      /\ Given(c, l).load = call[c].load /\ ~Given(c, l).empty
      /\ Given(c, l) \in CallRecord
  BY <1>2 DEF Given, CallRecord
<1> QED BY <1>1, <1>2, <1>3 DEF CallFits

(* The record of a caller that only moves on. *)
LEMMA GoFits ==
    ASSUME CacheInv, NEW c \in Callers, NEW pc, Go(c, pc),
           pc \in {"idle", "look", "check", "gone", "mark", "copy", "rotated", "load"},
           pc \in {"check", "gone", "mark", "copy", "rotated"} => HasEntry(c),
           ~AtStep(c, "use")
    PROVE  LET r == [call[c] EXCEPT !.pc = pc]
           IN  call' = [call EXCEPT ![c] = r] /\ CallFits(r)
<1> DEFINE r == [call[c] EXCEPT !.pc = pc]
<1>1. call' = [call EXCEPT ![c] = r]
  BY DEF Go
<1>2. /\ call[c] \in CallRecord /\ call[c].cached <= Len(loads)
      /\ call[c].load <= Len(loads) /\ ~call[c].empty
      /\ HasEntry(c) => call[c].cached # 0
  BY DEF CacheInv, TypeOK, LoadInv, NoEmptyKey
<1>3. /\ r \in CallRecord /\ r.pc = pc /\ r.cached = call[c].cached
      /\ r.load = call[c].load /\ r.empty = call[c].empty
  BY <1>2 DEF CallRecord
<1> HIDE DEF r
<1>4. CallFits(r)
  BY <1>2, <1>3 DEF CallFits
<1> QED BY <1>1, <1>4 DEF r

LEMMA NoCallFits ==
    ASSUME CacheInv
    PROVE  CallFits(NoCall)
<1>1. Len(loads) \in Nat
  BY DEF CacheInv, TypeOK
<1> QED BY <1>1, NoCallType DEF CallFits, NoCall

LEMMA CallStep ==
    ASSUME CacheInv, NEW c \in Callers, Call(c)
    PROVE  CacheInv'
<1> DEFINE alone == pending = 0
           wants == IF secret = 0 THEN newest + 1 ELSE secret
           r == [NoCall EXCEPT !.pc = "look", !.now = clock, !.alone = alone, !.wants = wants]
<1>0. alone \in BOOLEAN /\ wants \in Nat /\ clock \in Nat
  BY DEF CacheInv, TypeOK
<1>1. r \in CallRecord /\ r.pc = "look" /\ r.cached = 0 /\ r.load = 0 /\ ~r.empty
  <2> HIDE DEF alone, wants
  <2> QED BY <1>0 DEF NoCall, CallRecord
<1>2. Len(loads) \in Nat /\ calls' \in Nat /\ faults' \in Nat
  BY DEF CacheInv, TypeOK, Call
<1>3. call' = [call EXCEPT ![c] = r] /\ UNCHANGED <<worldVars, cacheVars>>
  BY DEF Call
<1> HIDE DEF r
<1>4. CallFits(r)
  BY <1>1, <1>2 DEF CallFits
<1> QED BY <1>2, <1>3, <1>4, CallOnly

LEMMA LookupStep ==
    ASSUME CacheInv, NEW c \in Callers, Lookup(c)
    PROVE  CacheInv'
<1>0. calls' \in Nat /\ faults' \in Nat /\ UNCHANGED worldVars /\ AtStep(c, "look")
  BY DEF CacheInv, TypeOK, Lookup
<1>1. CASE Cached(call[c].now) /\ UNCHANGED cacheVars
  <2> DEFINE pc == IF call[c].now - loads[entry].checkedAt < VersionCheck THEN "copy" ELSE "check"
             r == [call[c] EXCEPT !.cached = entry, !.pc = pc]
  <2>1. entry \in 1..Len(loads) /\ entry # 0
    BY <1>1, EntryIsLive DEF Cached
  <2>2. call' = [call EXCEPT ![c] = r]
    <3>1. call' = [call EXCEPT ![c].cached = entry, ![c].pc = pc]
      BY <1>1 DEF Lookup
    <3> QED BY <3>1
  <2>3. /\ call[c] \in CallRecord /\ call[c].load <= Len(loads) /\ ~call[c].empty
        /\ entry \in Nat
    BY DEF CacheInv, TypeOK, NoEmptyKey
  <2>0. pc \in {"copy", "check"}
    OBVIOUS
  <2>4. /\ r \in CallRecord /\ r.pc \in {"copy", "check"} /\ r.cached = entry
        /\ r.load = call[c].load /\ r.empty = call[c].empty
    <3> HIDE DEF pc
    <3> QED BY <2>0, <2>1, <2>3 DEF CallRecord
  <2> HIDE DEF r
  <2>5. CallFits(r)
    BY <2>1, <2>3, <2>4 DEF CallFits
  <2> QED BY <1>0, <1>1, <2>2, <2>5, CallOnly
<1>2. CASE Evict /\ Go(c, "load")
  <2>1. ~AtStep(c, "use")
    BY <1>0 DEF AtStep
  <2> DEFINE r == [call[c] EXCEPT !.pc = "load"]
  <2>2. call' = [call EXCEPT ![c] = r] /\ CallFits(r)
    BY <1>2, <2>1, GoFits
  <2>3. TypeOK /\ r \in CallRecord
    BY <2>2 DEF CacheInv, CallFits
  <2> HIDE DEF r
  <2>4. call' \in [Callers -> CallRecord] /\ \A d \in Callers : call'[d] = call[d] \/ CallFits(call'[d])
    BY <2>2, <2>3, SetCall
  <2> QED BY <1>0, <1>2, <2>4, EvictStep
<1> QED BY <1>1, <1>2 DEF Lookup

LEMMA CheckStep ==
    ASSUME CacheInv, NEW c \in Callers, CheckVersion(c)
    PROVE  CacheInv'
<1>1. /\ calls' \in Nat /\ faults' \in Nat /\ UNCHANGED <<worldVars, cacheVars>>
      /\ HasEntry(c) /\ ~AtStep(c, "use")
      /\ \E pc \in {"gone", "mark", "rotated"} : Go(c, pc)
  BY DEF CacheInv, TypeOK, CheckVersion, HasEntry, AtStep
<1>2. PICK pc \in {"gone", "mark", "rotated"} : Go(c, pc)
  BY <1>1
<1>3. /\ call' = [call EXCEPT ![c] = [call[c] EXCEPT !.pc = pc]]
      /\ CallFits([call[c] EXCEPT !.pc = pc])
  BY <1>1, <1>2, GoFits
<1> QED BY <1>1, <1>3, CallOnly

LEMMA EvictGoneStep ==
    ASSUME CacheInv, NEW c \in Callers, EvictGone(c)
    PROVE  CacheInv'
<1>1. /\ calls' \in Nat /\ faults' \in Nat /\ UNCHANGED worldVars /\ Evict
      /\ TypeOK /\ call' = [call EXCEPT ![c] = NoCall]
  BY DEF CacheInv, TypeOK, EvictGone, Fail
<1>2. call' \in [Callers -> CallRecord] /\ \A d \in Callers : call'[d] = call[d] \/ CallFits(call'[d])
  BY <1>1, NoCallType, NoCallFits, SetCall
<1> QED BY <1>1, <1>2, EvictStep

LEMMA EvictRotatedStep ==
    ASSUME CacheInv, NEW c \in Callers, EvictRotated(c)
    PROVE  CacheInv'
<1> DEFINE r == [call[c] EXCEPT !.pc = "load"]
<1>1. /\ calls' \in Nat /\ faults' \in Nat /\ UNCHANGED worldVars
      /\ TypeOK /\ Go(c, "load") /\ ~AtStep(c, "use")
      /\ Evict \/ UNCHANGED cacheVars
  BY DEF CacheInv, TypeOK, EvictRotated, AtStep
<1>2. call' = [call EXCEPT ![c] = r] /\ CallFits(r)
  BY <1>1, GoFits
<1>3. r \in CallRecord
  BY <1>2 DEF CallFits
<1> HIDE DEF r
<1>4. call' \in [Callers -> CallRecord] /\ \A d \in Callers : call'[d] = call[d] \/ CallFits(call'[d])
  BY <1>1, <1>2, <1>3, SetCall
<1>5. CASE Evict
  BY <1>1, <1>4, <1>5, EvictStep
<1>6. CASE UNCHANGED cacheVars
  BY <1>1, <1>2, <1>6, CallOnly
<1> QED BY <1>1, <1>5, <1>6

LEMMA CopyStep ==
    ASSUME CacheInv, NEW c \in Callers, Copy(c)
    PROVE  CacheInv'
<1>1. /\ calls' \in Nat /\ faults' \in Nat /\ UNCHANGED <<worldVars, cacheVars>>
      /\ AtStep(c, "copy") /\ HasEntry(c) /\ ~AtStep(c, "use")
  BY DEF CacheInv, TypeOK, Copy, AtStep, HasEntry
<1>2. CASE StillCached(c) /\ Return(c, call[c].cached)
  <2>1. entry # 0 /\ call[c].cached = entry
    BY <1>1, <1>2 DEF StillCached, CacheInv, LoadInv
  <2>2. entry \in 1..Len(loads) /\ loads[entry].state # "zeroed"
    BY <2>1, EntryIsLive
  <2>3. call' = [call EXCEPT ![c] = Given(c, entry)] /\ CallFits(Given(c, entry))
    BY <1>2, <2>1, <2>2, ReturnFits
  <2> QED BY <1>1, <2>3, CallOnly
<1>3. CASE Go(c, "load")
  <2>1. /\ call' = [call EXCEPT ![c] = [call[c] EXCEPT !.pc = "load"]]
        /\ CallFits([call[c] EXCEPT !.pc = "load"])
    BY <1>1, <1>3, GoFits
  <2> QED BY <1>1, <2>1, CallOnly
<1> QED BY <1>2, <1>3 DEF Copy

LEMMA FinishStep ==
    ASSUME CacheInv, NEW c \in Callers,
           \/ Finish(c)
           \/ Fail(c) /\ UNCHANGED <<worldVars, cacheVars, calls>> /\ faults' \in Nat
    PROVE  CacheInv'
<1>1. /\ calls' \in Nat /\ faults' \in Nat /\ UNCHANGED <<worldVars, cacheVars>>
      /\ call' = [call EXCEPT ![c] = NoCall]
  BY DEF CacheInv, TypeOK, Finish, Fail
<1> QED BY <1>1, NoCallFits, CallOnly

LEMMA WaitStep ==
    ASSUME CacheInv, NEW c \in Callers, WaitEnds(c)
    PROVE  CacheInv'
<1> DEFINE l == call[c].load
<1>1. /\ calls' \in Nat /\ faults' \in Nat /\ UNCHANGED <<worldVars, cacheVars, calls>>
      /\ AtStep(c, "wait") /\ ~AtStep(c, "use")
  BY DEF CacheInv, TypeOK, WaitEnds, AtStep
<1>2. l \in 1..Len(loads)
  BY <1>1 DEF CacheInv, TypeOK, LoadInv, CallRecord
<1>3. CASE Fail(c)
  BY <1>1, <1>3, FinishStep
<1>4. CASE Go(c, "load")
  <2>1. /\ call' = [call EXCEPT ![c] = [call[c] EXCEPT !.pc = "load"]]
        /\ CallFits([call[c] EXCEPT !.pc = "load"])
    BY <1>1, <1>4, GoFits
  <2> QED BY <1>1, <2>1, CallOnly
<1>5. CASE loads[l].state # "zeroed" /\ Return(c, l)
  <2>1. call' = [call EXCEPT ![c] = Given(c, l)] /\ CallFits(Given(c, l))
    BY <1>2, <1>5, ReturnFits
  <2> QED BY <1>1, <2>1, CallOnly
<1> QED BY <1>3, <1>4, <1>5 DEF WaitEnds, ReloadsEmpty

(* What a step of caller c does to loads, seen field by field. *)
LEMMA MarkEffect ==
    ASSUME CacheInv, NEW c \in Callers, Mark(c)
    PROVE  /\ call[c].cached \in 1..Len(loads)
           /\ loads' \in Seq(LoadRecord) /\ Len(loads') = Len(loads)
           /\ \A k \in 1..Len(loads) :
                /\ loads'[k].version = loads[k].version
                /\ loads'[k].state = loads[k].state
                /\ loads'[k].checkedAt =
                     IF k = call[c].cached THEN call[c].now ELSE loads[k].checkedAt
<1> DEFINE l == call[c].cached
           r == [loads[l] EXCEPT !.checkedAt = call[c].now]
<1>1. l \in 1..Len(loads) /\ call[c].now \in Nat
  BY DEF CacheInv, TypeOK, LoadInv, CallRecord, Mark, AtStep, HasEntry
<1>2. loads \in Seq(LoadRecord) /\ loads[l] \in LoadRecord
  BY <1>1 DEF CacheInv, TypeOK
<1>3. loads' = [loads EXCEPT ![l] = r]
  BY DEF Mark
<1>4. /\ r \in LoadRecord /\ r.version = loads[l].version /\ r.state = loads[l].state
      /\ r.checkedAt = call[c].now
  BY <1>1, <1>2 DEF LoadRecord
<1> HIDE DEF l, r
<1> QED BY <1>1, <1>2, <1>3, <1>4, SetLoad DEF l

LEMMA FetchEffect ==
    ASSUME CacheInv, NEW c \in Callers, Fetch(c)
    PROVE  /\ call[c].load \in 1..Len(loads)
           /\ loads' \in Seq(LoadRecord) /\ Len(loads') = Len(loads)
           /\ \A k \in 1..Len(loads) :
                /\ loads'[k].version = IF k = call[c].load THEN secret ELSE loads[k].version
                /\ loads'[k].state = loads[k].state
                /\ loads'[k].checkedAt = loads[k].checkedAt
<1> DEFINE l == call[c].load
           r == [loads[l] EXCEPT !.version = secret]
<1>1. l \in 1..Len(loads) /\ secret \in Nat
  BY DEF CacheInv, TypeOK, LoadInv, CallRecord, Fetch, AtStep, Fetching
<1>2. loads \in Seq(LoadRecord) /\ loads[l] \in LoadRecord
  BY <1>1 DEF CacheInv, TypeOK
<1>3. loads' = [loads EXCEPT ![l] = r]
  BY DEF Fetch
<1>4. /\ r \in LoadRecord /\ r.version = secret /\ r.state = loads[l].state
      /\ r.checkedAt = loads[l].checkedAt
  BY <1>1, <1>2 DEF LoadRecord
<1> HIDE DEF l, r
<1> QED BY <1>1, <1>2, <1>3, <1>4, SetLoad DEF l

LEMMA FailEffect ==
    ASSUME CacheInv, NEW c \in Callers, Fetching(c), LoadFails(c)
    PROVE  /\ call[c].load \in 1..Len(loads)
           /\ loads' \in Seq(LoadRecord) /\ Len(loads') = Len(loads)
           /\ \A k \in 1..Len(loads) :
                /\ loads'[k].version = loads[k].version
                /\ loads'[k].state = IF k = call[c].load THEN "failed" ELSE loads[k].state
                /\ loads'[k].checkedAt = loads[k].checkedAt
<1> DEFINE l == call[c].load
           r == [loads[l] EXCEPT !.state = "failed"]
<1>1. l \in 1..Len(loads)
  BY DEF CacheInv, TypeOK, LoadInv, CallRecord
<1>2. loads \in Seq(LoadRecord) /\ loads[l] \in LoadRecord
  BY <1>1 DEF CacheInv, TypeOK
<1>3. loads' = [loads EXCEPT ![l] = r]
  BY DEF LoadFails
<1>4. /\ r \in LoadRecord /\ r.version = loads[l].version /\ r.state = "failed"
      /\ r.checkedAt = loads[l].checkedAt
  BY <1>1, <1>2 DEF LoadRecord
<1> HIDE DEF l, r
<1> QED BY <1>1, <1>2, <1>3, <1>4, SetLoad DEF l

LEMMA InstallEffect ==
    ASSUME CacheInv, NEW c \in Callers, Install(c)
    PROVE  /\ call[c].load \in 1..Len(loads) /\ call[c].load # entry
           /\ loads' \in Seq(LoadRecord) /\ Len(loads') = Len(loads)
           /\ \A k \in 1..Len(loads) :
                /\ loads'[k].version = loads[k].version
                /\ loads'[k].state = IF k = call[c].load THEN "live"
                                     ELSE IF k = entry THEN "zeroed" ELSE loads[k].state
                /\ loads'[k].checkedAt =
                     IF k = call[c].load THEN clock ELSE loads[k].checkedAt
<1> DEFINE l == call[c].load
           zs == Zeroed(loads, entry)
           r == [zs[l] EXCEPT !.state = "live", !.expires = clock + TTL, !.checkedAt = clock]
<1>1. /\ l \in 1..Len(loads) /\ clock \in Nat /\ clock + TTL \in Nat
      /\ loads[l].state = "running" /\ entry \in 0..Len(loads)
  BY TTLAssumption DEF CacheInv, TypeOK, LoadInv, CallRecord, Install, AtStep, Fetching
<1>2. l # entry
  BY <1>1, EntryIsLive
<1>3. loads \in Seq(LoadRecord)
  BY DEF CacheInv, TypeOK
<1>4. /\ zs \in Seq(LoadRecord) /\ Len(zs) = Len(loads)
      /\ \A k \in 1..Len(loads) :
           /\ zs[k].version = loads[k].version /\ zs[k].checkedAt = loads[k].checkedAt
           /\ zs[k].state = IF k = entry THEN "zeroed" ELSE loads[k].state
  BY <1>1, <1>3, ZeroedType
<1>5. loads' = [zs EXCEPT ![l] = r]
  BY DEF Install
<1> HIDE DEF zs
<1>6. zs[l] \in LoadRecord
  BY <1>1, <1>4, LoadFields
<1>7. /\ r \in LoadRecord /\ r.version = zs[l].version /\ r.state = "live"
      /\ r.checkedAt = clock
  BY <1>1, <1>6 DEF LoadRecord
<1> HIDE DEF l, r
<1> QED BY <1>1, <1>2, <1>4, <1>5, <1>7, SetLoad DEF l

LEMMA AppendEffect ==
    ASSUME CacheInv, loads' = Append(loads, NewLoad)
    PROVE  /\ loads' \in Seq(LoadRecord) /\ Len(loads') = Len(loads) + 1
           /\ Len(loads) \in Nat
           /\ \A k \in 1..Len(loads) : loads'[k] = loads[k]
           /\ loads'[NextLoad].state = "running" /\ loads'[NextLoad].version = 0
           /\ loads'[NextLoad].checkedAt = 0 /\ NextLoad = Len(loads) + 1
<1>1. loads \in Seq(LoadRecord) /\ NewLoad \in LoadRecord /\ Len(loads) \in Nat
  BY NewLoadType DEF CacheInv, TypeOK
<1>2. NewLoad.state = "running" /\ NewLoad.version = 0 /\ NewLoad.checkedAt = 0
  BY DEF NewLoad
<1>3. loads'[Len(loads) + 1] = NewLoad
  BY <1>1
<1> QED BY <1>1, <1>2, <1>3 DEF NextLoad

(* The record a caller has after Go. *)
LEMMA GoEffect ==
    ASSUME TypeOK, NEW c \in Callers, NEW pc, Go(c, pc),
           pc \in {"load", "copy", "install", "mark", "rotated", "gone"}
    PROVE  /\ call' \in [Callers -> CallRecord]
           /\ call'[c] = [call[c] EXCEPT !.pc = pc]
           /\ call'[c].pc = pc
           /\ call'[c].now = call[c].now /\ call'[c].cached = call[c].cached
           /\ call'[c].load = call[c].load /\ call'[c].got = call[c].got
           /\ call'[c].empty = call[c].empty /\ call'[c].wants = call[c].wants
           /\ call'[c].alone = call[c].alone
           /\ \A d \in Callers : d # c => call'[d] = call[d]
<1> DEFINE r == [call[c] EXCEPT !.pc = pc]
<1>1. call[c] \in CallRecord
  BY DEF TypeOK
<1>2. /\ r \in CallRecord /\ r.pc = pc /\ r.now = call[c].now /\ r.cached = call[c].cached
      /\ r.load = call[c].load /\ r.got = call[c].got /\ r.empty = call[c].empty
      /\ r.wants = call[c].wants /\ r.alone = call[c].alone
  BY <1>1 DEF CallRecord
<1>3. call' = [call EXCEPT ![c] = r]
  BY DEF Go
<1> HIDE DEF r
<1> QED BY <1>2, <1>3, SetCall DEF r

(* The record a caller has after Return. *)
LEMMA ReturnEffect ==
    ASSUME TypeOK, NEW c \in Callers, NEW l \in 1..Len(loads), Return(c, l)
    PROVE  /\ call'[c].pc = "use" /\ call'[c].now = call[c].now
           /\ call'[c].wants = call[c].wants /\ call'[c].alone = call[c].alone
           /\ call'[c].got = loads[l].version
           /\ \A d \in Callers : d # c => call'[d] = call[d]
<1>1. call[c] \in CallRecord /\ loads[l].version \in Nat
  BY LoadFields DEF TypeOK
<1>2. call' = [call EXCEPT ![c] = Given(c, l)]
  BY DEF Return, Given
<1>3. /\ Given(c, l) \in CallRecord /\ Given(c, l).pc = "use"
      /\ Given(c, l).now = call[c].now /\ Given(c, l).wants = call[c].wants
      /\ Given(c, l).alone = call[c].alone /\ Given(c, l).got = loads[l].version
  BY <1>1 DEF Given, CallRecord
<1> QED BY <1>2, <1>3, SetCall

LEMMA MarkStep ==
    ASSUME CacheInv, NEW c \in Callers, Mark(c)
    PROVE  CacheInv'
<1>0. /\ TypeOK /\ Go(c, "copy") /\ AtStep(c, "mark")
      /\ UNCHANGED <<secret, newest, clock, entry, pending, calls, faults>>
  BY DEF CacheInv, Mark, worldVars
<1>1. /\ call[c].cached \in 1..Len(loads)
      /\ loads' \in Seq(LoadRecord) /\ Len(loads') = Len(loads)
      /\ \A k \in 1..Len(loads) :
           loads'[k].version = loads[k].version /\ loads'[k].state = loads[k].state
  BY MarkEffect
<1>2. /\ call' \in [Callers -> CallRecord] /\ call'[c].pc = "copy"
      /\ call'[c].cached = call[c].cached /\ call'[c].load = call[c].load
      /\ call'[c].empty = call[c].empty
      /\ \A d \in Callers : d # c => call'[d] = call[d]
  BY <1>0, GoEffect
<1>3. TypeOK'
  BY <1>0, <1>1, <1>2 DEF TypeOK
<1>4. LoadInv'
  <2>1. \A l \in 1..Len(loads)' : loads'[l].state = "running" <=> l = pending'
    BY <1>0, <1>1 DEF CacheInv, LoadInv
  <2>2. ASSUME NEW d \in Callers
        PROVE  /\ HasEntry(d)' => call'[d].cached # 0
               /\ Fetching(d)' \/ AtStep(d, "wait")' => call'[d].load # 0
               /\ Fetching(d)' => call'[d].load = pending'
               /\ AtStep(d, "install")' => loads'[call'[d].load].version # 0
    <3>1. CASE d = c
      BY <3>1, <1>1, <1>2 DEF Fetching, HasEntry, AtStep
    <3>2. CASE d # c
      <4>1. call'[d] = call[d] /\ call[d].load \in Nat /\ call[d].load <= Len(loads)
        BY <3>2, <1>0, <1>2 DEF TypeOK, CallRecord
      <4> QED BY <4>1, <1>0, <1>1 DEF CacheInv, LoadInv, TypeOK, Fetching, HasEntry, AtStep
    <3> QED BY <3>1, <3>2
  <2> QED BY <2>1, <2>2 DEF LoadInv
<1>5. OneFetch'
  BY <1>2 DEF CacheInv, OneFetch
<1>6. OnlyEntryIsLive'
  BY <1>0, <1>1 DEF CacheInv, OnlyEntryIsLive, TypeOK
<1>7. NoEmptyKey'
  BY <1>2 DEF CacheInv, NoEmptyKey
<1> QED BY <1>3, <1>4, <1>5, <1>6, <1>7 DEF CacheInv

LEMMA FetchStep ==
    ASSUME CacheInv, NEW c \in Callers, Fetch(c)
    PROVE  CacheInv'
<1>0. /\ TypeOK /\ Go(c, "install") /\ AtStep(c, "fetch") /\ secret # 0
      /\ UNCHANGED <<secret, newest, clock, entry, pending, calls, faults>>
  BY DEF CacheInv, Fetch, worldVars
<1>1. /\ call[c].load \in 1..Len(loads)
      /\ loads' \in Seq(LoadRecord) /\ Len(loads') = Len(loads)
      /\ \A k \in 1..Len(loads) :
           /\ loads'[k].version = IF k = call[c].load THEN secret ELSE loads[k].version
           /\ loads'[k].state = loads[k].state
  BY FetchEffect
<1>2. /\ call' \in [Callers -> CallRecord] /\ call'[c].pc = "install"
      /\ call'[c].cached = call[c].cached /\ call'[c].load = call[c].load
      /\ call'[c].empty = call[c].empty
      /\ \A d \in Callers : d # c => call'[d] = call[d]
  BY <1>0, GoEffect
<1>3. TypeOK'
  BY <1>0, <1>1, <1>2 DEF TypeOK
<1>a. call[c].load = pending /\ loads[pending].state = "running"
  BY <1>0, <1>1 DEF CacheInv, LoadInv, Fetching, AtStep
<1>b. \A d \in Callers : d # c => ~Fetching(d)
  BY <1>0 DEF CacheInv, OneFetch, Fetching, AtStep
<1>4. LoadInv'
  <2>1. \A l \in 1..Len(loads)' : loads'[l].state = "running" <=> l = pending'
    BY <1>0, <1>1 DEF CacheInv, LoadInv
  <2>2. ASSUME NEW d \in Callers
        PROVE  /\ HasEntry(d)' => call'[d].cached # 0
               /\ Fetching(d)' \/ AtStep(d, "wait")' => call'[d].load # 0
               /\ Fetching(d)' => call'[d].load = pending'
               /\ AtStep(d, "install")' => loads'[call'[d].load].version # 0
    <3>1. CASE d = c
      BY <3>1, <1>0, <1>1, <1>2, <1>a DEF Fetching, HasEntry, AtStep
    <3>2. CASE d # c
      BY <3>2, <1>2, <1>b DEF CacheInv, LoadInv, Fetching, HasEntry, AtStep
    <3> QED BY <3>1, <3>2
  <2> QED BY <2>1, <2>2 DEF LoadInv
<1>5. OneFetch'
  BY <1>2, <1>b DEF OneFetch, Fetching
<1>6. OnlyEntryIsLive'
  BY <1>0, <1>1 DEF CacheInv, OnlyEntryIsLive, TypeOK
<1>7. NoEmptyKey'
  BY <1>2 DEF CacheInv, NoEmptyKey
<1> QED BY <1>3, <1>4, <1>5, <1>6, <1>7 DEF CacheInv

LEMMA InstallStep ==
    ASSUME CacheInv, NEW c \in Callers, Install(c)
    PROVE  CacheInv'
<1> DEFINE l == call[c].load
<1>0. /\ TypeOK /\ Return(c, l) /\ Fetching(c) /\ AtStep(c, "install")
      /\ pending' = 0 /\ entry' = l
      /\ UNCHANGED <<secret, newest, clock, calls, faults>>
  BY DEF CacheInv, Install, worldVars, Fetching, AtStep
<1>1. /\ l \in 1..Len(loads) /\ l # entry
      /\ loads' \in Seq(LoadRecord) /\ Len(loads') = Len(loads)
      /\ \A k \in 1..Len(loads) :
           /\ loads'[k].version = loads[k].version
           /\ loads'[k].state = IF k = l THEN "live"
                                ELSE IF k = entry THEN "zeroed" ELSE loads[k].state
  BY InstallEffect
<1>a. l = pending /\ loads[l].state = "running"
  BY <1>0, <1>1 DEF CacheInv, LoadInv
<1>b. \A d \in Callers : d # c => ~Fetching(d)
  BY <1>0 DEF CacheInv, OneFetch, Fetching
<1>2. call' = [call EXCEPT ![c] = Given(c, l)] /\ CallFits(Given(c, l))
  BY <1>0, <1>1, <1>a, ReturnFits
<1>3. /\ call' \in [Callers -> CallRecord] /\ CallFits(call'[c])
      /\ \A d \in Callers : d # c => call'[d] = call[d]
  <2>1. Given(c, l) \in CallRecord
    BY <1>2 DEF CallFits
  <2> QED BY <1>0, <1>2, <2>1, SetCall
<1>4. TypeOK'
  <2>1. Len(loads) \in Nat /\ entry' \in 0..Len(loads') /\ pending' \in 0..Len(loads')
    BY <1>0, <1>1 DEF TypeOK
  <2>2. \A d \in Callers : call'[d].cached <= Len(loads') /\ call'[d].load <= Len(loads')
    BY <1>0, <1>1, <1>3 DEF TypeOK, CallFits
  <2> HIDE DEF l
  <2> QED BY <1>0, <1>1, <1>3, <2>1, <2>2 DEF TypeOK
<1>5. LoadInv'
  <2>1. \A k \in 1..Len(loads)' : loads'[k].state = "running" <=> k = pending'
    BY <1>0, <1>1, <1>a DEF CacheInv, LoadInv
  <2>2. ASSUME NEW d \in Callers
        PROVE  /\ HasEntry(d)' => call'[d].cached # 0
               /\ Fetching(d)' \/ AtStep(d, "wait")' => call'[d].load # 0
               /\ Fetching(d)' => call'[d].load = pending'
               /\ AtStep(d, "install")' => loads'[call'[d].load].version # 0
    <3>1. CASE d = c
      BY <3>1, <1>3 DEF CallFits, Fetching, HasEntry, AtStep
    <3>2. CASE d # c
      BY <3>2, <1>3, <1>b DEF CacheInv, LoadInv, Fetching, HasEntry, AtStep
    <3> QED BY <3>1, <3>2
  <2> QED BY <2>1, <2>2 DEF LoadInv
<1>6. OneFetch'
  BY <1>3, <1>b DEF OneFetch, Fetching, CallFits
<1>7. OnlyEntryIsLive'
  BY <1>0, <1>1 DEF CacheInv, OnlyEntryIsLive, TypeOK
<1>8. NoEmptyKey'
  BY <1>3 DEF CacheInv, NoEmptyKey, CallFits
<1> QED BY <1>4, <1>5, <1>6, <1>7, <1>8 DEF CacheInv

LEMMA LoadFailsStep ==
    ASSUME CacheInv, NEW c \in Callers, Fetching(c), LoadFails(c), faults' \in Nat
    PROVE  CacheInv'
<1>0. /\ TypeOK /\ call' = [call EXCEPT ![c] = NoCall] /\ pending' = 0
      /\ UNCHANGED <<secret, newest, clock, entry, calls>>
  BY DEF CacheInv, LoadFails, Fail, worldVars
<1>1. /\ call[c].load \in 1..Len(loads)
      /\ loads' \in Seq(LoadRecord) /\ Len(loads') = Len(loads)
      /\ \A k \in 1..Len(loads) :
           loads'[k].state = IF k = call[c].load THEN "failed" ELSE loads[k].state
  BY FailEffect
<1>a. call[c].load = pending /\ loads[pending].state = "running"
  BY <1>0, <1>1 DEF CacheInv, LoadInv
<1>b. \A d \in Callers : d # c => ~Fetching(d)
  BY <1>0 DEF CacheInv, OneFetch, Fetching
<1>2. /\ call' \in [Callers -> CallRecord] /\ call'[c] = NoCall
      /\ \A d \in Callers : d # c => call'[d] = call[d]
  BY <1>0, NoCallType, SetCall
<1>3. CallFits(call'[c])
  BY <1>2, NoCallFits
<1>4. TypeOK'
  BY <1>0, <1>1, <1>2, <1>3 DEF TypeOK, CallFits
<1>5. LoadInv'
  <2>1. \A k \in 1..Len(loads)' : loads'[k].state = "running" <=> k = pending'
    BY <1>0, <1>1, <1>a DEF CacheInv, LoadInv
  <2>2. ASSUME NEW d \in Callers
        PROVE  /\ HasEntry(d)' => call'[d].cached # 0
               /\ Fetching(d)' \/ AtStep(d, "wait")' => call'[d].load # 0
               /\ Fetching(d)' => call'[d].load = pending'
               /\ AtStep(d, "install")' => loads'[call'[d].load].version # 0
    <3>1. CASE d = c
      BY <3>1, <1>3 DEF CallFits, Fetching, HasEntry, AtStep
    <3>2. CASE d # c
      BY <3>2, <1>2, <1>b DEF CacheInv, LoadInv, Fetching, HasEntry, AtStep
    <3> QED BY <3>1, <3>2
  <2> QED BY <2>1, <2>2 DEF LoadInv
<1>6. OneFetch'
  BY <1>2, <1>3, <1>b DEF OneFetch, Fetching, CallFits
<1>7. OnlyEntryIsLive'
  BY <1>0, <1>1, <1>a, EntryIsLive DEF CacheInv, OnlyEntryIsLive, TypeOK
<1>8. NoEmptyKey'
  BY <1>2, <1>3 DEF CacheInv, NoEmptyKey, CallFits
<1> QED BY <1>4, <1>5, <1>6, <1>7, <1>8 DEF CacheInv

LEMMA LoadStep ==
    ASSUME CacheInv, NEW c \in Callers, Load(c)
    PROVE  CacheInv'
<1>0. /\ TypeOK /\ AtStep(c, "load") /\ ~AtStep(c, "use")
      /\ UNCHANGED worldVars /\ UNCHANGED <<secret, newest, clock, calls, faults>>
      /\ calls' \in Nat /\ faults' \in Nat
      /\ call[c] \in CallRecord /\ call[c].cached <= Len(loads) /\ call[c].load <= Len(loads)
      /\ ~call[c].empty /\ pending \in 0..Len(loads) /\ Len(loads) \in Nat
  BY DEF CacheInv, TypeOK, Load, worldVars, AtStep, NoEmptyKey
<1>1. CASE Cached(clock) /\ Return(c, entry) /\ UNCHANGED cacheVars
  <2>1. entry \in 1..Len(loads) /\ loads[entry].state # "zeroed"
    BY <1>1, EntryIsLive DEF Cached
  <2>2. call' = [call EXCEPT ![c] = Given(c, entry)] /\ CallFits(Given(c, entry))
    BY <1>1, <2>1, ReturnFits
  <2> QED BY <1>0, <1>1, <2>2, CallOnly
<1>2. CASE /\ JoinsLoad /\ UNCHANGED cacheVars
           /\ call' = [call EXCEPT ![c].pc = "wait", ![c].load = pending]
  <2> DEFINE r == [call[c] EXCEPT !.pc = "wait", !.load = pending]
  <2>1. call' = [call EXCEPT ![c] = r]
    BY <1>2
  <2>2. /\ r \in CallRecord /\ r.pc = "wait" /\ r.load = pending
        /\ r.cached = call[c].cached /\ r.empty = call[c].empty
    <3>1. call[c] \in CallRecord /\ pending \in Nat
      BY <1>0
    <3> QED BY <3>1 DEF CallRecord
  <2> HIDE DEF r
  <2>3. CallFits(r)
    BY <1>0, <1>2, <2>2 DEF CallFits, JoinsLoad
  <2> QED BY <1>0, <1>2, <2>1, <2>3, CallOnly
<1>3. CASE /\ ~JoinsLoad /\ loads' = Append(loads, NewLoad) /\ pending' = NextLoad
           /\ call' = [call EXCEPT ![c].pc = "fetch", ![c].load = NextLoad]
           /\ UNCHANGED entry
  <2> DEFINE r == [call[c] EXCEPT !.pc = "fetch", !.load = NextLoad]
  <2>1. /\ loads' \in Seq(LoadRecord) /\ Len(loads') = Len(loads) + 1
        /\ \A k \in 1..Len(loads) : loads'[k] = loads[k]
        /\ loads'[NextLoad].state = "running" /\ NextLoad = Len(loads) + 1
    BY <1>3, AppendEffect
  <2>2. call' = [call EXCEPT ![c] = r]
    BY <1>3
  <2>3. /\ r \in CallRecord /\ r.pc = "fetch" /\ r.load = NextLoad
        /\ r.cached = call[c].cached /\ r.empty = call[c].empty
    <3>1. call[c] \in CallRecord /\ NextLoad \in Nat
      BY <1>0, <2>1
    <3> QED BY <3>1 DEF CallRecord
  <2> HIDE DEF r
  <2>4. /\ call' \in [Callers -> CallRecord] /\ call'[c] = r
        /\ \A d \in Callers : d # c => call'[d] = call[d]
    BY <1>0, <2>2, <2>3, SetCall
  <2>5. \A d \in Callers : ~Fetching(d)
    <3> SUFFICES ASSUME NEW d \in Callers, Fetching(d) PROVE FALSE
      OBVIOUS
    <3> QED BY <1>3 DEF CacheInv, LoadInv, JoinsLoad
  <2>6. TypeOK'
    <3>1. entry' \in 0..Len(loads') /\ pending' \in 0..Len(loads')
      BY <1>0, <1>3, <2>1 DEF TypeOK
    <3>2. \A d \in Callers : call'[d].cached <= Len(loads') /\ call'[d].load <= Len(loads')
      <4> TAKE d \in Callers
      <4>1. /\ call[d].cached \in Nat /\ call[d].load \in Nat
            /\ call[d].cached <= Len(loads) /\ call[d].load <= Len(loads)
        BY <1>0 DEF TypeOK, CallRecord
      <4> QED BY <1>0, <2>1, <2>3, <2>4, <4>1
    <3> QED BY <1>0, <2>1, <2>4, <3>1, <3>2 DEF TypeOK
  <2>7. LoadInv'
    <3>1. \A k \in 1..Len(loads)' : loads'[k].state = "running" <=> k = pending'
      BY <1>0, <1>3, <2>1 DEF CacheInv, LoadInv, JoinsLoad
    <3>2. ASSUME NEW d \in Callers
          PROVE  /\ HasEntry(d)' => call'[d].cached # 0
                 /\ Fetching(d)' \/ AtStep(d, "wait")' => call'[d].load # 0
                 /\ Fetching(d)' => call'[d].load = pending'
                 /\ AtStep(d, "install")' => loads'[call'[d].load].version # 0
      <4>1. CASE d = c
        BY <4>1, <1>0, <1>3, <2>1, <2>3, <2>4 DEF Fetching, HasEntry, AtStep
      <4>2. CASE d # c
        BY <4>2, <2>4, <2>5 DEF CacheInv, LoadInv, Fetching, HasEntry, AtStep
      <4> QED BY <4>1, <4>2
    <3> QED BY <3>1, <3>2 DEF LoadInv
  <2>8. OneFetch'
    BY <2>4, <2>5 DEF OneFetch, Fetching
  <2>9. OnlyEntryIsLive'
    BY <1>0, <1>3, <2>1 DEF CacheInv, OnlyEntryIsLive, TypeOK
  <2>10. NoEmptyKey'
    BY <1>0, <2>3, <2>4 DEF CacheInv, NoEmptyKey
  <2> QED BY <2>6, <2>7, <2>8, <2>9, <2>10 DEF CacheInv
<1> QED BY <1>1, <1>2, <1>3 DEF Load

(* Steps that no caller takes. *)
LEMMA WorldStep ==
    ASSUME CacheInv, Invalidate \/ Sweep \/ Rotate \/ Remove \/ Tick
    PROVE  CacheInv'
<1>0. TypeOK /\ call \in [Callers -> CallRecord]
  BY DEF CacheInv, TypeOK
<1>1. CASE Invalidate \/ Sweep
  <2>1. Evict /\ call' = call /\ UNCHANGED worldVars /\ calls' \in Nat /\ faults' \in Nat
    BY <1>0, <1>1 DEF Invalidate, Sweep, Fault, TypeOK
  <2> QED BY <1>0, <2>1, EvictStep
<1>2. CASE Rotate \/ Remove \/ Tick
  <2>1. /\ UNCHANGED <<loads, entry, pending, call, calls, faults>>
        /\ secret' \in Nat /\ newest' \in Nat /\ clock' \in Nat
    BY <1>0, <1>2 DEF Rotate, Remove, Tick, TypeOK, cacheVars
  <2>2. TypeOK'
    BY <1>0, <2>1 DEF TypeOK
  <2> QED BY <2>1, <2>2 DEF CacheInv, LoadInv, OneFetch, OnlyEntryIsLive, NoEmptyKey,
                          Fetching, HasEntry, AtStep
<1> QED BY <1>1, <1>2

LEMMA CacheInit == Init => CacheInv
<1> SUFFICES ASSUME Init PROVE CacheInv
  OBVIOUS
<1>1. loads = << >> /\ Len(loads) = 0 /\ loads \in Seq(LoadRecord)
  BY DEF Init
<1>2. \A c \in Callers : call[c] = NoCall
  BY DEF Init
<1>3. /\ NoCall.pc = "idle" /\ NoCall.cached = 0 /\ NoCall.load = 0 /\ ~NoCall.empty
  BY DEF NoCall
<1>4. TypeOK
  BY <1>1, <1>2, <1>3, NoCallType DEF Init, TypeOK
<1>5. LoadInv
  BY <1>1, <1>2, <1>3 DEF LoadInv, Fetching, HasEntry, AtStep
<1>6. OneFetch /\ OnlyEntryIsLive /\ NoEmptyKey
  BY <1>1, <1>2, <1>3 DEF OneFetch, OnlyEntryIsLive, NoEmptyKey
<1> QED BY <1>4, <1>5, <1>6 DEF CacheInv

LEMMA CacheNext == CacheInv /\ [Next]_vars => CacheInv'
<1> SUFFICES ASSUME CacheInv, [Next]_vars PROVE CacheInv'
  OBVIOUS
<1>1. CASE UNCHANGED vars
  BY <1>1 DEF vars, CacheInv, TypeOK, LoadInv, OneFetch, OnlyEntryIsLive, NoEmptyKey,
              Fetching, HasEntry, AtStep
<1>2. ASSUME NEW c \in Callers, Call(c) \/ Finish(c) PROVE CacheInv'
  BY <1>2, CallStep, FinishStep
<1>3. ASSUME NEW c \in Callers, Resolve(c) PROVE CacheInv'
  <2>1. CASE Lookup(c)
    BY <2>1, LookupStep
  <2>2. CASE CheckVersion(c) \/ EvictGone(c) \/ Mark(c)
    BY <2>2, CheckStep, EvictGoneStep, MarkStep
  <2>3. CASE Copy(c) \/ EvictRotated(c)
    BY <2>3, CopyStep, EvictRotatedStep
  <2>4. CASE Load(c) \/ Fetch(c) \/ Install(c)
    BY <2>4, LoadStep, FetchStep, InstallStep
  <2>5. CASE NoSecret(c)
    <3>1. Fetching(c) /\ LoadFails(c) /\ faults' \in Nat
      BY <2>5 DEF NoSecret, Fetching, AtStep, CacheInv, TypeOK
    <3> QED BY <3>1, LoadFailsStep
  <2>6. CASE WaitEnds(c)
    BY <2>6, WaitStep
  <2> QED BY <1>3, <2>1, <2>2, <2>3, <2>4, <2>5, <2>6 DEF Resolve
<1>4. ASSUME NEW c \in Callers, CallFails(c) PROVE CacheInv'
  <2>1. faults' \in Nat
    BY <1>4 DEF CallFails, Fault, CacheInv, TypeOK
  <2>2. CASE Fail(c) /\ UNCHANGED <<worldVars, cacheVars, calls>>
    BY <2>1, <2>2, FinishStep
  <2>3. CASE Fetching(c) /\ LoadFails(c)
    BY <2>1, <2>3, LoadFailsStep
  <2> QED BY <1>4, <2>2, <2>3 DEF CallFails, Fetching
<1> QED BY <1>1, <1>2, <1>3, <1>4, WorldStep DEF Next

(* In every reachable state the cache is consistent: one load at a time is *)
(* running and belongs to the caller that fetches, the entry is the only   *)
(* live key, and no caller holds an empty copy.                            *)
THEOREM CacheCorrect == Spec => []CacheInv
BY CacheInit, CacheNext, PTL DEF Spec

(* Every variable of the resolver keeps its type. *)
THEOREM TypeCorrect == Spec => []TypeOK
<1>1. CacheInv => TypeOK
  BY DEF CacheInv
<1> QED BY <1>1, CacheCorrect, PTL

(* ResolveKey never returns a zeroed key, whatever is evicted meanwhile. *)
THEOREM KeysUsable == Spec => []NoEmptyKey
<1>1. CacheInv => NoEmptyKey
  BY DEF CacheInv
<1> QED BY <1>1, CacheCorrect, PTL

(* A key that leaves the cache is zeroed: no evicted, replaced or rotated  *)
(* key stays in memory.                                                    *)
THEOREM EvictedIsZeroed == Spec => []OnlyEntryIsLive
<1>1. CacheInv => OnlyEntryIsLive
  BY DEF CacheInv
<1> QED BY <1>1, CacheCorrect, PTL

(* Concurrent misses make one call of the secret store. *)
THEOREM SingleFlight == Spec => []OneFetch
<1>1. CacheInv => OneFetch
  BY DEF CacheInv
<1> QED BY <1>1, CacheCorrect, PTL

-----------------------------------------------------------------------------
(* Freshness.                                                              *)

(* What AloneOK and TimeInv look at lies in the right ranges. *)
LEMMA Ranges ==
    ASSUME CacheInv
    PROVE  /\ Len(loads) \in Nat /\ secret \in Nat /\ newest \in Nat /\ clock \in Nat
           /\ entry \in 0..Len(loads) /\ pending \in 0..Len(loads)
           /\ \A l \in 1..Len(loads) :
                loads[l].version \in Nat /\ loads[l].checkedAt \in Nat
           /\ \A c \in Callers :
                /\ call[c].wants \in Nat /\ call[c].now \in Nat /\ call[c].got \in Nat
                /\ HasEntry(c) => call[c].cached \in 1..Len(loads)
                /\ Fetching(c) \/ AtStep(c, "wait") => call[c].load \in 1..Len(loads)
<1>1. loads \in Seq(LoadRecord) /\ Len(loads) \in Nat
  BY DEF CacheInv, TypeOK
<1>2. \A l \in 1..Len(loads) : loads[l].version \in Nat /\ loads[l].checkedAt \in Nat
  BY <1>1, LoadFields
<1>3. ASSUME NEW c \in Callers
      PROVE  /\ call[c].wants \in Nat /\ call[c].now \in Nat /\ call[c].got \in Nat
             /\ call[c].cached \in Nat /\ call[c].load \in Nat
             /\ call[c].cached <= Len(loads) /\ call[c].load <= Len(loads)
  BY DEF CacheInv, TypeOK, CallRecord
<1>4. ASSUME NEW c \in Callers
      PROVE  /\ HasEntry(c) => call[c].cached \in 1..Len(loads)
             /\ Fetching(c) \/ AtStep(c, "wait") => call[c].load \in 1..Len(loads)
  <2>1. /\ HasEntry(c) => call[c].cached # 0
        /\ Fetching(c) \/ AtStep(c, "wait") => call[c].load # 0
    BY DEF CacheInv, LoadInv
  <2> QED BY <1>1, <1>3, <2>1
<1> QED BY <1>1, <1>2, <1>3, <1>4 DEF CacheInv, TypeOK

(* Steps that leave time and the secret alone. *)
LEMMA TimeFrame ==
    ASSUME CacheInv, TimeInv, UNCHANGED <<secret, newest, clock>>,
           \A l \in 1..Len(loads') : loads'[l].checkedAt <= clock,
           \A d \in Callers :
              \/ call'[d].now = call[d].now /\ call'[d].wants = call[d].wants
              \/ call'[d] = NoCall
    PROVE  TimeInv'
<1>1. NoCall.now = 0 /\ NoCall.wants = 0
  BY DEF NoCall
<1>2. clock \in Nat /\ secret \in Nat /\ newest \in Nat
  BY Ranges
<1>3. ASSUME NEW d \in Callers
      PROVE  /\ call'[d].now <= clock /\ call'[d].wants <= newest + 1
             /\ secret = 0 \/ secret >= call'[d].wants
  BY <1>1, <1>2 DEF TimeInv
<1> QED BY <1>3 DEF TimeInv

(* A call whose own record does not change stays fresh if the cache only   *)
(* gains what is fresh for it.                                             *)
LEMMA Passive ==
    ASSUME CacheInv, NEW c \in Callers, AloneOK(c), call'[c] = call[c],
           \A l \in 1..Len(loads) : Fresh(c, l) => Fresh(c, l)',
           pending' # 0 => loads'[pending'].version = 0 \/ Fresh(c, pending)',
           entry' \in {0, entry} \/ Fresh(c, entry)',
           AtStep(c, "look") =>
              /\ entry' # 0 /\ loads'[entry'].checkedAt > call[c].now => Fresh(c, entry)'
              /\ \A d \in Callers : AtStep(d, "mark")' /\ call'[d].now > call[c].now
                                      => Fresh(c, call[d].cached)',
           AtStep(c, "wait") /\ loads'[call[c].load].state \in {"live", "zeroed"}
              => Fresh(c, call[c].load)'
    PROVE  AloneOK(c)'
<1>0. /\ entry \in 0..Len(loads) /\ Len(loads) \in Nat
      /\ HasEntry(c) => call[c].cached \in 1..Len(loads)
  BY Ranges
<1>1. entry' = entry /\ entry # 0 /\ Fresh(c, entry) => Fresh(c, entry)'
  BY <1>0 DEF Fresh
<1>2. HasEntry(c)' => entry' \in {0, call'[c].cached} \/ Fresh(c, entry)'
  BY <1>1 DEF AloneOK, HasEntry
<1>3. AtStep(c, "mark")' \/ AtStep(c, "copy")' => Fresh(c, call[c].cached)'
  BY <1>0 DEF AloneOK, HasEntry, AtStep, Fresh
<1>4. IsLoading(c)' => entry' = 0 \/ Fresh(c, entry)'
  BY <1>1 DEF AloneOK, IsLoading
<1>5. AtStep(c, "use")' => call'[c].got >= call'[c].wants
  BY DEF AloneOK, AtStep
<1> QED BY <1>2, <1>3, <1>4, <1>5 DEF AloneOK, AtStep, Fresh

(* A caller that has just learnt that its entry is current makes it fresh  *)
(* for every call in progress.                                             *)
LEMMA CurrentIsFresh ==
    ASSUME CacheInv, TimeInv, NEW c \in Callers, secret # 0
    PROVE  secret >= call[c].wants
BY DEF TimeInv

(* Steps of caller c that leave the cache alone or evict. *)
LEMMA OthersKeep ==
    ASSUME IInv, NEW c \in Callers, UNCHANGED cacheVars \/ Evict,
           \A d \in Callers : d # c => call'[d] = call[d],
           AtStep(c, "mark")' => secret # 0 /\ loads[call'[c].cached].version = secret
                                 /\ call'[c].cached \in 1..Len(loads),
           call'[c].alone => AloneOK(c)'
    PROVE  AloneInv'
<1>0. CacheInv /\ TimeInv /\ TypeOK
  BY DEF IInv, CacheInv
<1>1. /\ entry' \in {0, entry} /\ pending' = pending
      /\ \A k \in 1..Len(loads) :
           /\ loads'[k].version = loads[k].version
           /\ loads'[k].checkedAt = loads[k].checkedAt
           /\ loads'[k].state = loads[k].state \/ k = entry
  BY <1>0, EvictEffect DEF cacheVars
<1>2. ASSUME NEW d \in Callers, d # c, call'[d].alone PROVE AloneOK(d)'
  <2>0. AloneOK(d) /\ call'[d] = call[d]
    BY <1>2 DEF IInv, AloneInv
  <2>1. \A l \in 1..Len(loads) : Fresh(d, l) => Fresh(d, l)'
    BY <1>1, <2>0 DEF Fresh
  <2>2. pending' # 0 => loads'[pending'].version = 0 \/ Fresh(d, pending)'
    BY <1>0, <1>1, <2>0, Ranges DEF AloneOK, Fresh
  <2>3. AtStep(d, "look") /\ entry' # 0 /\ loads'[entry'].checkedAt > call[d].now
          => Fresh(d, entry)'
    BY <1>0, <1>1, <2>0, Ranges DEF AloneOK, Fresh
  <2>4. ASSUME NEW e \in Callers, AtStep(d, "look"), AtStep(e, "mark")',
               call'[e].now > call[d].now
        PROVE  Fresh(d, call[e].cached)'
    <3>1. CASE e = c
      <4>1. secret >= call[d].wants
        BY <1>0, <1>2, <3>1, <2>4, CurrentIsFresh
      <4> QED BY <1>1, <2>0, <2>4, <3>1, <4>1 DEF Fresh
    <3>2. CASE e # c
      <4>1. call'[e] = call[e] /\ AtStep(e, "mark") /\ call[e].cached \in 1..Len(loads)
        BY <1>0, <2>4, <3>2, Ranges DEF AtStep, HasEntry
      <4> QED BY <1>1, <2>0, <2>4, <4>1 DEF AloneOK, Fresh
    <3> QED BY <3>1, <3>2
  <2>5. AtStep(d, "wait") /\ loads'[call[d].load].state \in {"live", "zeroed"}
          => Fresh(d, call[d].load)'
    <3>1. AtStep(d, "wait") => call[d].load \in 1..Len(loads)
      BY <1>0, <1>2, Ranges
    <3>2. entry # 0 => loads[entry].state = "live"
      BY <1>0, EntryIsLive
    <3> QED BY <1>1, <2>0, <3>1, <3>2 DEF AloneOK, Fresh
  <2> QED BY <1>0, <1>1, <2>0, <2>1, <2>2, <2>3, <2>4, <2>5, Passive
<1> QED BY <1>2 DEF AloneInv

(* Every caller's times are kept by a step that only replaces or ends the  *)
(* record of one, and that evicts at most.                                 *)
LEMMA CallTime ==
    ASSUME CacheInv, TimeInv, NEW c \in Callers, UNCHANGED worldVars,
           UNCHANGED cacheVars \/ Evict,
           \A d \in Callers : d # c => call'[d] = call[d],
           \/ call'[c].now = call[c].now /\ call'[c].wants = call[c].wants
           \/ call'[c] = NoCall
    PROVE  TimeInv'
<1>1. UNCHANGED <<secret, newest, clock>> /\ TypeOK
  BY DEF worldVars, CacheInv
<1>2. /\ Len(loads') = Len(loads)
      /\ \A k \in 1..Len(loads) : loads'[k].checkedAt = loads[k].checkedAt
  BY <1>1, EvictEffect DEF cacheVars
<1>3. \A l \in 1..Len(loads') : loads'[l].checkedAt <= clock
  BY <1>2 DEF TimeInv
<1> QED BY <1>1, <1>3, TimeFrame

(* A call that ends leaves the others as they were. *)
LEMMA EndFresh ==
    ASSUME IInv, NEW c \in Callers, Fail(c), UNCHANGED worldVars,
           UNCHANGED cacheVars \/ Evict
    PROVE  TimeInv' /\ AloneInv'
<1>1. CacheInv /\ TimeInv /\ TypeOK /\ call' = [call EXCEPT ![c] = NoCall]
  BY DEF IInv, CacheInv, Fail
<1>2. call'[c] = NoCall /\ \A d \in Callers : d # c => call'[d] = call[d]
  BY <1>1, NoCallType, SetCall
<1>3. ~call'[c].alone /\ ~AtStep(c, "mark")'
  BY <1>2 DEF NoCall, AtStep
<1> QED BY <1>1, <1>2, <1>3, CallTime, OthersKeep

LEMMA CallFresh ==
    ASSUME IInv, NEW c \in Callers, Call(c)
    PROVE  TimeInv' /\ AloneInv'
<1> DEFINE alone == pending = 0
           wants == IF secret = 0 THEN newest + 1 ELSE secret
           r == [NoCall EXCEPT !.pc = "look", !.now = clock, !.alone = alone, !.wants = wants]
<1>0. CacheInv /\ TimeInv /\ TypeOK /\ UNCHANGED <<secret, newest, clock, loads, entry, pending>>
  BY DEF IInv, CacheInv, Call, worldVars, cacheVars
<1>1. alone \in BOOLEAN /\ wants \in Nat /\ clock \in Nat
  BY <1>0 DEF TypeOK
<1>2. /\ r \in CallRecord /\ r.pc = "look" /\ r.now = clock /\ r.alone = alone
      /\ r.wants = wants
  <2> HIDE DEF alone, wants
  <2> QED BY <1>1 DEF NoCall, CallRecord
<1>3. call' = [call EXCEPT ![c] = r]
  BY DEF Call
<1> HIDE DEF r
<1>4. call'[c] = r /\ \A d \in Callers : d # c => call'[d] = call[d]
  BY <1>0, <1>2, <1>3, SetCall
<1>5. TimeInv'
  <2>1. ASSUME NEW d \in Callers
        PROVE  /\ call'[d].now <= clock /\ call'[d].wants <= newest + 1
               /\ secret = 0 \/ secret >= call'[d].wants
    <3>1. CASE d = c
      BY <1>0, <1>1, <1>2, <1>4, <3>1, Ranges DEF TimeInv
    <3>2. CASE d # c
      BY <1>0, <1>4, <3>2 DEF TimeInv
    <3> QED BY <3>1, <3>2
  <2> QED BY <1>0, <2>1 DEF TimeInv
<1>6. ASSUME call'[c].alone PROVE AloneOK(c)'
  <2>1. pending' = 0 /\ call'[c].pc = "look" /\ call'[c].now = clock
    BY <1>0, <1>2, <1>4, <1>6
  <2>2. ~(entry' # 0 /\ loads'[entry'].checkedAt > call'[c].now)
    BY <1>0, <1>1, <2>1, Ranges DEF TimeInv
  <2>3. \A d \in Callers : ~(call'[d].now > call'[c].now)
    <3> TAKE d \in Callers
    <3>1. call'[d].now <= clock /\ call'[d].now \in Nat
      <4>1. call[d].now \in Nat
        BY <1>0, Ranges
      <4> QED BY <1>1, <1>2, <1>4, <1>5, <1>0, <4>1 DEF TimeInv
    <3> QED BY <1>1, <2>1, <3>1
  <2> QED BY <2>1, <2>2, <2>3 DEF AloneOK, HasEntry, IsLoading, AtStep
<1>7. ~AtStep(c, "mark")' /\ UNCHANGED cacheVars
  BY <1>0, <1>2, <1>4 DEF AtStep, cacheVars
<1> QED BY <1>4, <1>5, <1>6, <1>7, OthersKeep

LEMMA LookupFresh ==
    ASSUME IInv, VersionCheck = 0, NEW c \in Callers, Lookup(c)
    PROVE  TimeInv' /\ AloneInv'
<1>0. CacheInv /\ TimeInv /\ TypeOK /\ UNCHANGED worldVars /\ AtStep(c, "look")
  BY DEF IInv, CacheInv, Lookup
<1>1. CASE Cached(call[c].now) /\ UNCHANGED cacheVars
  <2> DEFINE pc == IF call[c].now - loads[entry].checkedAt < VersionCheck THEN "copy" ELSE "check"
             r == [call[c] EXCEPT !.cached = entry, !.pc = pc]
  <2>1. entry \in 1..Len(loads) /\ call[c] \in CallRecord /\ pc \in {"copy", "check"}
    BY <1>0, <1>1, EntryIsLive DEF Cached, TypeOK
  <2>2. call' = [call EXCEPT ![c] = r]
    <3>1. call' = [call EXCEPT ![c].cached = entry, ![c].pc = pc]
      BY <1>1 DEF Lookup
    <3> QED BY <3>1
  <2>3. /\ r \in CallRecord /\ r.pc = pc /\ r.cached = entry
        /\ r.now = call[c].now /\ r.wants = call[c].wants /\ r.alone = call[c].alone
    <3> HIDE DEF pc
    <3>1. entry \in Nat
      BY <2>1
    <3> QED BY <2>1, <3>1 DEF CallRecord
  <2> HIDE DEF r
  <2>4. call'[c] = r /\ \A d \in Callers : d # c => call'[d] = call[d]
    BY <1>0, <2>2, <2>3, SetCall
  <2>5. pc = "copy" => loads[entry].checkedAt > call[c].now
    <3>1. loads[entry].checkedAt \in Nat /\ call[c].now \in Nat
      BY <1>0, <2>1, Ranges
    <3> QED BY <3>1
  <2> HIDE DEF pc
  <2>6. ASSUME call'[c].alone PROVE AloneOK(c)'
    <3>1. AloneOK(c)
      BY <2>3, <2>4, <2>6 DEF IInv, AloneInv
    <3>2. pc = "copy" => Fresh(c, entry)
      BY <1>0, <2>1, <2>5, <3>1 DEF AloneOK
    <3>3. UNCHANGED <<loads, entry, pending>>
      BY <1>1 DEF cacheVars
    <3>4. pending # 0 => loads[pending].version = 0 \/ loads[pending].version >= call[c].wants
      BY <3>1 DEF AloneOK, Fresh
    <3> QED BY <2>1, <2>3, <2>4, <3>2, <3>3, <3>4 DEF AloneOK, Fresh, HasEntry, IsLoading, AtStep
  <2>7. ~AtStep(c, "mark")'
    BY <2>1, <2>3, <2>4 DEF AtStep
  <2> QED BY <1>0, <1>1, <2>3, <2>4, <2>6, <2>7, CallTime, OthersKeep
<1>2. CASE Evict /\ Go(c, "load")
  <2>1. /\ call'[c].pc = "load" /\ call'[c].now = call[c].now
        /\ call'[c].wants = call[c].wants /\ call'[c].alone = call[c].alone
        /\ \A d \in Callers : d # c => call'[d] = call[d]
    BY <1>0, <1>2, GoEffect
  <2>2. ASSUME call'[c].alone PROVE AloneOK(c)'
    <3>1. AloneOK(c)
      BY <2>1, <2>2 DEF IInv, AloneInv
    <3>2. /\ entry' = 0 /\ pending' = pending
          /\ \A k \in 1..Len(loads) : loads'[k].version = loads[k].version
      BY <1>0, <1>2, EvictEffect
    <3>3. pending \in 0..Len(loads)
      BY <1>0, Ranges
    <3> QED BY <2>1, <3>1, <3>2, <3>3 DEF AloneOK, Fresh, HasEntry, IsLoading, AtStep
  <2>3. ~AtStep(c, "mark")'
    BY <2>1 DEF AtStep
  <2> QED BY <1>0, <1>2, <2>1, <2>2, <2>3, CallTime, OthersKeep
<1> QED BY <1>1, <1>2 DEF Lookup

LEMMA CheckFresh ==
    ASSUME IInv, NEW c \in Callers, CheckVersion(c)
    PROVE  TimeInv' /\ AloneInv'
<1>0. /\ CacheInv /\ TimeInv /\ TypeOK /\ UNCHANGED <<worldVars, cacheVars>>
      /\ AtStep(c, "check") /\ HasEntry(c)
  BY DEF IInv, CacheInv, CheckVersion, AtStep, HasEntry
<1>1. PICK pc \in {"gone", "mark", "rotated"} :
        Go(c, pc) /\ (pc = "mark" => secret # 0 /\ IsCurrent(call[c].cached))
  BY DEF CheckVersion
<1>2. /\ call'[c].pc = pc /\ call'[c].now = call[c].now /\ call'[c].cached = call[c].cached
      /\ call'[c].wants = call[c].wants /\ call'[c].alone = call[c].alone
      /\ \A d \in Callers : d # c => call'[d] = call[d]
  BY <1>0, <1>1, GoEffect
<1>3. call[c].cached \in 1..Len(loads)
  BY <1>0, Ranges
<1>4. AtStep(c, "mark")' => /\ secret # 0 /\ loads[call'[c].cached].version = secret
                            /\ call'[c].cached \in 1..Len(loads)
  BY <1>1, <1>2, <1>3 DEF AtStep, IsCurrent
<1>5. ASSUME call'[c].alone PROVE AloneOK(c)'
  <2>1. AloneOK(c) /\ UNCHANGED <<loads, entry, pending>>
    BY <1>0, <1>2, <1>5 DEF IInv, AloneInv, cacheVars
  <2>2. pc = "mark" => Fresh(c, call[c].cached)
    BY <1>0, <1>1, CurrentIsFresh DEF IsCurrent, Fresh
  <2> QED BY <1>0, <1>1, <1>2, <2>1, <2>2 DEF AloneOK, Fresh, HasEntry, IsLoading, AtStep
<1> QED BY <1>0, <1>2, <1>4, <1>5, CallTime, OthersKeep

(* A caller whose entry is no longer cached goes on to load. *)
LEMMA ToLoadFresh ==
    ASSUME IInv, NEW c \in Callers, Go(c, "load"), UNCHANGED worldVars,
           UNCHANGED cacheVars \/ Evict,
           call[c].alone => entry' = 0 \/ Fresh(c, entry)
    PROVE  TimeInv' /\ AloneInv'
<1>0. CacheInv /\ TimeInv /\ TypeOK
  BY DEF IInv, CacheInv
<1>1. /\ call'[c].pc = "load" /\ call'[c].now = call[c].now
      /\ call'[c].wants = call[c].wants /\ call'[c].alone = call[c].alone
      /\ \A d \in Callers : d # c => call'[d] = call[d]
  BY <1>0, GoEffect
<1>2. ASSUME call'[c].alone PROVE AloneOK(c)'
  <2>1. AloneOK(c)
    BY <1>1, <1>2 DEF IInv, AloneInv
  <2>2. /\ entry' \in {0, entry} /\ pending' = pending
        /\ \A k \in 1..Len(loads) : loads'[k].version = loads[k].version
    BY <1>0, EvictEffect DEF cacheVars
  <2>3. pending \in 0..Len(loads) /\ entry \in 0..Len(loads)
    BY <1>0, Ranges
  <2>4. entry' = 0 \/ Fresh(c, entry)'
    BY <1>1, <1>2, <2>2, <2>3 DEF Fresh
  <2> QED BY <1>1, <2>1, <2>2, <2>3, <2>4 DEF AloneOK, Fresh, HasEntry, IsLoading, AtStep
<1>3. ~AtStep(c, "mark")'
  BY <1>1 DEF AtStep
<1> QED BY <1>0, <1>1, <1>2, <1>3, CallTime, OthersKeep

(* A caller that is given a fresh version. *)
LEMMA ReturnFresh ==
    ASSUME IInv, NEW c \in Callers, NEW l \in 1..Len(loads), Return(c, l),
           UNCHANGED <<worldVars, cacheVars>>,
           call[c].alone => Fresh(c, l)
    PROVE  TimeInv' /\ AloneInv'
<1>0. CacheInv /\ TimeInv /\ TypeOK /\ UNCHANGED <<loads, entry, pending>>
  BY DEF IInv, CacheInv, cacheVars
<1>1. /\ call'[c].pc = "use" /\ call'[c].now = call[c].now
      /\ call'[c].wants = call[c].wants /\ call'[c].alone = call[c].alone
      /\ call'[c].got = loads[l].version
      /\ \A d \in Callers : d # c => call'[d] = call[d]
  BY <1>0, ReturnEffect
<1>2. ASSUME call'[c].alone PROVE AloneOK(c)'
  <2>1. AloneOK(c) /\ Fresh(c, l)
    BY <1>1, <1>2 DEF IInv, AloneInv
  <2> QED BY <1>0, <1>1, <2>1 DEF AloneOK, Fresh, HasEntry, IsLoading, AtStep
<1>3. ~AtStep(c, "mark")'
  BY <1>1 DEF AtStep
<1> QED BY <1>0, <1>1, <1>2, <1>3, CallTime, OthersKeep

LEMMA CopyFresh ==
    ASSUME IInv, NEW c \in Callers, Copy(c)
    PROVE  TimeInv' /\ AloneInv'
<1>0. /\ CacheInv /\ UNCHANGED <<worldVars, cacheVars>> /\ UNCHANGED entry
      /\ AtStep(c, "copy") /\ HasEntry(c)
      /\ call[c].alone => AloneOK(c)
  BY DEF IInv, AloneInv, Copy, AtStep, HasEntry, cacheVars
<1>1. CASE Return(c, call[c].cached)
  <2>1. call[c].cached \in 1..Len(loads) /\ (call[c].alone => Fresh(c, call[c].cached))
    BY <1>0, Ranges DEF AloneOK
  <2> QED BY <1>0, <1>1, <2>1, ReturnFresh
<1>2. CASE ~StillCached(c) /\ Go(c, "load")
  <2>1. call[c].alone => entry' = 0 \/ Fresh(c, entry)
    BY <1>0, <1>2 DEF AloneOK, StillCached
  <2> QED BY <1>0, <1>2, <2>1, ToLoadFresh
<1> QED BY <1>1, <1>2 DEF Copy

LEMMA EvictRotatedFresh ==
    ASSUME IInv, NEW c \in Callers, EvictRotated(c)
    PROVE  TimeInv' /\ AloneInv'
<1>0. /\ Go(c, "load") /\ UNCHANGED worldVars /\ HasEntry(c)
      /\ call[c].alone => AloneOK(c)
  BY DEF IInv, AloneInv, EvictRotated, AtStep, HasEntry
<1>1. CASE Evict
  <2>1. entry' = 0
    BY <1>1 DEF Evict
  <2> QED BY <1>0, <1>1, <2>1, ToLoadFresh
<1>2. CASE ~StillCached(c) /\ UNCHANGED cacheVars
  <2>1. call[c].alone => entry' = 0 \/ Fresh(c, entry)
    BY <1>0, <1>2 DEF AloneOK, StillCached, cacheVars
  <2> QED BY <1>0, <1>2, <2>1, ToLoadFresh
<1> QED BY <1>1, <1>2 DEF EvictRotated

LEMMA WaitFresh ==
    ASSUME IInv, NEW c \in Callers, WaitEnds(c)
    PROVE  TimeInv' /\ AloneInv'
<1> DEFINE l == call[c].load
<1>0. /\ CacheInv /\ UNCHANGED <<worldVars, cacheVars>> /\ UNCHANGED entry
      /\ AtStep(c, "wait") /\ IsLoading(c) /\ loads[l].state # "running"
      /\ call[c].alone => AloneOK(c)
  BY DEF IInv, AloneInv, WaitEnds, AtStep, IsLoading, cacheVars
<1>1. l \in 1..Len(loads) /\ loads[l].state \in {"failed", "live", "zeroed"}
  <2>1. l \in 1..Len(loads) /\ loads \in Seq(LoadRecord)
    BY <1>0, Ranges DEF CacheInv, TypeOK
  <2> QED BY <1>0, <2>1, LoadFields
<1>2. CASE Fail(c)
  BY <1>0, <1>2, EndFresh
<1>3. CASE Go(c, "load")
  <2>1. call[c].alone => entry' = 0 \/ Fresh(c, entry)
    BY <1>0 DEF AloneOK
  <2> QED BY <1>0, <1>3, <2>1, ToLoadFresh
<1>4. CASE loads[l].state # "failed" /\ Return(c, l)
  <2>1. call[c].alone => Fresh(c, l)
    BY <1>0, <1>1, <1>4 DEF AloneOK
  <2> QED BY <1>0, <1>1, <1>4, <2>1, ReturnFresh
<1> QED BY <1>2, <1>3, <1>4 DEF WaitEnds

LEMMA MarkFresh ==
    ASSUME IInv, NEW c \in Callers, Mark(c)
    PROVE  TimeInv' /\ AloneInv'
<1>0. /\ CacheInv /\ TimeInv /\ TypeOK /\ Go(c, "copy") /\ AtStep(c, "mark") /\ HasEntry(c)
      /\ UNCHANGED <<secret, newest, clock, entry, pending>>
  BY DEF IInv, CacheInv, Mark, worldVars, AtStep, HasEntry
<1>1. /\ call[c].cached \in 1..Len(loads) /\ Len(loads') = Len(loads)
      /\ \A k \in 1..Len(loads) :
           /\ loads'[k].version = loads[k].version
           /\ loads'[k].state = loads[k].state
           /\ loads'[k].checkedAt =
                IF k = call[c].cached THEN call[c].now ELSE loads[k].checkedAt
  BY <1>0, MarkEffect
<1>2. /\ call'[c].pc = "copy" /\ call'[c].now = call[c].now
      /\ call'[c].cached = call[c].cached
      /\ call'[c].wants = call[c].wants /\ call'[c].alone = call[c].alone
      /\ \A d \in Callers : d # c => call'[d] = call[d]
  BY <1>0, GoEffect
<1>3. TimeInv'
  <2>1. \A l \in 1..Len(loads') : loads'[l].checkedAt <= clock
    BY <1>0, <1>1 DEF TimeInv
  <2> QED BY <1>0, <1>2, <2>1, TimeFrame
<1>4. pending \in 0..Len(loads) /\ entry \in 0..Len(loads)
  BY <1>0, Ranges
<1>5. ASSUME call'[c].alone PROVE AloneOK(c)'
  <2>1. AloneOK(c)
    BY <1>2, <1>5 DEF IInv, AloneInv
  <2> QED BY <1>0, <1>1, <1>2, <1>4, <2>1 DEF AloneOK, Fresh, HasEntry, IsLoading, AtStep
<1>6. ASSUME NEW d \in Callers, d # c, call'[d].alone PROVE AloneOK(d)'
  <2>0. AloneOK(d) /\ call'[d] = call[d]
    BY <1>2, <1>6 DEF IInv, AloneInv
  <2>1. \A l \in 1..Len(loads) : Fresh(d, l) => Fresh(d, l)'
    BY <1>1, <2>0 DEF Fresh
  <2>2. pending' # 0 => loads'[pending'].version = 0 \/ Fresh(d, pending)'
    BY <1>0, <1>1, <1>4, <2>0 DEF AloneOK, Fresh
  <2>3. AtStep(d, "look") /\ entry' # 0 /\ loads'[entry'].checkedAt > call[d].now
          => Fresh(d, entry)'
    BY <1>0, <1>1, <1>4, <2>0 DEF AloneOK, Fresh
  <2>4. \A e \in Callers :
          AtStep(d, "look") /\ AtStep(e, "mark")' /\ call'[e].now > call[d].now
            => Fresh(d, call[e].cached)'
    <3> SUFFICES ASSUME NEW e \in Callers, AtStep(d, "look"), AtStep(e, "mark")',
                        call'[e].now > call[d].now
                 PROVE  Fresh(d, call[e].cached)'
      OBVIOUS
    <3>1. e # c /\ call'[e] = call[e] /\ AtStep(e, "mark")
      BY <1>2 DEF AtStep
    <3>2. call[e].cached \in 1..Len(loads)
      BY <1>0, <3>1, Ranges DEF AtStep, HasEntry
    <3> QED BY <1>1, <2>0, <3>1, <3>2 DEF AloneOK, Fresh
  <2>5. AtStep(d, "wait") /\ loads'[call[d].load].state \in {"live", "zeroed"}
          => Fresh(d, call[d].load)'
    BY <1>0, <1>1, <1>6, <2>0, Ranges DEF AloneOK, Fresh
  <2> QED BY <1>0, <2>0, <2>1, <2>2, <2>3, <2>4, <2>5, Passive
<1> QED BY <1>3, <1>5, <1>6 DEF AloneInv

(* A step of a caller that loads, for the others: versions that were known *)
(* stay, and the load that is pending or becomes the entry is fresh or has *)
(* no version yet.                                                         *)
LEMMA LoadersKeep ==
    ASSUME IInv, NEW c \in Callers, NEW d \in Callers, d # c, AloneOK(d),
           call'[d] = call[d],
           \A e \in Callers : e # c => call'[e] = call[e],
           ~AtStep(c, "mark")',
           \A l \in 1..Len(loads) :
              /\ loads'[l].version = loads[l].version \/ Fresh(d, l)'
              /\ loads'[l].checkedAt = loads[l].checkedAt \/ Fresh(d, l)'
              /\ loads'[l].state \in {"live", "zeroed"} =>
                   loads[l].state \in {"live", "zeroed"} \/ Fresh(d, l)',
           pending' # 0 => loads'[pending'].version = 0 \/ Fresh(d, pending)',
           entry' = entry \/ Fresh(d, entry)'
    PROVE  AloneOK(d)'
<1>0. CacheInv /\ TypeOK
  BY DEF IInv, CacheInv
<1>1. entry \in 0..Len(loads)
  BY <1>0, Ranges
<1>2. \A l \in 1..Len(loads) : Fresh(d, l) => Fresh(d, l)'
  BY DEF Fresh
<1>3. AtStep(d, "look") /\ entry' # 0 /\ loads'[entry'].checkedAt > call[d].now
        => Fresh(d, entry)'
  BY <1>1, <1>2 DEF AloneOK, Fresh
<1>4. \A e \in Callers :
        AtStep(d, "look") /\ AtStep(e, "mark")' /\ call'[e].now > call[d].now
          => Fresh(d, call[e].cached)'
  <2> SUFFICES ASSUME NEW e \in Callers, AtStep(d, "look"), AtStep(e, "mark")',
                      call'[e].now > call[d].now
               PROVE  Fresh(d, call[e].cached)'
    OBVIOUS
  <2>1. e # c /\ call'[e] = call[e] /\ AtStep(e, "mark")
    BY DEF AtStep
  <2>2. call[e].cached \in 1..Len(loads)
    BY <1>0, <2>1, Ranges DEF AtStep, HasEntry
  <2> QED BY <1>2, <2>1, <2>2 DEF AloneOK, Fresh
<1>5. AtStep(d, "wait") /\ loads'[call[d].load].state \in {"live", "zeroed"}
        => Fresh(d, call[d].load)'
  <2>1. AtStep(d, "wait") => call[d].load \in 1..Len(loads)
    BY <1>0, Ranges
  <2> QED BY <1>2, <2>1 DEF AloneOK, Fresh
<1> QED BY <1>0, <1>2, <1>3, <1>4, <1>5, Passive

LEMMA FetchFresh ==
    ASSUME IInv, NEW c \in Callers, Fetch(c)
    PROVE  TimeInv' /\ AloneInv'
<1>0. /\ CacheInv /\ TimeInv /\ TypeOK /\ Go(c, "install") /\ Fetching(c) /\ secret # 0
      /\ IsLoading(c) /\ UNCHANGED <<secret, newest, clock, entry, pending>>
  BY DEF IInv, CacheInv, Fetch, worldVars, AtStep, Fetching, IsLoading
<1>1. /\ call[c].load \in 1..Len(loads) /\ Len(loads') = Len(loads)
      /\ \A k \in 1..Len(loads) :
           /\ loads'[k].version = IF k = call[c].load THEN secret ELSE loads[k].version
           /\ loads'[k].state = loads[k].state
           /\ loads'[k].checkedAt = loads[k].checkedAt
  BY <1>0, FetchEffect
<1>2. /\ call'[c].pc = "install" /\ call'[c].now = call[c].now
      /\ call'[c].wants = call[c].wants /\ call'[c].alone = call[c].alone
      /\ \A d \in Callers : d # c => call'[d] = call[d]
  BY <1>0, GoEffect
<1>3. /\ call[c].load = pending /\ entry \in 0..Len(loads) /\ entry # pending
      /\ \A d \in Callers : secret >= call[d].wants
  BY <1>0, <1>1, Ranges, EntryIsLive, CurrentIsFresh DEF CacheInv, LoadInv
<1>4. TimeInv'
  <2>1. \A l \in 1..Len(loads') : loads'[l].checkedAt <= clock
    BY <1>0, <1>1 DEF TimeInv
  <2> QED BY <1>0, <1>2, <2>1, TimeFrame
<1>5. ASSUME call'[c].alone PROVE AloneOK(c)'
  <2>1. AloneOK(c)
    BY <1>2, <1>5 DEF IInv, AloneInv
  <2>2. entry' = 0 \/ Fresh(c, entry)'
    BY <1>0, <1>1, <1>2, <1>3, <2>1 DEF AloneOK, Fresh
  <2>3. Fresh(c, pending)'
    BY <1>0, <1>1, <1>2, <1>3 DEF Fresh
  <2> QED BY <1>2, <2>2, <2>3 DEF AloneOK, HasEntry, IsLoading, AtStep
<1>6. ASSUME NEW d \in Callers, d # c, call'[d].alone PROVE AloneOK(d)'
  <2>1. AloneOK(d) /\ call'[d] = call[d] /\ ~AtStep(c, "mark")'
    BY <1>2, <1>6 DEF IInv, AloneInv, AtStep
  <2>2. Fresh(d, pending)'
    BY <1>0, <1>1, <1>3, <1>6, <2>1 DEF Fresh
  <2>3. \A l \in 1..Len(loads) :
          /\ loads'[l].version = loads[l].version \/ Fresh(d, l)'
          /\ loads'[l].checkedAt = loads[l].checkedAt
          /\ loads'[l].state = loads[l].state
    BY <1>0, <1>1, <1>3, <2>2
  <2> QED BY <1>0, <1>2, <1>6, <2>1, <2>2, <2>3, LoadersKeep
<1> QED BY <1>4, <1>5, <1>6 DEF AloneInv

LEMMA InstallFresh ==
    ASSUME IInv, NEW c \in Callers, Install(c)
    PROVE  TimeInv' /\ AloneInv'
<1> DEFINE l == call[c].load
<1>0. /\ CacheInv /\ TimeInv /\ TypeOK /\ Fetching(c) /\ AtStep(c, "install")
      /\ Return(c, l) /\ pending' = 0 /\ entry' = l
      /\ UNCHANGED <<secret, newest, clock>>
  BY DEF IInv, CacheInv, Install, worldVars, AtStep, Fetching
<1>1. /\ l \in 1..Len(loads) /\ Len(loads') = Len(loads)
      /\ \A k \in 1..Len(loads) :
           /\ loads'[k].version = loads[k].version
           /\ loads'[k].state = IF k = l THEN "live"
                                ELSE IF k = entry THEN "zeroed" ELSE loads[k].state
           /\ loads'[k].checkedAt = IF k = l THEN clock ELSE loads[k].checkedAt
  BY <1>0, InstallEffect
<1>2. /\ call'[c].pc = "use" /\ call'[c].now = call[c].now
      /\ call'[c].wants = call[c].wants /\ call'[c].alone = call[c].alone
      /\ call'[c].got = loads[l].version
      /\ \A d \in Callers : d # c => call'[d] = call[d]
  BY <1>0, <1>1, ReturnEffect
<1>3. /\ l = pending /\ l # 0 /\ loads[l].version # 0
      /\ entry # 0 => loads[entry].state = "live"
  BY <1>0, EntryIsLive DEF CacheInv, LoadInv
<1>4. \A d \in Callers : call[d].alone => loads[l].version >= call[d].wants
  BY <1>3 DEF IInv, AloneInv, AloneOK, Fresh
<1> HIDE DEF l
<1>5. TimeInv'
  <2>1. \A k \in 1..Len(loads') : loads'[k].checkedAt <= clock
    BY <1>0, <1>1, Ranges DEF TimeInv
  <2> QED BY <1>0, <1>2, <2>1, TimeFrame
<1>6. ASSUME call'[c].alone PROVE AloneOK(c)'
  BY <1>0, <1>2, <1>4, <1>6 DEF AloneOK, HasEntry, IsLoading, AtStep
<1>7. ASSUME NEW d \in Callers, d # c, call'[d].alone PROVE AloneOK(d)'
  <2>1. AloneOK(d) /\ call'[d] = call[d] /\ ~AtStep(c, "mark")'
    BY <1>2, <1>7 DEF IInv, AloneInv, AtStep
  <2>3. loads'[l].version >= call'[d].wants
    BY <1>1, <1>4, <1>7, <2>1
  <2>4. Fresh(d, entry)'
    BY <1>0, <2>3 DEF Fresh
  <2>5. \A k \in 1..Len(loads) :
          /\ loads'[k].version = loads[k].version
          /\ loads'[k].checkedAt = loads[k].checkedAt \/ Fresh(d, k)'
          /\ loads'[k].state \in {"live", "zeroed"} =>
               loads[k].state \in {"live", "zeroed"} \/ Fresh(d, k)'
    BY <1>1, <1>3, <2>3 DEF Fresh
  <2> QED BY <1>0, <1>2, <1>7, <2>1, <2>4, <2>5, LoadersKeep
<1> QED BY <1>5, <1>6, <1>7 DEF AloneInv

LEMMA LoadFailsFresh ==
    ASSUME IInv, NEW c \in Callers, Fetching(c), LoadFails(c)
    PROVE  TimeInv' /\ AloneInv'
<1>0. /\ CacheInv /\ TimeInv /\ TypeOK /\ call' = [call EXCEPT ![c] = NoCall]
      /\ pending' = 0 /\ UNCHANGED <<secret, newest, clock, entry>>
  BY DEF IInv, CacheInv, LoadFails, Fail, worldVars
<1>1. /\ Len(loads') = Len(loads)
      /\ \A k \in 1..Len(loads) :
           /\ loads'[k].version = loads[k].version
           /\ loads'[k].state \in {"live", "zeroed"} => loads'[k].state = loads[k].state
           /\ loads'[k].checkedAt = loads[k].checkedAt
  BY <1>0, FailEffect
<1>2. call'[c] = NoCall /\ \A d \in Callers : d # c => call'[d] = call[d]
  BY <1>0, NoCallType, SetCall
<1>3. TimeInv'
  <2>1. \A k \in 1..Len(loads') : loads'[k].checkedAt <= clock
    BY <1>0, <1>1 DEF TimeInv
  <2> QED BY <1>0, <1>2, <2>1, TimeFrame
<1>4. ~call'[c].alone /\ ~AtStep(c, "mark")'
  BY <1>2 DEF NoCall, AtStep
<1>5. ASSUME NEW d \in Callers, d # c, call'[d].alone PROVE AloneOK(d)'
  <2>1. AloneOK(d) /\ call'[d] = call[d]
    BY <1>2, <1>5 DEF IInv, AloneInv
  <2> QED BY <1>0, <1>1, <1>2, <1>4, <1>5, <2>1, LoadersKeep
<1> QED BY <1>3, <1>4, <1>5 DEF AloneInv

LEMMA LoadFresh ==
    ASSUME IInv, NEW c \in Callers, Load(c)
    PROVE  TimeInv' /\ AloneInv'
<1>0. /\ CacheInv /\ TimeInv /\ TypeOK /\ UNCHANGED worldVars
      /\ UNCHANGED <<secret, newest, clock>> /\ IsLoading(c)
      /\ call[c].alone => AloneOK(c)
      /\ call[c] \in CallRecord
  BY DEF IInv, CacheInv, AloneInv, Load, worldVars, AtStep, IsLoading, TypeOK
<1>1. CASE Cached(clock) /\ Return(c, entry) /\ UNCHANGED cacheVars
  <2>1. entry \in 1..Len(loads) /\ (call[c].alone => Fresh(c, entry))
    BY <1>0, <1>1, EntryIsLive DEF Cached, AloneOK
  <2> QED BY <1>0, <1>1, <2>1, ReturnFresh
<1>2. CASE /\ JoinsLoad /\ UNCHANGED cacheVars
           /\ call' = [call EXCEPT ![c].pc = "wait", ![c].load = pending]
  <2> DEFINE r == [call[c] EXCEPT !.pc = "wait", !.load = pending]
  <2>1. pending \in 1..Len(loads) /\ loads[pending].state = "running"
    BY <1>0, <1>2, Ranges DEF JoinsLoad, CacheInv, LoadInv
  <2>2. call' = [call EXCEPT ![c] = r]
    BY <1>2
  <2>3. /\ r \in CallRecord /\ r.pc = "wait" /\ r.load = pending /\ r.now = call[c].now
        /\ r.wants = call[c].wants /\ r.alone = call[c].alone
    <3>1. call[c] \in CallRecord /\ pending \in Nat
      BY <1>0, <2>1
    <3> QED BY <3>1 DEF CallRecord
  <2> HIDE DEF r
  <2>4. call'[c] = r /\ \A d \in Callers : d # c => call'[d] = call[d]
    BY <1>0, <2>2, <2>3, SetCall
  <2>5. ASSUME call'[c].alone PROVE AloneOK(c)'
    <3>1. AloneOK(c) /\ UNCHANGED <<loads, entry, pending>>
      BY <1>0, <1>2, <2>3, <2>4, <2>5 DEF cacheVars
    <3> QED BY <1>0, <2>1, <2>3, <2>4, <3>1 DEF AloneOK, Fresh, HasEntry, IsLoading, AtStep
  <2>6. ~AtStep(c, "mark")'
    BY <2>3, <2>4 DEF AtStep
  <2> QED BY <1>0, <1>2, <2>3, <2>4, <2>5, <2>6, CallTime, OthersKeep
<1>3. CASE /\ ~JoinsLoad /\ loads' = Append(loads, NewLoad) /\ pending' = NextLoad
           /\ call' = [call EXCEPT ![c].pc = "fetch", ![c].load = NextLoad]
           /\ UNCHANGED entry
  <2> DEFINE r == [call[c] EXCEPT !.pc = "fetch", !.load = NextLoad]
  <2>1. /\ Len(loads') = Len(loads) + 1 /\ Len(loads) \in Nat
        /\ \A k \in 1..Len(loads) : loads'[k] = loads[k]
        /\ loads'[pending'].version = 0 /\ loads'[Len(loads) + 1].checkedAt = 0
        /\ NextLoad = Len(loads) + 1
    BY <1>0, <1>3, AppendEffect
  <2>2. call' = [call EXCEPT ![c] = r]
    BY <1>3
  <2>3. /\ r \in CallRecord /\ r.pc = "fetch" /\ r.now = call[c].now
        /\ r.wants = call[c].wants /\ r.alone = call[c].alone
    <3>1. NextLoad \in Nat
      BY <2>1
    <3> QED BY <1>0, <3>1 DEF CallRecord
  <2> HIDE DEF r
  <2>4. call'[c] = r /\ \A d \in Callers : d # c => call'[d] = call[d]
    BY <1>0, <2>2, <2>3, SetCall
  <2>5. TimeInv'
    <3>1. \A k \in 1..Len(loads') : loads'[k].checkedAt <= clock
      <4> TAKE k \in 1..Len(loads')
      <4>1. clock \in Nat /\ (k \in 1..Len(loads) \/ k = Len(loads) + 1)
        BY <1>0, <2>1, Ranges
      <4> QED BY <1>0, <2>1, <4>1 DEF TimeInv
    <3> QED BY <1>0, <2>3, <2>4, <3>1, TimeFrame
  <2>6. entry \in 0..Len(loads)
    BY <1>0, Ranges
  <2>7. ASSUME call'[c].alone PROVE AloneOK(c)'
    <3>1. entry' = 0 \/ Fresh(c, entry)'
      BY <1>0, <1>3, <2>1, <2>3, <2>4, <2>6, <2>7 DEF AloneOK, Fresh
    <3> QED BY <2>1, <2>3, <2>4, <3>1 DEF AloneOK, HasEntry, IsLoading, AtStep
  <2>8. ASSUME NEW d \in Callers, d # c, call'[d].alone PROVE AloneOK(d)'
    <3>1. AloneOK(d) /\ call'[d] = call[d] /\ ~AtStep(c, "mark")'
      BY <2>3, <2>4, <2>8 DEF IInv, AloneInv, AtStep
    <3> QED BY <1>3, <2>1, <2>4, <2>8, <3>1, LoadersKeep
  <2> QED BY <2>5, <2>7, <2>8 DEF AloneInv
<1> QED BY <1>1, <1>2, <1>3 DEF Load

(* Steps that no caller takes: eviction, and the secret and time going on. *)
LEMMA WorldFresh ==
    ASSUME IInv, Invalidate \/ Sweep \/ Rotate \/ Remove \/ Tick
    PROVE  TimeInv' /\ AloneInv'
<1>0. CacheInv /\ TimeInv /\ AloneInv /\ TypeOK
  BY DEF IInv, CacheInv
<1>1. CASE Invalidate \/ Sweep
  <2>1. Evict /\ call' = call /\ UNCHANGED worldVars /\ UNCHANGED <<secret, newest, clock>>
    BY <1>1 DEF Invalidate, Sweep, worldVars
  <2>2. /\ entry' = 0 /\ pending' = pending /\ Len(loads') = Len(loads)
        /\ \A k \in 1..Len(loads) :
             /\ loads'[k].version = loads[k].version
             /\ loads'[k].checkedAt = loads[k].checkedAt
             /\ loads'[k].state = IF k = entry THEN "zeroed" ELSE loads[k].state
    BY <1>0, <2>1, EvictEffect
  <2>3. TimeInv'
    <3>1. \A k \in 1..Len(loads') : loads'[k].checkedAt <= clock
      BY <1>0, <2>2 DEF TimeInv
    <3> QED BY <1>0, <2>1, <3>1, TimeFrame
  <2>4. ASSUME NEW d \in Callers, call'[d].alone PROVE AloneOK(d)'
    <3>1. AloneOK(d) /\ call'[d] = call[d]
      BY <1>0, <2>1, <2>4 DEF AloneInv
    <3>2. pending' # 0 => loads'[pending'].version = 0 \/ Fresh(d, pending)'
      BY <1>0, <2>2, <3>1, Ranges DEF AloneOK, Fresh
    <3>3. \A e \in Callers :
            AtStep(d, "look") /\ AtStep(e, "mark")' /\ call'[e].now > call[d].now
              => Fresh(d, call[e].cached)'
      BY <1>0, <2>1, <2>2, <2>4, <3>1, Ranges DEF AloneOK, Fresh, AtStep, HasEntry
    <3>4. AtStep(d, "wait") /\ loads'[call[d].load].state \in {"live", "zeroed"}
            => Fresh(d, call[d].load)'
      <4>1. AtStep(d, "wait") => call[d].load \in 1..Len(loads)
        BY <1>0, <2>4, Ranges
      <4>2. entry # 0 => loads[entry].state = "live"
        BY <1>0, EntryIsLive
      <4> QED BY <2>2, <3>1, <4>1, <4>2 DEF AloneOK, Fresh
    <3>5. \A l \in 1..Len(loads) : Fresh(d, l) => Fresh(d, l)'
      BY <2>2, <3>1 DEF Fresh
    <3> QED BY <1>0, <2>2, <2>4, <3>1, <3>2, <3>3, <3>4, <3>5, Passive
  <2> QED BY <2>3, <2>4 DEF AloneInv
<1>2. CASE Rotate \/ Remove \/ Tick
  <2>1. UNCHANGED <<loads, entry, pending, call>>
    BY <1>2 DEF Rotate, Remove, Tick, cacheVars
  <2>2. AloneInv'
    BY <1>0, <2>1 DEF AloneInv, AloneOK, Fresh, HasEntry, IsLoading, AtStep
  <2>3. TimeInv'
    <3>1. /\ secret' <= newest' /\ clock <= clock' /\ newest <= newest'
          /\ secret' \in {0, secret, newest + 1}
          /\ clock' \in Nat /\ newest' \in Nat
      BY <1>0, <1>2, Ranges DEF Rotate, Remove, Tick, TimeInv
    <3>2. \A l \in 1..Len(loads) : loads[l].checkedAt <= clock'
      BY <1>0, <3>1, Ranges DEF TimeInv
    <3>3. ASSUME NEW c \in Callers
          PROVE  /\ call[c].now <= clock' /\ call[c].wants <= newest' + 1
                 /\ secret' = 0 \/ secret' >= call[c].wants
      <4>1. /\ call[c].now <= clock /\ call[c].wants <= newest + 1
            /\ secret = 0 \/ secret >= call[c].wants
        BY <1>0 DEF TimeInv
      <4> QED BY <1>0, <3>1, <4>1, Ranges
    <3> QED BY <2>1, <3>1, <3>2, <3>3 DEF TimeInv
  <2> QED BY <2>2, <2>3
<1> QED BY <1>1, <1>2

LEMMA FreshInit == Init => TimeInv /\ AloneInv
<1> SUFFICES ASSUME Init PROVE TimeInv /\ AloneInv
  OBVIOUS
<1>1. \A c \in Callers : call[c].now = 0 /\ call[c].wants = 0 /\ ~call[c].alone
  BY DEF Init, NoCall
<1>2. Len(loads) = 0
  BY DEF Init
<1> QED BY <1>1, <1>2 DEF Init, TimeInv, AloneInv

LEMMA FreshNext ==
    ASSUME VersionCheck = 0
    PROVE  IInv /\ [Next]_vars => IInv'
<1> SUFFICES ASSUME IInv, [Next]_vars PROVE TimeInv' /\ AloneInv'
  BY CacheNext DEF IInv
<1>1. CASE UNCHANGED vars
  BY <1>1 DEF vars, IInv, TimeInv, AloneInv, AloneOK, Fresh, HasEntry, IsLoading, AtStep
<1>2. ASSUME NEW c \in Callers, Call(c) \/ Finish(c) PROVE TimeInv' /\ AloneInv'
  <2>1. CASE Finish(c)
    BY <2>1, EndFresh DEF Finish
  <2> QED BY <1>2, <2>1, CallFresh
<1>3. ASSUME NEW c \in Callers, Resolve(c) PROVE TimeInv' /\ AloneInv'
  <2>1. CASE Lookup(c) \/ CheckVersion(c) \/ Mark(c)
    BY <2>1, LookupFresh, CheckFresh, MarkFresh
  <2>2. CASE EvictGone(c)
    BY <2>2, EndFresh DEF EvictGone
  <2>3. CASE Copy(c) \/ EvictRotated(c)
    BY <2>3, CopyFresh, EvictRotatedFresh
  <2>4. CASE Load(c) \/ Fetch(c) \/ Install(c) \/ WaitEnds(c)
    BY <2>4, LoadFresh, FetchFresh, InstallFresh, WaitFresh
  <2>5. CASE NoSecret(c)
    BY <2>5, LoadFailsFresh DEF NoSecret, Fetching, AtStep
  <2> QED BY <1>3, <2>1, <2>2, <2>3, <2>4, <2>5 DEF Resolve
<1>4. ASSUME NEW c \in Callers, CallFails(c) PROVE TimeInv' /\ AloneInv'
  <2>1. CASE Fail(c) /\ UNCHANGED <<worldVars, cacheVars, calls>>
    BY <2>1, EndFresh
  <2>2. CASE Fetching(c) /\ LoadFails(c)
    BY <2>2, LoadFailsFresh
  <2> QED BY <1>4, <2>1, <2>2 DEF CallFails, Fetching
<1> QED BY <1>1, <1>2, <1>3, <1>4, WorldFresh DEF Next

(* With Config.VersionCheck zero, a call of ResolveKey that begins while   *)
(* no load is under way returns a version that was current during the      *)
(* call.                                                                   *)
THEOREM FreshKeys ==
    ASSUME VersionCheck = 0
    PROVE  Spec => []CurrentWhenAlone
<1>1. Init => IInv
  BY CacheInit, FreshInit DEF IInv
<1>2. IInv /\ [Next]_vars => IInv'
  BY FreshNext
<1>3. IInv => CurrentWhenAlone
  BY DEF IInv, AloneInv, AloneOK, CurrentWhenAlone, AtStep
<1> QED BY <1>1, <1>2, <1>3, PTL DEF Spec

=============================================================================
