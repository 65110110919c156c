---------------------------- MODULE TwoLevelCache ----------------------------
(***************************************************************************)
(* cacheGet(), cacheSet() and cacheDelete() on one key: a Map in each       *)
(* process (L1) in front of Redis (L2), and a pub/sub channel on which a    *)
(* writer tells every process, itself too, to drop its copy (src/cache.ts). *)
(*                                                                         *)
(* Values are numbered in the order in which they are set.  Time is         *)
(* abstract: an entry with a time to live may go at any moment, and what    *)
(* counts of its length is whether it is that of the key's policy or the    *)
(* default of CACHE_MEMORY_TTL.  Every caller passes a positive TTL or has  *)
(* it from cache-ttl.ts.  The version hash beside each payload changes      *)
(* nothing: both branches that compare it store the same entry.             *)
(***************************************************************************)
EXTENDS Integers, FiniteSets

CONSTANTS
    Procs,      \* service processes
    Calls,      \* bound: calls of the cache in progress at a time
    MaxWrites,  \* bound: values set and deletions
    MaxFaults   \* bound: Redis errors, lost messages, restarts

ASSUME BoundsAssumption == MaxWrites \in Nat /\ MaxFaults \in Nat

VARIABLES
    redis,      \* the payload in Redis, 0 where there is none
    l1,         \* memoryStore of each process, val = 0 where it has no entry
    inbox,      \* invalidations published and not yet received, by process
    available,  \* redisAvailable of each process
    calls,      \* the calls in progress
    latest,     \* history: what the last write left in Redis, 0 for a deletion
    writes, faults

vars == <<redis, l1, inbox, available, calls, latest, writes, faults>>

\* origin, a history: "store" is what L1 and Redis had in common when the
\* entry was made or will have after the call at hand, "raced" a fill that was
\* overtaken by a write, "orphan" an entry no invalidation is coming for.
Absent == [val |-> 0, ttl |-> "policy", origin |-> "store"]
Entry(v, ttl, origin) == [val |-> v, ttl |-> ttl, origin |-> origin]

Free == [pc |-> "free"]

Init == /\ redis = 0
        /\ l1 = [p \in Procs |-> Absent]
        /\ inbox = [p \in Procs |-> 0]
        /\ available = [p \in Procs |-> TRUE]
        /\ calls = [c \in Calls |-> Free]
        /\ latest = 0
        /\ writes = 0 /\ faults = 0

Fault == faults < MaxFaults /\ faults' = faults + 1

Call(c, pc) == calls[c].pc = pc
Goto(c, r) == calls' = [calls EXCEPT ![c] = r]

\* Entries that differ from what the last write left count as orphans.
Orphaned(P) == [p \in Procs |-> IF p \in P /\ l1[p].val \notin {0, latest}
                                THEN [l1[p] EXCEPT !.origin = "orphan"] ELSE l1[p]]

-----------------------------------------------------------------------------
(* cacheGet().                                                              *)

\* A local entry answers at once; an unavailable Redis is a miss.
CacheGet(c, p) ==
    /\ Call(c, "free") /\ l1[p].val = 0 /\ available[p]
    /\ Goto(c, [pc |-> "payload", p |-> p])
    /\ UNCHANGED <<redis, l1, inbox, available, latest, writes, faults>>

\* The first round trip.  Without a payload the call ends with a miss.
GetPayload(c) ==
    /\ Call(c, "payload")
    /\ Goto(c, IF redis = 0 THEN Free ELSE [pc |-> "pttl", p |-> calls[c].p, val |-> redis])
    /\ UNCHANGED <<redis, l1, inbox, available, latest, writes, faults>>

\* Mutant of GetPttl: the answer -2 for a missing key is taken for a TTL.
GetPttlUnchecked(c) ==
    /\ Call(c, "pttl")
    /\ Goto(c, [pc |-> "fill", p |-> calls[c].p, val |-> calls[c].val,
                ttl |-> IF redis = 0 THEN "negative" ELSE "policy"])
    /\ UNCHANGED <<redis, l1, inbox, available, latest, writes, faults>>

\* A later one asks for the remaining TTL: none if the key has gone meanwhile.
GetPttl(c) ==
    /\ Call(c, "pttl")
    /\ Goto(c, [pc |-> "fill", p |-> calls[c].p, val |-> calls[c].val,
                ttl |-> IF redis = 0 THEN "default" ELSE "policy"])
    /\ UNCHANGED <<redis, l1, inbox, available, latest, writes, faults>>

\* Mutant of Fill: what came without a TTL is kept without one.
FillForever(c) ==
    LET r == calls[c]
    IN  /\ Call(c, "fill")
        /\ l1' = [l1 EXCEPT ![r.p] =
                    Entry(r.val, IF r.ttl = "default" THEN "none" ELSE r.ttl,
                          IF r.val = latest THEN "store" ELSE "raced")]
        /\ Goto(c, Free)
        /\ UNCHANGED <<redis, inbox, available, latest, writes, faults>>

\* Only then the entry is put into L1, whatever happened since.
Fill(c) ==
    LET r == calls[c]
    IN  /\ Call(c, "fill")
        /\ l1' = [l1 EXCEPT ![r.p] =
                    Entry(r.val, r.ttl, IF r.val = latest THEN "store" ELSE "raced")]
        /\ Goto(c, Free)
        /\ UNCHANGED <<redis, inbox, available, latest, writes, faults>>

-----------------------------------------------------------------------------
(* cacheSet() and cacheDelete().                                            *)

Write == writes < MaxWrites /\ writes' = writes + 1

\* L1 first; without Redis that is all.
CacheSet(c, p) ==
    /\ Call(c, "free") /\ Write
    /\ l1' = [l1 EXCEPT ![p] = Entry(writes', "policy",
                                     IF available[p] THEN "store" ELSE "orphan")]
    /\ Goto(c, IF available[p] THEN [pc |-> "write", p |-> p, val |-> writes'] ELSE Free)
    /\ UNCHANGED <<redis, inbox, available, latest, faults>>

CacheDelete(c, p) ==
    /\ Call(c, "free") /\ Write
    /\ l1' = [l1 EXCEPT ![p] = Absent]
    /\ Goto(c, IF available[p] THEN [pc |-> "write", p |-> p, val |-> 0] ELSE Free)
    /\ UNCHANGED <<redis, inbox, available, latest, faults>>

\* MULTI of payload and version, or the two DELs.
WriteRedis(c) ==
    /\ Call(c, "write")
    /\ redis' = calls[c].val /\ latest' = calls[c].val
    /\ Goto(c, [calls[c] EXCEPT !.pc = "publish"])
    /\ UNCHANGED <<l1, inbox, available, writes, faults>>

\* Mutant of PublishInvalidation: the writer does not tell itself.
PublishToOthers(c) ==
    /\ Call(c, "publish")
    /\ inbox' = [p \in Procs |-> IF p = calls[c].p THEN inbox[p] ELSE inbox[p] + 1]
    /\ Goto(c, Free)
    /\ UNCHANGED <<redis, l1, available, latest, writes, faults>>

PublishInvalidation(c) ==
    /\ Call(c, "publish")
    /\ inbox' = [p \in Procs |-> inbox[p] + 1]
    /\ Goto(c, Free)
    /\ UNCHANGED <<redis, l1, available, latest, writes, faults>>

\* The listener of setupPubSub().
ReceiveInvalidation(p) ==
    /\ inbox[p] > 0
    /\ inbox' = [inbox EXCEPT ![p] = @ - 1]
    /\ l1' = [l1 EXCEPT ![p] = Absent]
    /\ UNCHANGED <<redis, available, calls, latest, writes, faults>>

-----------------------------------------------------------------------------
(* Expiry and faults.                                                       *)

\* An entry expires, is the oldest of a full Map, or the process clears it.
\* One without a time to live only makes room for others.
DropEntry(p) ==
    /\ l1[p].val # 0 /\ l1[p].ttl # "none"
    /\ l1' = [l1 EXCEPT ![p] = Absent]
    /\ UNCHANGED <<redis, inbox, available, calls, latest, writes, faults>>

ExpireRedis ==
    /\ redis # 0 /\ redis' = 0
    /\ UNCHANGED <<l1, inbox, available, calls, latest, writes, faults>>

\* A Redis command throws: the call logs it and ends.  L1 keeps what a set put
\* there; a failed publication leaves the other processes with their copies.
CallFails(c) ==
    LET r == calls[c]
    IN  /\ r.pc \notin {"free", "fill"} /\ Fault
        /\ l1' = CASE r.pc = "publish" -> Orphaned(Procs)
                   [] r.pc = "write"   -> Orphaned({r.p})
                   [] OTHER            -> l1
        /\ Goto(c, Free)
        /\ UNCHANGED <<redis, inbox, available, latest, writes>>

\* The subscriber is disconnected when a message is published to it.
LoseInvalidation(p) ==
    /\ inbox[p] > 0 /\ Fault
    /\ inbox' = [inbox EXCEPT ![p] = @ - 1]
    /\ l1' = Orphaned({p})
    /\ UNCHANGED <<redis, available, calls, latest, writes>>

\* The client's error and ready events.
RedisUnavailable(p) ==
    /\ available[p] /\ Fault
    /\ available' = [available EXCEPT ![p] = FALSE]
    /\ UNCHANGED <<redis, l1, inbox, calls, latest, writes>>

RedisReady(p) ==
    /\ ~available[p]
    /\ available' = [available EXCEPT ![p] = TRUE]
    /\ UNCHANGED <<redis, l1, inbox, calls, latest, writes, faults>>

CallStep(c) == \/ GetPayload(c) \/ GetPttl(c) \/ Fill(c)
               \/ WriteRedis(c) \/ PublishInvalidation(c)

Next == \/ \E c \in Calls : CallStep(c) \/ CallFails(c)
        \/ \E c \in Calls, p \in Procs :
             CacheGet(c, p) \/ CacheSet(c, p) \/ CacheDelete(c, p)
        \/ \E p \in Procs : \/ ReceiveInvalidation(p) \/ DropEntry(p)
                            \/ LoseInvalidation(p)
                            \/ RedisUnavailable(p) \/ RedisReady(p)
        \/ ExpireRedis

Spec == Init /\ [][Next]_vars

\* Round trips end, messages arrive and entries with a time to live expire.
FairSpec ==
    /\ Spec
    /\ \A c \in Calls : WF_vars(CallStep(c))
    /\ \A p \in Procs : WF_vars(ReceiveInvalidation(p)) /\ WF_vars(DropEntry(p))

-----------------------------------------------------------------------------
(* Properties.                                                              *)

Values == 0 .. MaxWrites

Progress ==
    {Free} \cup [pc : {"payload"}, p : Procs]
           \cup [pc : {"pttl", "write", "publish"}, p : Procs, val : Values]
           \cup [pc : {"fill"}, p : Procs, val : Values, ttl : {"policy", "default"}]

\* Entries, messages and calls have their types.
TypeOK ==
    /\ redis \in Values /\ latest \in Values
    /\ l1 \in [Procs -> [val : Values, ttl : {"policy", "default", "none"},
                         origin : {"store", "raced", "orphan"}]]
    /\ inbox \in [Procs -> Nat]
    /\ available \in [Procs -> BOOLEAN]
    /\ calls \in [Calls -> Progress]
    /\ writes \in 0 .. MaxWrites /\ faults \in 0 .. MaxFaults

\* A write that has reached Redis and has still to be announced, or one of
\* process p that has reached only its L1.
Announcing == \E c \in Calls : Call(c, "publish")
Writing(p) == \E c \in Calls : Call(c, "write") /\ calls[c].p = p

\* L1 is coherent: a copy that is not what the last write left in Redis will be
\* dropped by an invalidation under way or to come, unless its fill was
\* overtaken by a write or an error came between.  Redis is written before the
\* invalidation is published, and the writer is told too.
Coherent ==
    \A p \in Procs :
      \/ l1[p].val \in {0, latest} \/ l1[p].origin # "store"
      \/ inbox[p] > 0 \/ Announcing \/ Writing(p)

\* The copies converge: once the writers are done, every process has the last
\* value or none, whatever fills, errors and lost messages there were.
Converges == <>[](\A p \in Procs : l1[p].val \in {0, latest})
=============================================================================
