--------------------------- MODULE CascadingCache ---------------------------
(***************************************************************************)
(* Versioned key-value tiers, the tiered read-through over them            *)
(* (storage.rs) and the reactive cache that turns its result into events,  *)
(* a status and a value (cascading_cache.rs).  The miss and load callbacks *)
(* of a lookup run arbitrary code: they may write to the tiers.            *)
(***************************************************************************)
EXTENDS Naturals, Sequences, FiniteSets, SequencesExt, FiniteSetsExt

CONSTANTS Nothing, CacheKeys, CacheValues, Tiers, Versioned, Policies, MaxWaves, MaxWrites

ASSUME CacheAssumption == Tiers \subseteq Nat /\ Versioned \subseteq Tiers

VARIABLES tiers, lookup, todo, driver, policy, status, value, overwrote, touched, cacheUsed
cacheVars == <<tiers, lookup, todo, driver, policy, status, value, overwrote, touched, cacheUsed>>

\* MemoryKv: entries and tombstones hold the version of their last change.
EmptyTier == [entries |-> [k \in {} |-> Nothing], tombs |-> [k \in {} |-> 0], epoch |-> 0, next |-> 1]
CurrentVersion(m, k) ==
    IF k \in DOMAIN m.entries THEN m.entries[k].version
    ELSE IF k \in DOMAIN m.tombs THEN m.tombs[k] ELSE 0
Generation(m, k) == [epoch |-> m.epoch, version |-> CurrentVersion(m, k)]
Written(f, k, x) == [j \in DOMAIN f \union {k} |-> IF j = k THEN x ELSE f[j]]
KvSet(m, k, v) ==
    [m EXCEPT !.entries = Written(@, k, [value |-> v, version |-> m.next]),
              !.tombs = Restrict(@, DOMAIN @ \ {k}), !.next = @ + 1]
KvDelete(m, k) ==
    IF k \notin DOMAIN m.entries THEN m
    ELSE [m EXCEPT !.entries = Restrict(@, DOMAIN @ \ {k}), !.tombs = Written(@, k, m.next), !.next = @ + 1]
KvClear(m) == [EmptyTier EXCEPT !.epoch = m.epoch + 1]
\* set_if_match refuses a generation of another epoch or version.
Matches_VersionOnly(m, k, g) == g.version = CurrentVersion(m, k)
Matches(m, k, g) == g = Generation(m, k)

NoLookup == [pc |-> "idle"]
NoGeneration == [epoch |-> 0, version |-> Nothing]
CacheInit ==
    /\ tiers = [t \in Tiers |-> EmptyTier]
    /\ lookup = NoLookup /\ todo = <<>>           \* the lookup under way and those left of this wave
    /\ driver = [seq |-> 0, latest |-> Nothing]
    /\ policy \in Policies                         \* the indices promotion may write, in order
    /\ status = [kind |-> "idle", key |-> Nothing, seq |-> 0] /\ value = [seq |-> 0, shown |-> Nothing]
    /\ overwrote = FALSE /\ touched = {}           \* history: tiers written since the lookup read them
    /\ cacheUsed = [waves |-> 0, writes |-> 0]

(***************************************************************************)
(* The events node: requests, then invalidations, or a policy change that  *)
(* looks the latest key up again.                                          *)
(***************************************************************************)
Wave1 ==
    /\ lookup.pc = "idle" /\ todo = <<>> /\ cacheUsed.waves < MaxWaves
    /\ cacheUsed' = [cacheUsed EXCEPT !.waves = @ + 1]
    /\ \/ /\ \E k \in CacheKeys, c \in {"request", "invalidate"} :
              todo' \in {<<[cause |-> c, key |-> k]>>}
                        \union {<<[cause |-> "request", key |-> k], [cause |-> "invalidate", key |-> j]>> : j \in CacheKeys}
          /\ UNCHANGED policy
       \/ /\ policy' \in Policies
          /\ todo' = IF driver.latest = Nothing THEN <<>> ELSE <<[cause |-> "request", key |-> driver.latest[1]]>>
    /\ UNCHANGED <<tiers, lookup, driver, status, value, overwrote, touched>>

\* start_lookup: the start event reaches status and value before any tier is read.
SeenByValue(v, cause, seq) == IF cause = "request" THEN [v EXCEPT !.seq = seq] ELSE [seq |-> seq, shown |-> Nothing]
StartLookup ==
    /\ lookup.pc = "idle" /\ todo # <<>>
    /\ LET next == todo[1]
           seq == driver.seq + 1
       IN /\ driver' = [seq |-> seq, latest |-> <<next.key>>]
          /\ lookup' = [pc |-> "look", key |-> next.key, seq |-> seq, tier |-> 1, failed |-> FALSE,
                        found |-> Nothing, from |-> Cardinality(Tiers) + 1,
                        seen |-> [t \in Tiers |-> NoGeneration], targets |-> <<>>]
          /\ status' = [kind |-> "loading", key |-> <<next.key>>, seq |-> seq]
          /\ value' = SeenByValue(value, next.cause, seq)
    /\ todo' = Tail(todo) /\ touched' = {}
    /\ UNCHANGED <<tiers, policy, overwrote, cacheUsed>>

(***************************************************************************)
(* tiered_read_through                                                     *)
(***************************************************************************)
\* build_promotion_targets: below the tier that hit, each once, in the policy's order.
Targets(from) == SelectSeq(policy, LAMBDA t : t < from)
Found(l, v, from) == [l EXCEPT !.pc = "promote", !.found = <<v>>, !.from = from, !.targets = Targets(from)]
Observed(l, t) == IF t \in Versioned THEN [l EXCEPT !.seen[t] = Generation(tiers[t], l.key)] ELSE l
Past(l) == IF l.tier = Cardinality(Tiers) THEN [l EXCEPT !.pc = "load"] ELSE [l EXCEPT !.tier = @ + 1]
LookTier ==
    /\ lookup.pc = "look"
    /\ LET t == lookup.tier IN
        \/ /\ lookup.key \in DOMAIN tiers[t].entries
           /\ lookup' = Found(Observed(lookup, t), tiers[t].entries[lookup.key].value, t)
        \/ /\ lookup.key \notin DOMAIN tiers[t].entries
           /\ lookup' = Past(Observed(lookup, t))
        \/ lookup' = Past([lookup EXCEPT !.failed = TRUE])  \* this tier's read fails: no generation
    /\ UNCHANGED <<tiers, todo, driver, policy, status, value, overwrote, touched, cacheUsed>>
Load1 ==
    /\ lookup.pc = "load"
    /\ \/ \E v \in CacheValues : lookup' = Found(lookup, v, Cardinality(Tiers) + 1)
       \/ lookup' = [lookup EXCEPT !.pc = "fill"]
       \/ lookup' = [lookup EXCEPT !.pc = "fill", !.failed = TRUE]      \* an error, or a panic the cache catches
    /\ UNCHANGED <<tiers, todo, driver, policy, status, value, overwrote, touched, cacheUsed>>
\* A versioned target that was not observed is refused; an unversioned one is simply written.
MayPromote(t) ==
    t \in Versioned => lookup.seen[t] # NoGeneration /\ Matches(tiers[t], lookup.key, lookup.seen[t])
PromoteNext ==
    /\ lookup.pc = "promote" /\ lookup.targets # <<>>
    /\ LET t == lookup.targets[1] IN
        \/ /\ MayPromote(t)
           /\ tiers' = [tiers EXCEPT ![t] = KvSet(@, lookup.key, lookup.found[1])]
           /\ overwrote' = (overwrote \/ (t \in Versioned /\ t \in touched))
        \/ UNCHANGED <<tiers, overwrote>>                                \* refused, or the write fails
    /\ lookup' = [lookup EXCEPT !.targets = Tail(@)]
    /\ UNCHANGED <<todo, driver, policy, status, value, touched, cacheUsed>>
Promoted == lookup.pc = "promote" /\ lookup.targets = <<>>
FillStatus(l) == IF l.found # Nothing THEN "hit" ELSE IF l.failed THEN "error" ELSE "miss"
\* The Fill event: status and value take it when it carries the request they last saw.
Fill ==
    /\ Promoted \/ lookup.pc = "fill"
    /\ status' = IF status.seq = lookup.seq THEN [status EXCEPT !.kind = FillStatus(lookup)] ELSE status
    /\ value' = IF value.seq = lookup.seq THEN [value EXCEPT !.shown = lookup.found] ELSE value
    /\ lookup' = NoLookup
    /\ UNCHANGED <<tiers, todo, driver, policy, overwrote, touched, cacheUsed>>

\* Other users of a tier, between waves or inside the miss and load callbacks.
Reading(t, k) == lookup.pc # "idle" /\ t \in Versioned /\ lookup.key = k /\ lookup.seen[t] # NoGeneration
OthersWrite ==
    /\ lookup.pc \in {"idle", "look", "load"} /\ cacheUsed.writes < MaxWrites
    /\ cacheUsed' = [cacheUsed EXCEPT !.writes = @ + 1]
    /\ \E t \in Tiers, k \in CacheKeys :
        /\ \/ \E v \in CacheValues : tiers' = [tiers EXCEPT ![t] = KvSet(@, k, v)]
           \/ tiers' = [tiers EXCEPT ![t] = KvDelete(@, k)]
           \/ tiers' = [tiers EXCEPT ![t] = KvClear(@)]
        /\ touched' = touched \union {u \in {t} : Reading(t, k) /\ tiers'[t] # tiers[t]}
    /\ UNCHANGED <<lookup, todo, driver, policy, status, value, overwrote>>

CacheNext == Wave1 \/ StartLookup \/ LookTier \/ Load1 \/ PromoteNext \/ Fill \/ OthersWrite

CacheSpec == CacheInit /\ [][CacheNext]_cacheVars

(* A promotion never overwrites what someone else wrote to, deleted from or cleared out of a versioned tier *)
(* after the lookup read it, although clear() starts the versions again (MemoryKv::set_if_match, KvGeneration). *)
PromotionsYield == ~overwrote

(* With no lookup under way the three nodes agree: the status is that of the latest key looked up, and the  *)
(* value is shown exactly when the status is a hit (start_lookup, the status and value nodes' sequence      *)
(* filters, events_from_result).                                                                            *)
CacheAgrees ==
    lookup.pc = "idle" /\ todo = <<>> =>
        /\ status.key = driver.latest /\ status.seq = driver.seq /\ status.kind # "loading"
        /\ (status.kind = "hit") = (value.shown # Nothing)

(* The cache does no harm to its tiers, and tells one story to its readers. *)
CacheSound == PromotionsYield /\ CacheAgrees
=============================================================================
