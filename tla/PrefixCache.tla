----------------------------- MODULE PrefixCache -----------------------------
(***************************************************************************)
(* The bounded exact prefix index over immutable full blocks               *)
(* (serving/prefix_cache.mojo), on top of the block manager.               *)
(*                                                                         *)
(* An operation of the index makes several calls on the manager: `admit'   *)
(* evicts idle entries one at a time, attaches and reserves; `publish'     *)
(* registers block by block.  Each of those calls is a step here, and      *)
(* `call' holds the operation in progress, with its arguments.  While an   *)
(* operation is in progress nothing but its next step is possible: the     *)
(* code is one synchronous call.  All its validation happens before the    *)
(* first change, in the guard of the step that begins it.                  *)
(*                                                                         *)
(* A key is a salt and the whole token history up to a block boundary; the *)
(* model namespace is fixed for one engine and left out.                   *)
(***************************************************************************)
EXTENDS BlockManager

CONSTANTS
  Capacity,     (* most entries the index may hold                         *)
  MaxClock      (* where the use clock saturates (Int.MAX in the code)     *)

ASSUME CacheAssumption ==
  /\ Capacity \in 0..Cardinality(Block)
  /\ MaxClock \in Nat \ {0}

VARIABLES
  entries,      (* the index: keys with their block and last use           *)
  clock,        (* use clock                                               *)
  call          (* operation in progress                                   *)

cacheVars == <<entries, clock, call>>

Idle == [op |-> "none"]

CacheInit ==
  /\ entries = <<>>
  /\ clock = 0
  /\ call = Idle

(* Saturating, so that ties are left to the order of the index.            *)
Tick == IF clock < MaxClock THEN clock + 1 ELSE MaxClock

Prefix(tokens, n) == SubSeq(tokens, 1, n)

(* Mutants: another tenant's key matches; the last token is not compared.  *)
FindAnyTenant(tokens, salt) == {k \in DOMAIN entries : entries[k].tokens = tokens}
FindButLast(tokens, salt) ==
  {k \in DOMAIN entries :
     /\ entries[k].salt = salt
     /\ Len(entries[k].tokens) = Len(tokens)
     /\ Prefix(entries[k].tokens, Len(tokens) - 1) = Prefix(tokens, Len(tokens) - 1)}

Find(tokens, salt)  == {k \in DOMAIN entries : entries[k].salt = salt /\ entries[k].tokens = tokens}
EntryOf(b)          == {k \in DOMAIN entries : entries[k].block = b}
Indexed(tokens, salt, i) == Find(Prefix(tokens, i * BlockSize), salt) # {}
BlockAt(tokens, salt, i) ==
  entries[CHOOSE k \in Find(Prefix(tokens, i * BlockSize), salt) : TRUE].block

(* Resident full blocks from the start of `tokens' without a gap or a      *)
(* repeated block; the last token always stays to be run.                  *)
Chain(tokens, salt, n) == [i \in 1..n |-> BlockAt(tokens, salt, i)]
Matches(tokens, salt, n) ==
  /\ \A i \in 1..n : Indexed(tokens, salt, i) /\ states[BlockAt(tokens, salt, i)] = REGISTERED
  /\ IsInjective(Chain(tokens, salt, n))

MatchLimit(tokens) ==
  (IF Len(tokens) - 1 <= MaxLength THEN Len(tokens) - 1 ELSE MaxLength) \div BlockSize

Match(tokens, salt) ==
  Chain(tokens, salt, CHOOSE n \in 0..MatchLimit(tokens) :
    /\ Matches(tokens, salt, n)
    /\ n < MatchLimit(tokens) => ~Matches(tokens, salt, n + 1))

(* Idle entries outside `protected', and the least recently used of them,  *)
(* the first in the index among equals.                                    *)
Evictable(protected) ==
  {k \in DOMAIN entries : refs[entries[k].block] = 0 /\ entries[k].block \notin protected}

OlderUse(j, k) ==
  \/ entries[j].lastUsed < entries[k].lastUsed
  \/ entries[j].lastUsed = entries[k].lastUsed /\ j <= k

Victims(protected) ==
  {k \in Evictable(protected) : \A j \in Evictable(protected) : OlderUse(k, j)}

(* Mutant: protected matches count as room.                                *)
AllIdle(protected)     == Cardinality(Evictable({}))
Reclaimable(protected) == Cardinality(Evictable(protected))

(* Mutant: the next entry goes instead.                                    *)
RemoveAfter(k) == SubSeq(entries, 1, k) \o SubSeq(entries, k + 2, Len(entries))
RemoveEntry(k) == SubSeq(entries, 1, k - 1) \o SubSeq(entries, k + 1, Len(entries))

(* _remove: the block and its entry retire together.                       *)
Evict(k) ==
  /\ EvictRegistered(entries[k].block)
  /\ entries' = RemoveEntry(k)
-----------------------------------------------------------------------------
(* reclaim: all or nothing, evicting until `required' blocks are free.     *)
CanReclaim(required, protected) == required <= Len(free) + Reclaimable(protected)

BeginReclaim(required) ==
  /\ call = Idle
  /\ CanReclaim(required, {})
  /\ call' = [op |-> "reclaim", required |-> required, protected |-> {}]
  /\ UNCHANGED <<entries, clock, vars>>

EndReclaim ==
  /\ call.op = "reclaim" /\ call.required <= Len(free)
  /\ call' = Idle
  /\ UNCHANGED <<entries, clock, vars>>

(* An index or an admission short of free blocks evicts one more victim.   *)
ReclaimOne ==
  /\ call.op \in {"reclaim", "admit"} /\ call.required > Len(free)
  /\ \E k \in Victims(call.protected) : Evict(k)
  /\ UNCHANGED <<clock, call>>

(* admit: a cached prefix, room for `length' positions in all, and         *)
(* `watermark' blocks left over.  Matched blocks are protected: they are   *)
(* not room for their own private tail.                                    *)
PrefixTable(cached) ==
  /\ IsInjective(cached)
  /\ \A i \in DOMAIN cached :
       /\ states[cached[i]] = REGISTERED
       /\ \E k \in EntryOf(cached[i]) : Len(entries[k].tokens) = i * BlockSize
       /\ i > 1 => \E j \in EntryOf(cached[i - 1]), k \in EntryOf(cached[i]) :
                     /\ entries[j].salt = entries[k].salt
                     /\ entries[j].tokens = Prefix(entries[k].tokens, (i - 1) * BlockSize)

BeginAdmit(cached, length, watermark) ==
  LET required == CeilDiv(length, BlockSize) - Len(cached) + watermark
  IN  /\ call = Idle
      /\ watermark \in 0..Cardinality(Block)
      /\ Len(cached) * BlockSize <= length /\ length <= MaxLength
      /\ PrefixTable(cached)
      /\ CanReclaim(required, Range(cached))
      /\ call' = [op |-> "admit", required |-> required, protected |-> Range(cached),
                  cached |-> cached, length |-> length]
      /\ UNCHANGED <<entries, clock, vars>>

AdmitAttach(s) ==
  /\ call.op = "admit" /\ call.required <= Len(free)
  /\ Attach(s, call.cached)
  /\ call' = [op |-> "reserve", sequence |-> s, cached |-> call.cached, length |-> call.length]
  /\ UNCHANGED <<entries, clock>>

(* The private tail, and one use stamp for the whole matched prefix.       *)
Stamped(cached) ==
  [k \in DOMAIN entries |->
     IF entries[k].block \in Range(cached) THEN [entries[k] EXCEPT !.lastUsed = Tick] ELSE entries[k]]

AdmitReserve ==
  /\ call.op = "reserve"
  /\ Reserve(call.sequence, call.length)
  /\ clock' = Tick
  /\ entries' = Stamped(call.cached)
  /\ call' = Idle
-----------------------------------------------------------------------------
(* publish: validate every full block of the sequence, then index those    *)
(* whose key is new.  An existing key stays canonical: the sequence keeps  *)
(* its private duplicate.                                                  *)
Publishable(s, tokens, salt) ==
  /\ Len(tokens) >= lengths[s]
  /\ \A i \in 1..(lengths[s] \div BlockSize) :
       LET b == tables[s][i]
       IN  IF states[b] = REGISTERED
           THEN Indexed(tokens, salt, i) /\ BlockAt(tokens, salt, i) = b
           ELSE states[b] = COMPLETE /\ refs[b] = 1

BeginPublish(s, tokens, salt) ==
  /\ call = Idle
  /\ active[s]
  /\ Publishable(s, tokens, salt)
  /\ call' = [op |-> "publish", sequence |-> s, tokens |-> tokens, salt |-> salt, ordinal |-> 1]
  /\ UNCHANGED <<entries, clock, vars>>

Publishing ==
  call.op = "publish" /\ call.ordinal <= lengths[call.sequence] \div BlockSize

Known == Indexed(call.tokens, call.salt, call.ordinal)
Full  == Len(entries) = Capacity

(* Mutant: a live table is remapped to the block of a key that is known.   *)
PublishRemaps ==
  /\ Publishing
  /\ Known \/ Capacity = 0 \/ (Full /\ Victims({}) = {})
  /\ tables' = IF Known
                 THEN [tables EXCEPT ![call.sequence][call.ordinal] =
                         BlockAt(call.tokens, call.salt, call.ordinal)]
                 ELSE tables
  /\ call' = [call EXCEPT !.ordinal = @ + 1]
  /\ UNCHANGED <<entries, clock, free, states, refs, lengths, reserved, active, written, enqueued>>

(* A known key, or a full index whose every block has a reader.            *)
PublishSkip ==
  /\ Publishing
  /\ Known \/ Capacity = 0 \/ (Full /\ Victims({}) = {})
  /\ call' = [call EXCEPT !.ordinal = @ + 1]
  /\ UNCHANGED <<entries, clock, vars>>

(* A full index makes room by evicting its least recently used idle entry. *)
PublishEvict ==
  /\ Publishing /\ ~Known /\ Capacity # 0 /\ Full
  /\ \E k \in Victims({}) : Evict(k)
  /\ UNCHANGED <<clock, call>>

PublishRegister ==
  /\ Publishing /\ ~Known /\ Capacity # 0 /\ ~Full
  /\ Register(call.sequence, call.ordinal)
  /\ clock' = Tick
  /\ entries' = Append(entries,
       [salt |-> call.salt, tokens |-> Prefix(call.tokens, call.ordinal * BlockSize),
        block |-> tables[call.sequence][call.ordinal], lastUsed |-> Tick])
  /\ call' = [call EXCEPT !.ordinal = @ + 1]

EndPublish ==
  /\ call.op = "publish" /\ ~Publishing
  /\ call' = Idle
  /\ UNCHANGED <<entries, clock, vars>>

(* clear: only with no reader at all; entries go first to last.            *)
BeginClear ==
  /\ call = Idle
  /\ Evictable({}) = DOMAIN entries
  /\ call' = [op |-> "clear"]
  /\ UNCHANGED <<entries, clock, vars>>

ClearOne ==
  /\ call.op = "clear" /\ entries # <<>>
  /\ Evict(1)
  /\ UNCHANGED <<clock, call>>

EndClear ==
  /\ call.op = "clear" /\ entries = <<>>
  /\ call' = Idle
  /\ UNCHANGED <<entries, clock, vars>>

(* The next step of the operation in progress, admissions apart: those     *)
(* hand their caller a sequence.                                           *)
CacheStep ==
  \/ ReclaimOne \/ EndReclaim
  \/ PublishSkip \/ PublishEvict \/ PublishRegister \/ EndPublish
  \/ ClearOne \/ EndClear
-----------------------------------------------------------------------------
(* check(): the index is bounded, repeats no key, and indexes exactly the  *)
(* Registered blocks, each once, even in the middle of an operation.       *)
IndexExact ==
  /\ Len(entries) <= Capacity
  /\ \A j, k \in DOMAIN entries : j # k =>
       /\ entries[j].block # entries[k].block
       /\ <<entries[j].salt, entries[j].tokens>> # <<entries[k].salt, entries[k].tokens>>
  /\ {entries[k].block : k \in DOMAIN entries} = Registered
=============================================================================
