--------------------------- MODULE CachedSequences ---------------------------
(***************************************************************************)
(* The most general client of the prefix index that keeps to its contract: *)
(* sequences are admitted over whatever prefix matches, run in chunks,     *)
(* sampled one token at a time, published after any step, and released at  *)
(* any point; the index may be smaller than the pool.                      *)
(***************************************************************************)
EXTENDS KVRows

CONSTANTS
  Prompts,      (* prompts sequences start from                            *)
  Salts,        (* tenants                                                 *)
  Sampled       (* tokens the runner may select                            *)

(* Prompts are sequences of tokens, and never empty: `add' rejects those.  *)
ASSUME PromptsAssumption ==
  Prompts \subseteq Seq(UNION {Range(p) : p \in Prompts}) \ {<<>>}

VARIABLE
  client        (* per slot: the tokens and salt the client knows, and of  *)
                (* an admission in progress, under 0                       *)

clientVars == <<vars, cacheVars, image, client>>

Nobody == [salt |-> "", tokens |-> <<>>]

ClientInit ==
  /\ Init /\ CacheInit /\ RowsInit
  /\ client = [s \in 0..MaxSlots |-> Nobody]

(* Admission over the longest match, reserving room for the prompt and, if *)
(* the client declares it, for its whole life.  MaxSlots bounds the        *)
(* sequences alive at once.                                                *)
Admit(prompt, salt, length, watermark) ==
  /\ \E s \in Slot : ~active[s]
  /\ BeginAdmit(Match(prompt, salt), length, watermark)
  /\ client' = [client EXCEPT ![0] = [salt |-> salt, tokens |-> prompt]]
  /\ UNCHANGED image

Attached(s) ==
  /\ AdmitAttach(s)
  /\ client' = [client EXCEPT ![s] = client[0], ![0] = Nobody]
  /\ KeepRows

Reserved == AdmitReserve /\ KeepRows /\ UNCHANGED client

CacheContinues == CacheStep /\ KeepRows /\ UNCHANGED client

(* Growth first reclaims idle cache, and otherwise waits.                  *)
Shortage(s, length) == CeilDiv(length, BlockSize) - Len(tables[s]) - Len(free)

Grow(s, length) ==
  /\ call = Idle
  /\ reserved[s] < length /\ length <= Len(client[s].tokens)
  /\ \/ Shortage(s, length) <= 0 /\ Reserve(s, length) /\ UNCHANGED cacheVars
     \/ Shortage(s, length) > 0 /\ BeginReclaim(Shortage(s, length) + Len(free))
  /\ KeepRows /\ UNCHANGED client

Run(s, length) ==
  /\ call = Idle
  /\ enqueued[s] = lengths[s] /\ length <= Len(client[s].tokens)
  /\ WriteRows(s, length, client[s].tokens)
  /\ UNCHANGED <<cacheVars, client>>

(* A completed step is committed and may be published.                     *)
Complete(s) ==
  /\ call = Idle
  /\ enqueued[s] > lengths[s]
  /\ Commit(s)
  /\ KeepRows /\ UNCHANGED <<cacheVars, client>>

Publish(s) ==
  /\ enqueued[s] = lengths[s]
  /\ BeginPublish(s, client[s].tokens, client[s].salt)
  /\ UNCHANGED <<image, client>>

Sample(s, token) ==
  /\ call = Idle
  /\ active[s]
  /\ lengths[s] = Len(client[s].tokens) /\ lengths[s] < MaxLength
  /\ client' = [client EXCEPT ![s].tokens = Append(@, token)]
  /\ UNCHANGED <<vars, cacheVars, image>>

Release(s) ==
  /\ call = Idle
  /\ Detach(s)
  /\ client' = [client EXCEPT ![s] = Nobody]
  /\ KeepRows /\ UNCHANGED cacheVars

Clear == BeginClear /\ entries # <<>> /\ UNCHANGED <<image, client>>

ClientNext ==
  \/ \E prompt \in Prompts, salt \in Salts, length \in 1..MaxLength, watermark \in 0..1 :
       Admit(prompt, salt, length, watermark)
  \/ \E s \in Slot : Attached(s)
  \/ Reserved
  \/ CacheContinues
  \/ \E s \in Slot, length \in 1..MaxLength : Grow(s, length)
  \/ \E s \in Slot, length \in 1..MaxLength : Run(s, length)
  \/ \E s \in Slot : Complete(s)
  \/ \E s \in Slot : Publish(s)
  \/ \E s \in Slot, token \in Sampled : Sample(s, token)
  \/ \E s \in Slot : Release(s)
  \/ Clear

ClientSpec == ClientInit /\ [][ClientNext]_clientVars
-----------------------------------------------------------------------------
(* KV correctness: whatever was shared, evicted, published twice or handed *)
(* from one sequence to the next, a sequence attends only to rows of its   *)
(* own token history, and a key names rows of exactly its history.         *)
KVCorrect ==
  /\ \A s \in Slot : active[s] => HoldsHistory(s, client[s].tokens)
  /\ \A k \in DOMAIN entries : EntryRows(entries[k])

(* Publication never meets an immutable block filed under another history  *)
(* or another tenant's salt: the one it holds is filed under its own.      *)
ReadersUnderOwnKey ==
  \A s \in Slot : \A i \in DOMAIN tables[s] : states[tables[s][i]] = REGISTERED =>
    \E k \in EntryOf(tables[s][i]) :
      /\ entries[k].salt = client[s].salt
      /\ entries[k].tokens = Prefix(client[s].tokens, i * BlockSize)

(* Sharing is invisible: every sequence reads its own history, over blocks *)
(* that are its own or filed under its history and its tenant.             *)
SharedRowsAreOwn == KVCorrect /\ ReadersUnderOwnKey

(* An operation, once past its validation, can always take its next step:  *)
(* there is a victim while blocks are short, a slot or room to reserve.    *)
OperationNeverStuck ==
  /\ call.op \in {"reclaim", "admit"} /\ call.required > Len(free) => Victims(call.protected) # {}
  /\ call.op = "reserve" =>
       CeilDiv(call.length, BlockSize) - Len(tables[call.sequence]) <= Len(free)
  /\ Publishing /\ ~Known =>
       LET b == tables[call.sequence][call.ordinal]
       IN  states[b] = COMPLETE /\ refs[b] = 1
=============================================================================
