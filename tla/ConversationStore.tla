--------------------------- MODULE ConversationStore ---------------------------
(***************************************************************************)
(* ConversationManager (backend/services/conversation.py) for one          *)
(* conversation id: uvicorn workers, each with its own dictionary, share   *)
(* the blob conv:<id> in Redis.  Every write goes through                  *)
(* _locked_redis_update: take the lock conv:lock:<id>, re-read the blob,   *)
(* mutate, save, release.  The manager is synchronous code on the event    *)
(* loop, so a worker has one operation in flight; another worker may step  *)
(* between any two Redis commands of it.                                   *)
(*                                                                         *)
(* A clock tick is a conversation's whole time to live divided by MaxAge.  *)
(***************************************************************************)
EXTENDS Naturals, Sequences, FiniteSets

CONSTANTS Worker,       \* uvicorn workers
          Msg,          \* messages of the turns, each added once
          Value,        \* values of an intent, a state or an owner key
          None,         \* Python's None
          NoCtx,        \* no context: a missing blob or dictionary entry
          NoUpdate,     \* no update in flight
          NoLock,       \* the lock key is not set
          Orphan,       \* the lock key holds a token nobody will release
          MaxMessages,  \* ConversationManager.MAX_MESSAGES
          MaxAge,       \* ConversationManager.MAX_AGE, in ticks
          MaxClock,     \* bound of the model: the last tick
          OwnerKeys,    \* the owner keys that requests carry, if any
          Kinds,        \* the updates that the clients of the model call
          Faults        \* which of AllFaults the environment shows

AllFaults == {"slow", "outage", "crash"}

ClientKinds == {"add_message", "restore_last_intent", "set_conversation_state",
                "set_pending_indicator_options", "set_pending_semantic_clarification",
                "clear_pending_indicator_options", "clear_pending_semantic_clarification",
                "clear_all_pending"}

\* The two updates that only get_or_create makes
AllKinds == ClientKinds \union {"bind_owner", "stamp_owner"}

ASSUME StoreAssumption ==
  /\ MaxMessages \in Nat \ {0}
  /\ MaxAge \in Nat \ {0}
  /\ MaxClock \in Nat
  /\ Kinds \subseteq ClientKinds
  /\ Faults \subseteq AllFaults
  /\ OwnerKeys \subseteq Value
  /\ None \notin Value
  /\ NoLock \notin Worker /\ Orphan \notin Worker /\ NoLock # Orphan

VARIABLES clock,   \* the wall clock
          up,      \* Redis answers
          redis,   \* the blob at conv:<id>
          lock,    \* the value of conv:lock:<id>
          client,  \* client[w]: the lazy connection of worker w
          mem,     \* mem[w]: w's _conversations entry
          pc,      \* pc[w]: how far w's _locked_redis_update has come
          upd,     \* upd[w]: the update it performs
          conn,    \* conn[w]: its local `client` is not None
          held,    \* held[w]: its local `acquired`
          base,    \* base[w]: its local `fresh`, before mutate_fn
          born,    \* a client has been given the id
          sent,    \* sent[w]: messages w was asked to add, in order
          written  \* messages that a save has put into Redis

local == <<pc, upd, conn, held, base>>
vars == <<clock, up, redis, lock, client, mem, pc, upd, conn, held, base,
          born, sent, written>>

Val == Value \union {None}

Ctx == [msgs : Seq(Msg), intent : Val, state : Val, owner : Val,
        ind : BOOLEAN, sem : BOOLEAN, at : Nat]

\* What a conversation is to its clients
Conv == [msgs : Seq(Msg), intent : Val, state : Val, owner : Val,
         pending : {"nothing", "indicator", "semantic"}]

ASSUME NoCtxAssumption == NoCtx \notin Ctx /\ NoCtx \notin Conv

Update == [kind : {"add_message"}, msg : Msg, val : Val]
            \union [kind : AllKinds \ {"add_message"}, msg : {None}, val : Val]

Updates == {u \in Update : u.kind \in Kinds}

NewCtx == [msgs |-> <<>>, intent |-> None, state |-> None, owner |-> None,
           ind |-> FALSE, sem |-> FALSE, at |-> clock]

\* Mutant: the cap is off by one
LastKeptOneFewer(s) == IF Len(s) >= MaxMessages THEN Tail(s) ELSE s

\* ctx.messages[-MAX_MESSAGES:] after one append
LastKept(s) == IF Len(s) > MaxMessages THEN Tail(s) ELSE s

SetsIntent(u) == \/ u.kind = "restore_last_intent"
                 \/ (u.kind = "add_message" /\ u.val # None)

SetsOwner(u, c) == \/ u.kind = "bind_owner"
                   \/ (u.kind = "stamp_owner" /\ c.owner = None)

KeepsIndicator(u) == u.kind \notin {"set_pending_semantic_clarification",
                       "clear_pending_indicator_options", "clear_all_pending"}

\* Mutant: the setter of indicator options leaves the other kind pending
KeepsSemanticOnSet(u) == u.kind \notin {"clear_pending_semantic_clarification", "clear_all_pending"}

KeepsSemantic(u) == u.kind \notin {"set_pending_indicator_options",
                      "clear_pending_semantic_clarification", "clear_all_pending"}

\* mutate_fn of update u, on its base c
Mutate(u, c) ==
  [c EXCEPT !.msgs   = IF u.kind = "add_message" THEN LastKept(Append(@, u.msg)) ELSE @,
            !.intent = IF SetsIntent(u) THEN u.val ELSE @,
            !.state  = IF u.kind = "set_conversation_state" THEN u.val ELSE @,
            !.owner  = IF SetsOwner(u, c) THEN u.val ELSE @,
            !.ind    = u.kind = "set_pending_indicator_options" \/ (@ /\ KeepsIndicator(u)),
            !.sem    = u.kind = "set_pending_semantic_clarification" \/ (@ /\ KeepsSemantic(u))]

RequiresExisting(u) == u.kind # "stamp_owner"

Expired(c) == clock > c.at + MaxAge

Live(c) == c # NoCtx /\ ~Expired(c)

Pcs == {"idle", "start", "lock", "read", "save", "release"}

TypeOK ==
  /\ clock \in 0..MaxClock
  /\ up \in BOOLEAN
  /\ redis \in Ctx \union {NoCtx}
  /\ lock \in Worker \union {NoLock, Orphan}
  /\ client \in [Worker -> {"never", "failed", "ok"}]
  /\ mem \in [Worker -> Ctx \union {NoCtx}]
  /\ pc \in [Worker -> Pcs]
  /\ upd \in [Worker -> Update \union {NoUpdate}]
  /\ conn \in [Worker -> BOOLEAN]
  /\ held \in [Worker -> BOOLEAN]
  /\ base \in [Worker -> Ctx \union {NoCtx}]
  /\ born \in BOOLEAN
  /\ sent \in [Worker -> Seq(Msg)]
  /\ written \in SUBSET Msg
  /\ \A w \in Worker : /\ pc[w] \in {"start", "lock", "read", "save"} => upd[w] \in Update
                       /\ pc[w] = "save" => base[w] \in Ctx
-----------------------------------------------------------------------------
Init ==
  /\ clock = 0
  /\ up = TRUE
  /\ redis = NoCtx
  /\ lock = NoLock
  /\ client = [w \in Worker |-> "never"]
  /\ mem = [w \in Worker |-> NoCtx]
  /\ pc = [w \in Worker |-> "idle"]
  /\ upd = [w \in Worker |-> NoUpdate]
  /\ conn = [w \in Worker |-> FALSE]
  /\ held = [w \in Worker |-> FALSE]
  /\ base = [w \in Worker |-> NoCtx]
  /\ born = FALSE
  /\ sent = [w \in Worker |-> <<>>]
  /\ written = {}

-----------------------------------------------------------------------------
(* _get_sync_redis in worker w answers a client (ok) or None.  A connection *)
(* once made is kept; a failed attempt is not repeated for 30 seconds.      *)
Connect(w, ok) ==
  \/ /\ client[w] = "ok"
     /\ ok
     /\ UNCHANGED client
  \/ /\ client[w] # "ok"
     /\ ok = up
     /\ client' = [client EXCEPT ![w] = IF up THEN "ok" ELSE "failed"]
  \/ /\ client[w] = "failed"
     /\ ~ok
     /\ UNCHANGED client

\* _redis_load, given whether there is a client: the blob, if Redis answers
\* and the blob has not expired
Loaded(ok) == IF ok /\ up /\ redis # NoCtx /\ ~Expired(redis) THEN redis ELSE NoCtx

\* _redis_delete, given whether there is a client
Deleted(ok) == IF ok /\ up THEN NoCtx ELSE redis

\* w's dictionary entry is expired: pop it and delete the blob
DropExpired(w, ok) ==
  /\ mem' = [mem EXCEPT ![w] = NoCtx]
  /\ redis' = Deleted(ok)

(* _get_locked: memory first, Redis only on a miss.  Every getter and the   *)
(* first half of get_or_create are this step.  Its expired branch deletes   *)
(* the blob without looking at it.                                          *)
GetLocked(w, ok) ==
  \/ /\ mem[w] # NoCtx /\ Expired(mem[w])
     /\ Connect(w, ok)
     /\ DropExpired(w, ok)
  \/ /\ Live(mem[w])
     /\ UNCHANGED <<mem, redis, client>>
  \/ /\ mem[w] = NoCtx
     /\ Connect(w, ok)
     /\ mem' = [mem EXCEPT ![w] = Loaded(ok)]
     /\ UNCHANGED redis

Get(w) ==
  /\ born
  /\ pc[w] = "idle"
  /\ \E ok \in BOOLEAN : GetLocked(w, ok)
  /\ UNCHANGED <<clock, up, lock, local, born, sent, written>>

(* get_conversation_state: a live context without a state is completed with *)
(* the state of the blob.                                                   *)
GetConversationState(w) ==
  /\ pc[w] = "idle"
  /\ Live(mem[w])
  /\ mem[w].state = None
  /\ \E ok \in BOOLEAN :
       /\ Connect(w, ok)
       /\ Loaded(ok) # NoCtx
       /\ mem' = [mem EXCEPT ![w].state = Loaded(ok).state]
  /\ UNCHANGED <<clock, up, redis, lock, local, born, sent, written>>

(* refresh_from_redis: the blob replaces the dictionary entry.              *)
RefreshFromRedis(w) ==
  /\ pc[w] = "idle"
  /\ \E ok \in BOOLEAN :
       /\ Connect(w, ok)
       /\ Loaded(ok) # NoCtx
       /\ mem' = [mem EXCEPT ![w] = Loaded(ok)]
  /\ UNCHANGED <<clock, up, redis, lock, local, born, sent, written>>

(* cleanup, every ten minutes: expired entries go, and their blobs.         *)
Cleanup(w) ==
  /\ pc[w] = "idle"
  /\ mem[w] # NoCtx /\ Expired(mem[w])
  /\ \E ok \in BOOLEAN : Connect(w, ok) /\ DropExpired(w, ok)
  /\ UNCHANGED <<clock, up, lock, local, born, sent, written>>

(* create_conversation: a fresh uuid, saved without the lock.               *)
CreateConversation(w, v) ==
  /\ ~born
  /\ born' = TRUE
  /\ mem' = [mem EXCEPT ![w] = [NewCtx EXCEPT !.owner = v]]
  /\ \E ok \in BOOLEAN :
       /\ Connect(w, ok)
       /\ redis' = IF ok /\ up THEN mem'[w] ELSE redis
  /\ UNCHANGED <<clock, up, lock, local, sent, written>>

-----------------------------------------------------------------------------
(* get_or_create with an id: what _get saw decides which locked update      *)
(* follows, if any; the conversation can change in between.  An owner       *)
(* mismatch mints another id and leaves this conversation alone.            *)
Pending(w, kind, v) ==
  /\ pc' = [pc EXCEPT ![w] = "start"]
  /\ upd' = [upd EXCEPT ![w] = [kind |-> kind, msg |-> None, val |-> v]]

GetOrCreate(w, v) ==
  /\ pc[w] = "idle"
  /\ born' = TRUE
  /\ \E ok \in BOOLEAN : GetLocked(w, ok)
  /\ \/ /\ mem'[w] = NoCtx
        /\ Pending(w, "stamp_owner", v)
     \/ /\ mem'[w] # NoCtx /\ mem'[w].owner # v /\ v # None
        /\ Pending(w, "bind_owner", v)
     \/ /\ mem'[w] # NoCtx /\ (v = None \/ mem'[w].owner # None)
        /\ UNCHANGED <<pc, upd>>
  /\ UNCHANGED <<clock, up, lock, conn, held, base, sent, written>>

-----------------------------------------------------------------------------
(* _locked_redis_update, entry: bind `client`; without one there is no lock *)
(* to take.                                                                 *)
Enter(w, ok) ==
  /\ Connect(w, ok)
  /\ pc' = [pc EXCEPT ![w] = IF ok THEN "lock" ELSE "read"]
  /\ conn' = [conn EXCEPT ![w] = ok]

BeginUpdate(w, u) ==
  /\ born
  /\ pc[w] = "idle"
  /\ u.kind = "add_message" => \A x \in Worker : ~\E i \in DOMAIN sent[x] : sent[x][i] = u.msg
  /\ \E ok \in BOOLEAN : Enter(w, ok)
  /\ upd' = [upd EXCEPT ![w] = u]
  /\ sent' = IF u.kind = "add_message" THEN [sent EXCEPT ![w] = Append(@, u.msg)] ELSE sent
  /\ UNCHANGED <<clock, up, redis, lock, mem, held, base, born, written>>

ContinueUpdate(w) ==
  /\ pc[w] = "start"
  /\ \E ok \in BOOLEAN : Enter(w, ok)
  /\ UNCHANGED <<clock, up, redis, lock, mem, upd, held, base, born, sent, written>>

\* Mutant: SET without NX
AcquireLockWithoutNX(w) ==
  /\ pc[w] = "lock"
  /\ up
  /\ lock' = w
  /\ held' = [held EXCEPT ![w] = TRUE]
  /\ pc' = [pc EXCEPT ![w] = "read"]
  /\ UNCHANGED <<clock, up, redis, client, mem, upd, conn, base, born, sent, written>>

(* SET NX PX succeeds.                                                      *)
AcquireLock(w) ==
  /\ pc[w] = "lock"
  /\ up
  /\ lock = NoLock
  /\ lock' = w
  /\ held' = [held EXCEPT ![w] = TRUE]
  /\ pc' = [pc EXCEPT ![w] = "read"]
  /\ UNCHANGED <<clock, up, redis, client, mem, upd, conn, base, born, sent, written>>

\* Mutant: a taken lock is not waited for
GoOnAtOnce(w) ==
  /\ pc[w] = "lock"
  /\ ~up \/ lock # NoLock
  /\ pc' = [pc EXCEPT ![w] = "read"]
  /\ UNCHANGED <<clock, up, redis, lock, client, mem, upd, conn, held, base, born, sent, written>>

\* Mutant: the wait has no deadline
GoOnOnlyOnError(w) ==
  /\ pc[w] = "lock"
  /\ ~up
  /\ pc' = [pc EXCEPT ![w] = "read"]
  /\ UNCHANGED <<clock, up, redis, lock, client, mem, upd, conn, held, base, born, sent, written>>

(* Redis errs, or the lock stays taken for _CONV_LOCK_WAIT_S: go on without *)
(* it.  Another worker's section outlasts the wait only if it is slow; a    *)
(* token that nobody will release always does.                              *)
GoOnWithoutLock(w) ==
  /\ pc[w] = "lock"
  /\ ~up \/ lock = Orphan \/ (lock # NoLock /\ "slow" \in Faults)
  /\ pc' = [pc EXCEPT ![w] = "read"]
  /\ UNCHANGED <<clock, up, redis, lock, client, mem, upd, conn, held, base, born, sent, written>>

\* Mutant: no early return when there is nothing to update
TakeBaseUnchecked(w, b) ==
  /\ base' = [base EXCEPT ![w] = b]
  /\ pc' = [pc EXCEPT ![w] = "save"]

(* Re-read the blob; failing that, fall back to the dictionary; failing     *)
(* that, a new context or nothing to update.                                *)
TakeBase(w, b) ==
  /\ base' = [base EXCEPT ![w] = b]
  /\ pc' = [pc EXCEPT ![w] = IF b = NoCtx THEN "release" ELSE "save"]

BaseIfAbsent(u) == IF RequiresExisting(u) THEN NoCtx ELSE NewCtx

ReadBase(w) ==
  /\ pc[w] = "read"
  /\ \/ /\ Loaded(conn[w]) # NoCtx
        /\ TakeBase(w, Loaded(conn[w]))
        /\ UNCHANGED <<mem, redis, client>>
     \/ /\ Loaded(conn[w]) = NoCtx
        /\ Live(mem[w])
        /\ TakeBase(w, mem[w])
        /\ UNCHANGED <<mem, redis, client>>
     \/ /\ Loaded(conn[w]) = NoCtx
        /\ mem[w] # NoCtx /\ Expired(mem[w])
        /\ \E ok \in BOOLEAN : Connect(w, ok) /\ DropExpired(w, ok)
        /\ TakeBase(w, BaseIfAbsent(upd[w]))
     \/ /\ Loaded(conn[w]) = NoCtx
        /\ mem[w] = NoCtx
        /\ TakeBase(w, BaseIfAbsent(upd[w]))
        /\ UNCHANGED <<mem, redis, client>>
  /\ UNCHANGED <<clock, up, lock, upd, conn, held, born, sent, written>>

(* mutate_fn, stamp updated_at, keep in memory, save to Redis if it answers. *)
Save(w) ==
  /\ pc[w] = "save"
  /\ mem' = [mem EXCEPT ![w] = [Mutate(upd[w], base[w]) EXCEPT !.at = clock]]
  /\ \E ok \in BOOLEAN :
       /\ Connect(w, ok)
       /\ redis' = IF ok /\ up THEN mem'[w] ELSE redis
       /\ written' = IF ok /\ up /\ upd[w].kind = "add_message"
                     THEN written \union {upd[w].msg} ELSE written
  /\ pc' = [pc EXCEPT ![w] = "release"]
  /\ base' = [base EXCEPT ![w] = NoCtx]
  /\ UNCHANGED <<clock, up, lock, upd, conn, held, born, sent>>

\* Mutant: the release deletes the key whoever holds it
ReleaseUnguarded(w) ==
  /\ pc[w] = "release"
  /\ lock' = IF held[w] THEN (IF up THEN NoLock ELSE Orphan) ELSE lock
  /\ pc' = [pc EXCEPT ![w] = "idle"]
  /\ upd' = [upd EXCEPT ![w] = NoUpdate]
  /\ conn' = [conn EXCEPT ![w] = FALSE]
  /\ held' = [held EXCEPT ![w] = FALSE]
  /\ UNCHANGED <<clock, up, redis, client, mem, base, born, sent, written>>

\* Mutant: the early return of a missing conversation skips the release
ReleaseForgotten(w) ==
  /\ pc[w] = "release"
  /\ pc' = [pc EXCEPT ![w] = "idle"]
  /\ upd' = [upd EXCEPT ![w] = NoUpdate]
  /\ conn' = [conn EXCEPT ![w] = FALSE]
  /\ held' = [held EXCEPT ![w] = FALSE]
  /\ UNCHANGED <<clock, up, redis, lock, client, mem, base, born, sent, written>>

\* Mutant: an update that lost its lock on the way is tried again
ReleaseOrRetry(w) ==
  /\ pc[w] = "release"
  /\ lock' = IF held[w] /\ lock = w THEN (IF up THEN NoLock ELSE Orphan) ELSE lock
  /\ pc' = [pc EXCEPT ![w] = IF held[w] /\ lock # w THEN "lock" ELSE "idle"]
  /\ upd' = [upd EXCEPT ![w] = IF held[w] /\ lock # w THEN @ ELSE NoUpdate]
  /\ conn' = [conn EXCEPT ![w] = held[w] /\ lock # w]
  /\ held' = [held EXCEPT ![w] = FALSE]
  /\ UNCHANGED <<clock, up, redis, client, mem, base, born, sent, written>>

(* The token-guarded release; if the command fails the key stays behind.    *)
Release(w) ==
  /\ pc[w] = "release"
  /\ lock' = IF held[w] /\ lock = w THEN (IF up THEN NoLock ELSE Orphan) ELSE lock
  /\ pc' = [pc EXCEPT ![w] = "idle"]
  /\ upd' = [upd EXCEPT ![w] = NoUpdate]
  /\ conn' = [conn EXCEPT ![w] = FALSE]
  /\ held' = [held EXCEPT ![w] = FALSE]
  /\ UNCHANGED <<clock, up, redis, client, mem, base, born, sent, written>>

-----------------------------------------------------------------------------
(* The environment.  Time that matters to a conversation passes between     *)
(* operations; SETEX's own expiry takes the blob with it.                   *)
Tick ==
  /\ clock < MaxClock
  /\ \A w \in Worker : pc[w] = "idle"
  /\ clock' = clock + 1
  /\ redis' = IF redis # NoCtx /\ clock' > redis.at + MaxAge THEN NoCtx ELSE redis
  /\ UNCHANGED <<up, lock, client, mem, local, born, sent, written>>

(* The lock's own time to live passes: nobody is left to release it, or its *)
(* holder is slow.                                                          *)
LockExpires ==
  /\ lock = Orphan \/ (lock # NoLock /\ "slow" \in Faults)
  /\ lock' = NoLock
  /\ UNCHANGED <<clock, up, redis, client, mem, local, born, sent, written>>

RedisFails ==
  /\ "outage" \in Faults
  /\ up
  /\ up' = FALSE
  /\ UNCHANGED <<clock, redis, lock, client, mem, local, born, sent, written>>

RedisRecovers ==
  /\ ~up
  /\ up' = TRUE
  /\ UNCHANGED <<clock, redis, lock, client, mem, local, born, sent, written>>

(* A worker dies and is started again, with nothing in memory.              *)
Crash(w) ==
  /\ "crash" \in Faults
  /\ mem' = [mem EXCEPT ![w] = NoCtx]
  /\ client' = [client EXCEPT ![w] = "never"]
  /\ lock' = IF lock = w THEN Orphan ELSE lock
  /\ pc' = [pc EXCEPT ![w] = "idle"]
  /\ upd' = [upd EXCEPT ![w] = NoUpdate]
  /\ conn' = [conn EXCEPT ![w] = FALSE]
  /\ held' = [held EXCEPT ![w] = FALSE]
  /\ base' = [base EXCEPT ![w] = NoCtx]
  /\ UNCHANGED <<clock, up, redis, born, sent, written>>

-----------------------------------------------------------------------------
\* The rest of an operation that has begun
Proceed(w) ==
  \/ ContinueUpdate(w)
  \/ AcquireLock(w)
  \/ GoOnWithoutLock(w)
  \/ ReadBase(w)
  \/ Save(w)
  \/ Release(w)

Environment ==
  \/ Tick
  \/ LockExpires
  \/ RedisFails
  \/ RedisRecovers
  \/ \E w \in Worker : Crash(w)

Request(w) ==
  \/ Get(w)
  \/ GetConversationState(w)
  \/ RefreshFromRedis(w)
  \/ Cleanup(w)
  \/ \E v \in OwnerKeys \union {None} : CreateConversation(w, v) \/ GetOrCreate(w, v)
  \/ \E u \in Updates : BeginUpdate(w, u)

Next == Environment \/ \E w \in Worker : Request(w) \/ Proceed(w)

Spec == Init /\ [][Next]_vars

(* A begun operation runs on: it is straight-line code, its lock wait is    *)
(* bounded and every Redis command has a socket timeout.                    *)
Fairness == \A w \in Worker : WF_vars(Proceed(w))
-----------------------------------------------------------------------------
(* Properties.                                                              *)

Copies == ({redis} \union {mem[w] : w \in Worker} \union {base[w] : w \in Worker}) \ {NoCtx}

\* The two kinds of pending clarification exclude each other in every copy of
\* the conversation, whatever Redis, the lock and the workers go through: the
\* "mutual exclusion" of the setters at conversation.py:623-659.
PendingExclusive == \A c \in Copies : ~(c.ind /\ c.sem)

SentBefore(m, n) ==
  \E w \in Worker : \E i, j \in DOMAIN sent[w] : i < j /\ sent[w][i] = m /\ sent[w][j] = n

\* No copy holds a message twice, or two messages of one worker in the reverse
\* of the order they were added in, even when updates fall back to stale bases.
MessagesInOrder ==
  \A c \in Copies : \A i, j \in DOMAIN c.msgs :
    i < j => c.msgs[i] # c.msgs[j] /\ ~SentBefore(c.msgs[j], c.msgs[i])

InSection(w) == pc[w] \in {"read", "save", "release"}

\* A worker's token in the lock key means that this worker is inside the locked
\* section and knows that it has the lock: nobody waits for a token that its
\* owner has forgotten (those are Orphan, and expire).
TokenHasOwner == \A w \in Worker : lock = w => InSection(w) /\ held[w]

\* The Lua release of conversation.py:133-136: a worker's step never takes
\* another worker's token out of the lock key.
ReleaseOnlyOwn ==
  [][\A w, x \in Worker :
       (lock = w /\ lock' # w /\ w # x) => (pc'[x] = pc[x] /\ held'[x] = held[x])]_vars

\* With Redis healthy, no two workers are inside the locked section.
SectionsExclusive ==
  Faults = {} => \A w, x \in Worker : InSection(w) /\ InSection(x) => w = x

\* With Redis healthy and the conversation alive, an update is applied to what
\* Redis holds at the moment of the save, not to something overwritten since.
FreshBase ==
  (Faults = {} /\ MaxClock <= MaxAge) =>
    \A w \in Worker : pc[w] = "save" =>
      \/ redis # NoCtx /\ base[w] = redis
      \/ redis = NoCtx /\ ~RequiresExisting(upd[w]) /\ base[w].msgs = <<>>

\* conversation.py:375: "Use last activity time so active conversations do not
\* expire mid-session": a blob disappears only when its own last update is older
\* than MAX_AGE.
ActiveConversationKept ==
  [][redis # NoCtx /\ redis' = NoCtx => clock' > redis.at + MaxAge]_vars

\* Every operation that enters the locked update leaves it, whatever lock was
\* left behind and whatever Redis does.
UpdatesEnd == \A w \in Worker : pc[w] # "idle" ~> pc[w] = "idle"

\* The conversation that the clients see in context c
AsConv(c) ==
  IF c = NoCtx THEN NoCtx
  ELSE [msgs |-> c.msgs, intent |-> c.intent, state |-> c.state, owner |-> c.owner,
        pending |-> IF c.ind THEN "indicator" ELSE IF c.sem THEN "semantic" ELSE "nothing"]

Register == INSTANCE ConversationRegister
              WITH NoConv <- NoCtx, conv <- AsConv(redis), appended <- written

\* With Redis healthy and the conversation alive, all workers together are one
\* atomic conversation: no update is lost, merged wrongly or applied twice.
AtomicConversation == Register!Spec
=============================================================================
