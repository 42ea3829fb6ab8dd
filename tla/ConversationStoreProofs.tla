------------------------ MODULE ConversationStoreProofs ------------------------
(***************************************************************************)
(* What TLAPS proves of ConversationStore for any number of workers,       *)
(* messages and values, and whatever faults the environment shows.         *)
(***************************************************************************)
EXTENDS ConversationStore, TLAPS

-----------------------------------------------------------------------------
(* Contexts and updates.                                                    *)

\* Truncation keeps a list of messages a list of messages
LEMMA LastKeptType == ASSUME NEW s \in Seq(Msg) PROVE LastKept(s) \in Seq(Msg)
<1>1. CASE Len(s) > MaxMessages
  <2>1. s # <<>>
    BY <1>1, StoreAssumption
  <2>2. QED
    BY <1>1, <2>1 DEF LastKept
<1>2. QED
  BY <1>1 DEF LastKept

\* mutate_fn yields a context
LEMMA MutateType ==
  ASSUME NEW u \in Update, NEW c \in Ctx, NEW t \in Nat
  PROVE  [Mutate(u, c) EXCEPT !.at = t] \in Ctx
<1>1. u.kind = "add_message" => LastKept(Append(c.msgs, u.msg)) \in Seq(Msg)
  <2>1. c.msgs \in Seq(Msg)
    BY DEF Ctx
  <2>2. ASSUME u.kind = "add_message" PROVE Append(c.msgs, u.msg) \in Seq(Msg)
    BY <2>1, <2>2 DEF Update
  <2>3. QED
    BY <2>2, LastKeptType
<1>2. u.val \in Val
  BY DEF Update
<1>3. QED
  BY <1>1, <1>2, ZenonT(40) DEF Mutate, Ctx

\* A fresh context is a context
LEMMA NewCtxType == clock \in Nat => NewCtx \in Ctx
  BY DEF NewCtx, Ctx, Val

\* The two kinds of pending clarification exclude each other after an update if
\* they did before it
LEMMA MutateExclusive ==
  ASSUME NEW u \in Update, NEW c \in Ctx, ~(c.ind /\ c.sem), NEW t \in Nat,
         NEW d, d = [Mutate(u, c) EXCEPT !.at = t]
  PROVE  ~(d.ind /\ d.sem)
<1>1. /\ d.ind = (u.kind = "set_pending_indicator_options" \/ (c.ind /\ KeepsIndicator(u)))
      /\ d.sem = (u.kind = "set_pending_semantic_clarification" \/ (c.sem /\ KeepsSemantic(u)))
  BY DEF Mutate, Ctx
<1>2. QED
  BY <1>1 DEF KeepsIndicator, KeepsSemantic

-----------------------------------------------------------------------------
(* Type correctness.                                                        *)

\* The steps of the Redis helpers keep the types
LEMMA HelperTypes ==
  ASSUME TypeOK, NEW w \in Worker, NEW ok \in BOOLEAN
  PROVE  /\ Connect(w, ok) => client' \in [Worker -> {"never", "failed", "ok"}]
         /\ Loaded(ok) \in Ctx \union {NoCtx}
         /\ Deleted(ok) \in Ctx \union {NoCtx}
         /\ DropExpired(w, ok) => /\ mem' \in [Worker -> Ctx \union {NoCtx}]
                                  /\ redis' \in Ctx \union {NoCtx}
         /\ GetLocked(w, ok) => /\ client' \in [Worker -> {"never", "failed", "ok"}]
                                /\ mem' \in [Worker -> Ctx \union {NoCtx}]
                                /\ redis' \in Ctx \union {NoCtx}
<1>1. Connect(w, ok) => client' \in [Worker -> {"never", "failed", "ok"}]
  BY DEF Connect, TypeOK
<1>2. Loaded(ok) \in Ctx \union {NoCtx} /\ Deleted(ok) \in Ctx \union {NoCtx}
  BY DEF Loaded, Deleted, TypeOK
<1>3. DropExpired(w, ok) => /\ mem' \in [Worker -> Ctx \union {NoCtx}]
                            /\ redis' \in Ctx \union {NoCtx}
  BY <1>2 DEF DropExpired, TypeOK
<1>4. GetLocked(w, ok) => /\ client' \in [Worker -> {"never", "failed", "ok"}]
                          /\ mem' \in [Worker -> Ctx \union {NoCtx}]
                          /\ redis' \in Ctx \union {NoCtx}
  BY <1>1, <1>2, <1>3 DEF GetLocked, TypeOK
<1>5. QED
  BY <1>1, <1>2, <1>3, <1>4
\* Every variable keeps its type in every step
LEMMA TypeStep == TypeOK /\ [Next]_vars => TypeOK'
<1> SUFFICES ASSUME TypeOK, [Next]_vars PROVE TypeOK'
  OBVIOUS
<1> USE StoreAssumption
<1>0. clock \in Nat
  BY DEF TypeOK
<1>1. ASSUME NEW w \in Worker, Get(w) PROVE TypeOK'
  BY <1>1, HelperTypes DEF Get, TypeOK, local
<1>2. ASSUME NEW w \in Worker, GetConversationState(w) PROVE TypeOK'
  <2> PICK ok \in BOOLEAN : /\ Connect(w, ok)
                            /\ Loaded(ok) # NoCtx
                            /\ mem' = [mem EXCEPT ![w].state = Loaded(ok).state]
    BY <1>2 DEF GetConversationState
  <2>1. Loaded(ok) \in Ctx /\ mem[w] \in Ctx
    BY <1>2, HelperTypes DEF GetConversationState, Live, TypeOK
  <2>2. [mem[w] EXCEPT !.state = Loaded(ok).state] \in Ctx
    BY <2>1 DEF Ctx
  <2>3. mem' \in [Worker -> Ctx \union {NoCtx}]
    BY <2>2 DEF TypeOK
  <2>4. QED
    BY <1>2, <2>3, HelperTypes DEF GetConversationState, TypeOK, local
<1>3. ASSUME NEW w \in Worker, RefreshFromRedis(w) PROVE TypeOK'
  BY <1>3, HelperTypes DEF RefreshFromRedis, TypeOK, local
<1>4. ASSUME NEW w \in Worker, Cleanup(w) PROVE TypeOK'
  BY <1>4, HelperTypes DEF Cleanup, TypeOK, local
<1>5. ASSUME NEW w \in Worker, NEW v \in Val, CreateConversation(w, v) PROVE TypeOK'
  <2>1. [NewCtx EXCEPT !.owner = v] \in Ctx
    BY <1>0, NewCtxType DEF Ctx
  <2>2. mem' \in [Worker -> Ctx \union {NoCtx}] /\ mem'[w] \in Ctx
    BY <1>5, <2>1 DEF CreateConversation, TypeOK
  <2>3. QED
    BY <1>5, <2>2, HelperTypes DEF CreateConversation, TypeOK, local
<1>6. ASSUME NEW w \in Worker, NEW v \in Val, GetOrCreate(w, v) PROVE TypeOK'
  <2>1. ASSUME NEW kind \in {"stamp_owner", "bind_owner"}, Pending(w, kind, v)
        PROVE  /\ pc' \in [Worker -> Pcs]
               /\ upd' \in [Worker -> Update \union {NoUpdate}]
    <3>1. [kind |-> kind, msg |-> None, val |-> v] \in Update
      BY DEF Update, AllKinds
    <3>2. QED
      BY <2>1, <3>1 DEF Pending, TypeOK, Pcs
  <2>2. /\ pc' \in [Worker -> Pcs]
        /\ upd' \in [Worker -> Update \union {NoUpdate}]
    BY <1>6, <2>1 DEF GetOrCreate, TypeOK
  <2>3. ASSUME NEW x \in Worker
        PROVE  /\ pc'[x] \in {"start", "lock", "read", "save"} => upd'[x] \in Update
               /\ pc'[x] = "save" => base[x] \in Ctx
    <3>1. ASSUME NEW kind \in {"stamp_owner", "bind_owner"}, Pending(w, kind, v)
          PROVE  /\ pc'[x] \in {"start", "lock", "read", "save"} => upd'[x] \in Update
                 /\ pc'[x] = "save" => base[x] \in Ctx
      <4>1. [kind |-> kind, msg |-> None, val |-> v] \in Update
        BY DEF Update, AllKinds
      <4>2. QED
        BY <3>1, <4>1 DEF Pending, TypeOK
    <3>2. CASE UNCHANGED <<pc, upd>>
      BY <3>2 DEF TypeOK
    <3>3. QED
      BY <1>6, <3>1, <3>2 DEF GetOrCreate
  <2>4. QED
    BY <1>6, <2>2, <2>3, HelperTypes DEF GetOrCreate, TypeOK
<1>7. ASSUME NEW w \in Worker, NEW u \in Updates, BeginUpdate(w, u) PROVE TypeOK'
  <2>1. u \in Update
    BY DEF Updates
  <2>2. sent' \in [Worker -> Seq(Msg)]
    BY <1>7, <2>1 DEF BeginUpdate, TypeOK, Update
  <2>3. QED
    BY <1>7, <2>1, <2>2, HelperTypes DEF BeginUpdate, Enter, TypeOK, Pcs
<1>8. ASSUME NEW w \in Worker, ContinueUpdate(w) PROVE TypeOK'
  BY <1>8, HelperTypes DEF ContinueUpdate, Enter, TypeOK, Pcs
<1>9. ASSUME NEW w \in Worker, AcquireLock(w) PROVE TypeOK'
  BY <1>9 DEF AcquireLock, TypeOK, Pcs
<1>10. ASSUME NEW w \in Worker, GoOnWithoutLock(w) PROVE TypeOK'
  BY <1>10 DEF GoOnWithoutLock, TypeOK, Pcs
<1>11. ASSUME NEW w \in Worker, ReadBase(w) PROVE TypeOK'
  <2>0. upd[w] \in Update /\ pc[w] = "read"
    BY <1>11 DEF ReadBase, TypeOK
  <2>1. PICK b \in Ctx \union {NoCtx} : TakeBase(w, b)
    <3>1. Loaded(conn[w]) \in Ctx \union {NoCtx} /\ NewCtx \in Ctx
      BY <1>0, HelperTypes, NewCtxType DEF TypeOK
    <3>2. mem[w] \in Ctx \union {NoCtx} /\ BaseIfAbsent(upd[w]) \in Ctx \union {NoCtx}
      BY <3>1 DEF BaseIfAbsent, TypeOK
    <3>3. QED
      BY <1>11, <3>1, <3>2 DEF ReadBase
  <2>2. base' \in [Worker -> Ctx \union {NoCtx}] /\ pc' \in [Worker -> Pcs]
    BY <2>1 DEF TakeBase, TypeOK, Pcs
  <2>5. ASSUME NEW x \in Worker
        PROVE  /\ pc'[x] \in {"start", "lock", "read", "save"} => upd[x] \in Update
               /\ pc'[x] = "save" => base'[x] \in Ctx
    BY <2>0, <2>1 DEF TakeBase, TypeOK
  <2>3. /\ client' \in [Worker -> {"never", "failed", "ok"}]
        /\ mem' \in [Worker -> Ctx \union {NoCtx}]
        /\ redis' \in Ctx \union {NoCtx}
    BY <1>11, HelperTypes DEF ReadBase, TypeOK
  <2>4. QED
    BY <1>11, <2>2, <2>3, <2>5 DEF ReadBase, TypeOK
<1>12. ASSUME NEW w \in Worker, Save(w) PROVE TypeOK'
  <2>0. upd[w] \in Update /\ base[w] \in Ctx
    BY <1>12 DEF Save, TypeOK
  <2>1. [Mutate(upd[w], base[w]) EXCEPT !.at = clock] \in Ctx
    BY <1>0, <2>0, MutateType, Zenon
  <2>2. mem' \in [Worker -> Ctx \union {NoCtx}] /\ mem'[w] \in Ctx
    BY <1>12, <2>1 DEF Save, TypeOK
  <2>3. written' \in SUBSET Msg
    <3>1. upd[w].kind = "add_message" => upd[w].msg \in Msg
      BY <2>0 DEF Update
    <3>2. QED
      BY <1>12, <3>1 DEF Save, TypeOK
  <2>4. client' \in [Worker -> {"never", "failed", "ok"}] /\ redis' \in Ctx \union {NoCtx}
    BY <1>12, <2>2, HelperTypes DEF Save, TypeOK
  <2>5. ASSUME NEW x \in Worker
        PROVE  /\ pc'[x] \in {"start", "lock", "read", "save"} => upd[x] \in Update
               /\ pc'[x] = "save" => base'[x] \in Ctx
    BY <1>12 DEF Save, TypeOK
  <2>6. QED
    BY <1>12, <2>2, <2>3, <2>4, <2>5 DEF Save, TypeOK, Pcs
<1>13. ASSUME NEW w \in Worker, Release(w) PROVE TypeOK'
  BY <1>13 DEF Release, TypeOK, Pcs
<1>14. CASE Tick
  BY <1>14 DEF Tick, TypeOK, local
<1>15. CASE LockExpires \/ RedisFails \/ RedisRecovers
  BY <1>15 DEF LockExpires, RedisFails, RedisRecovers, TypeOK, local
<1>16. ASSUME NEW w \in Worker, Crash(w) PROVE TypeOK'
  BY <1>16 DEF Crash, TypeOK, Pcs
<1>17. CASE UNCHANGED vars
  BY <1>17 DEF vars, TypeOK, local
<1>18. QED
  BY <1>1, <1>2, <1>3, <1>4, <1>5, <1>6, <1>7, <1>8, <1>9, <1>10, <1>11, <1>12, <1>13,
     <1>14, <1>15, <1>16, <1>17 DEF Next, Environment, Request, Proceed, Val

\* In every behaviour of the store, the shared blob, the lock key, each worker's
\* dictionary and the locals of its update in flight have their types; an update
\* that reaches its save has a context to mutate.
THEOREM TypeCorrect == Spec => []TypeOK
<1>1. Init => TypeOK
  <2> SUFFICES ASSUME Init PROVE TypeOK
    OBVIOUS
  <2>1. sent \in [Worker -> Seq(Msg)]
    <3>1. <<>> \in Seq(Msg)
      OBVIOUS
    <3>2. QED
      BY <3>1 DEF Init
  <2>2. \A w \in Worker : pc[w] = "idle"
    BY DEF Init
  <2>3. clock \in 0..MaxClock
    BY StoreAssumption DEF Init
  <2>4. QED
    BY <2>1, <2>2, <2>3 DEF Init, TypeOK, Pcs
<1>2. QED
  BY <1>1, TypeStep, PTL DEF Spec
-----------------------------------------------------------------------------
(* The pending clarifications exclude each other.                           *)

OneKind(c) == c # NoCtx => ~(c.ind /\ c.sem)

\* PendingExclusive, copy by copy
LEMMA PendingByCopy ==
  PendingExclusive <=> OneKind(redis) /\ \A w \in Worker : OneKind(mem[w]) /\ OneKind(base[w])
  BY DEF PendingExclusive, Copies, OneKind

\* No step of any worker makes both kinds pending in a copy
LEMMA PendingStep == TypeOK /\ PendingExclusive /\ [Next]_vars => PendingExclusive'
<1> SUFFICES ASSUME TypeOK, OneKind(redis), [Next]_vars,
                    \A w \in Worker : OneKind(mem[w]) /\ OneKind(base[w])
             PROVE  OneKind(redis') /\ \A w \in Worker : OneKind(mem'[w]) /\ OneKind(base'[w])
  <2>1. PendingExclusive' <=>
          OneKind(redis') /\ \A w \in Worker : OneKind(mem'[w]) /\ OneKind(base'[w])
    BY DEF PendingExclusive, Copies, OneKind
  <2>2. QED
    BY <2>1, PendingByCopy
<1> DEFINE Goal == OneKind(redis') /\ \A w \in Worker : OneKind(mem'[w]) /\ OneKind(base'[w])
<1>a. ASSUME NEW w \in Worker, NEW ok \in BOOLEAN, DropExpired(w, ok)
      PROVE  OneKind(redis') /\ \A x \in Worker : OneKind(mem'[x])
  BY <1>a DEF DropExpired, Deleted, OneKind, TypeOK
<1>b. ASSUME NEW ok PROVE OneKind(Loaded(ok))
  BY DEF Loaded, OneKind
<1>c. ASSUME NEW w \in Worker, NEW ok \in BOOLEAN, GetLocked(w, ok)
      PROVE  OneKind(redis') /\ \A x \in Worker : OneKind(mem'[x])
  BY <1>a, <1>b, <1>c DEF GetLocked, TypeOK
<1>d. OneKind(NewCtx)
  BY DEF OneKind, NewCtx
<1>1. ASSUME NEW w \in Worker, Get(w) PROVE Goal
  BY <1>1, <1>c DEF Get, local
<1>2. ASSUME NEW w \in Worker, GetConversationState(w) PROVE Goal
  <2> PICK ok \in BOOLEAN : mem' = [mem EXCEPT ![w].state = Loaded(ok).state]
    BY <1>2 DEF GetConversationState
  <2>1. mem[w] \in Ctx /\ OneKind(mem[w])
    BY <1>2 DEF GetConversationState, Live, TypeOK
  <2>2. OneKind([mem[w] EXCEPT !.state = Loaded(ok).state])
    <3>1. mem[w] # NoCtx
      BY <1>2 DEF GetConversationState, Live
    <3>2. QED
      BY <2>1, <3>1 DEF OneKind, Ctx
  <2>3. QED
    BY <1>2, <2>2 DEF GetConversationState, local, TypeOK
<1>3. ASSUME NEW w \in Worker, RefreshFromRedis(w) PROVE Goal
  BY <1>3, <1>b DEF RefreshFromRedis, local, TypeOK
<1>4. ASSUME NEW w \in Worker, Cleanup(w) PROVE Goal
  BY <1>4, <1>a DEF Cleanup, local
<1>5. ASSUME NEW w \in Worker, NEW v \in Val, CreateConversation(w, v) PROVE Goal
  <2>1. OneKind([NewCtx EXCEPT !.owner = v])
    BY DEF OneKind, NewCtx
  <2>2. QED
    BY <1>5, <2>1 DEF CreateConversation, local, TypeOK
<1>6. ASSUME NEW w \in Worker, NEW v \in Val, GetOrCreate(w, v) PROVE Goal
  BY <1>6, <1>c DEF GetOrCreate
<1>7. ASSUME NEW w \in Worker, ReadBase(w) PROVE Goal
  <2>1. OneKind(BaseIfAbsent(upd[w]))
    BY <1>d DEF BaseIfAbsent, OneKind
  <2>2. PICK b : OneKind(b) /\ TakeBase(w, b)
    BY <1>7, <1>b, <2>1 DEF ReadBase
  <2>3. \A x \in Worker : OneKind(base'[x])
    BY <2>2 DEF TakeBase, TypeOK
  <2>4. QED
    BY <1>7, <1>a, <2>3 DEF ReadBase
<1>8. ASSUME NEW w \in Worker, Save(w) PROVE Goal
  <2> DEFINE d == [Mutate(upd[w], base[w]) EXCEPT !.at = clock]
  <2>1. upd[w] \in Update /\ base[w] \in Ctx /\ clock \in Nat
    BY <1>8, StoreAssumption DEF Save, TypeOK
  <2>2. OneKind(d)
    <3>1. ~(base[w].ind /\ base[w].sem)
      BY <2>1, NoCtxAssumption DEF OneKind
    <3>2. ~(d.ind /\ d.sem)
      BY <2>1, <3>1, MutateExclusive
    <3>3. QED
      BY <3>2 DEF OneKind
  <2>3. QED
    BY <1>8, <2>2 DEF Save, TypeOK, OneKind
<1>9. ASSUME NEW w \in Worker, Crash(w) PROVE Goal
  BY <1>9 DEF Crash, OneKind, TypeOK
<1>10. CASE Tick
  BY <1>10 DEF Tick, local, OneKind
<1>11. ASSUME NEW w \in Worker,
              \/ \E u \in Updates : BeginUpdate(w, u)
              \/ ContinueUpdate(w)
              \/ AcquireLock(w)
              \/ GoOnWithoutLock(w)
              \/ Release(w)
       PROVE  Goal
  BY <1>11 DEF BeginUpdate, ContinueUpdate, AcquireLock, GoOnWithoutLock, Release
<1>12. CASE LockExpires \/ RedisFails \/ RedisRecovers \/ UNCHANGED vars
  BY <1>12 DEF LockExpires, RedisFails, RedisRecovers, vars, local
<1>13. QED
  BY <1>1, <1>2, <1>3, <1>4, <1>5, <1>6, <1>7, <1>8, <1>9, <1>10, <1>11, <1>12,
     StoreAssumption DEF Next, Environment, Request, Proceed, Val

\* Whatever fails, no worker and no blob ever has both kinds of clarification
\* pending, for any number of workers.
THEOREM PendingNeverBoth == Spec => []PendingExclusive
<1>1. Init => PendingExclusive
  BY DEF Init, PendingExclusive, Copies
<1>2. QED
  BY <1>1, TypeCorrect, PendingStep, PTL DEF Spec

-----------------------------------------------------------------------------
(* The lock key.                                                            *)

\* No step leaves a worker's token behind without its worker
LEMMA TokenStep == TypeOK /\ TokenHasOwner /\ [Next]_vars => TokenHasOwner'
<1> SUFFICES ASSUME TypeOK, TokenHasOwner, [Next]_vars PROVE TokenHasOwner'
  OBVIOUS
<1> USE StoreAssumption DEF TokenHasOwner, InSection, TypeOK
<1>1. ASSUME NEW w \in Worker, NEW v \in Val, GetOrCreate(w, v) PROVE TokenHasOwner'
  BY <1>1 DEF GetOrCreate, Pending
<1>2. ASSUME NEW w \in Worker, NEW u \in Updates, BeginUpdate(w, u) PROVE TokenHasOwner'
  BY <1>2 DEF BeginUpdate, Enter
<1>3. ASSUME NEW w \in Worker, ContinueUpdate(w) PROVE TokenHasOwner'
  BY <1>3 DEF ContinueUpdate, Enter
<1>4. ASSUME NEW w \in Worker, AcquireLock(w) PROVE TokenHasOwner'
  BY <1>4 DEF AcquireLock
<1>5. ASSUME NEW w \in Worker, GoOnWithoutLock(w) PROVE TokenHasOwner'
  BY <1>5 DEF GoOnWithoutLock
<1>6. ASSUME NEW w \in Worker, ReadBase(w) PROVE TokenHasOwner'
  <2>1. PICK b : TakeBase(w, b)
    BY <1>6 DEF ReadBase
  <2>2. QED
    BY <1>6, <2>1 DEF ReadBase, TakeBase
<1>7. ASSUME NEW w \in Worker, Save(w) PROVE TokenHasOwner'
  BY <1>7 DEF Save
<1>8. ASSUME NEW w \in Worker, Release(w) PROVE TokenHasOwner'
  BY <1>8 DEF Release
<1>9. ASSUME NEW w \in Worker, Crash(w) PROVE TokenHasOwner'
  BY <1>9 DEF Crash
<1>10. CASE Tick \/ LockExpires \/ RedisFails \/ RedisRecovers \/ UNCHANGED vars
  BY <1>10 DEF Tick, LockExpires, RedisFails, RedisRecovers, vars, local
<1>11. ASSUME NEW w \in Worker,
              \/ Get(w) \/ GetConversationState(w) \/ RefreshFromRedis(w) \/ Cleanup(w)
              \/ \E v \in Val : CreateConversation(w, v)
       PROVE  TokenHasOwner'
  BY <1>11 DEF Get, GetConversationState, RefreshFromRedis, Cleanup, CreateConversation, local
<1>12. QED
  BY <1>1, <1>2, <1>3, <1>4, <1>5, <1>6, <1>7, <1>8, <1>9, <1>10, <1>11
     DEF Next, Environment, Request, Proceed, Val

\* A worker's token is in the lock key only while that worker is in its locked
\* section, so that a token nobody will release is always one that expires.
THEOREM TokenAlwaysOwned == Spec => []TokenHasOwner
<1>1. Init => TokenHasOwner
  BY StoreAssumption DEF Init, TokenHasOwner
<1>2. QED
  BY <1>1, TypeCorrect, TokenStep, PTL DEF Spec

\* Only a worker's own release, its crash or the key's expiry takes its token out of
\* the lock key: no step of another worker does.
LEMMA ReleaseStep ==
  ASSUME TypeOK, [Next]_vars, NEW w \in Worker, NEW x \in Worker,
         lock = w, lock' # w, w # x
  PROVE  pc'[x] = pc[x] /\ held'[x] = held[x]
<1>a. pc \in [Worker -> Pcs] /\ held \in [Worker -> BOOLEAN]
  BY DEF TypeOK
<1>1. ASSUME NEW y \in Worker, Release(y) PROVE pc'[x] = pc[x] /\ held'[x] = held[x]
  <2>1. y = w
    BY <1>1, Zenon DEF Release
  <2>2. pc' = [pc EXCEPT ![w] = "idle"] /\ held' = [held EXCEPT ![w] = FALSE]
    BY <1>1, <2>1 DEF Release
  <2>3. QED
    BY <1>a, <2>2
<1>2. ASSUME NEW y \in Worker, Crash(y) PROVE pc'[x] = pc[x] /\ held'[x] = held[x]
  <2>1. y = w
    BY <1>2, Zenon DEF Crash
  <2>2. pc' = [pc EXCEPT ![w] = "idle"] /\ held' = [held EXCEPT ![w] = FALSE]
    BY <1>2, <2>1 DEF Crash
  <2>3. QED
    BY <1>a, <2>2
<1>3. CASE LockExpires
  BY <1>3 DEF LockExpires, local
<1>4. ASSUME NEW y \in Worker, ReadBase(y) PROVE lock' = lock
  BY <1>4 DEF ReadBase
<1>5. ASSUME NEW y \in Worker,
             \/ ContinueUpdate(y) \/ GoOnWithoutLock(y) \/ Save(y)
             \/ \E u \in Updates : BeginUpdate(y, u)
             \/ \E v \in Val : GetOrCreate(y, v)
      PROVE  lock' = lock
  BY <1>5 DEF ContinueUpdate, GoOnWithoutLock, Save, BeginUpdate, GetOrCreate
<1>6. ASSUME NEW y \in Worker,
             \/ Get(y) \/ GetConversationState(y) \/ RefreshFromRedis(y) \/ Cleanup(y)
             \/ \E v \in Val : CreateConversation(y, v)
      PROVE  lock' = lock
  BY <1>6 DEF Get, GetConversationState, RefreshFromRedis, Cleanup, CreateConversation
<1>7. CASE Tick \/ RedisFails \/ RedisRecovers \/ UNCHANGED vars
  BY <1>7 DEF Tick, RedisFails, RedisRecovers, vars
<1>8. ASSUME NEW y \in Worker, AcquireLock(y) PROVE FALSE
  BY <1>8, StoreAssumption DEF AcquireLock
<1>9. QED
  BY <1>1, <1>2, <1>3, <1>4, <1>5, <1>6, <1>7, <1>8,
     StoreAssumption DEF Next, Environment, Request, Proceed, Val

\* The token-guarded release never takes the lock of another worker, whoever lost
\* the lock on the way.
THEOREM ReleasesOnlyOwn == Spec => ReleaseOnlyOwn
<1>1. TypeOK /\ [Next]_vars =>
        \A w, x \in Worker : lock = w /\ lock' # w /\ w # x =>
          pc'[x] = pc[x] /\ held'[x] = held[x]
  BY ReleaseStep
<1>2. QED
  BY <1>1, TypeCorrect, PTL DEF Spec, ReleaseOnlyOwn
-----------------------------------------------------------------------------
(* Without faults, the lock excludes.                                       *)

\* While Redis answers and nobody is slow or dies, whoever is in the locked
\* section has the lock, and got there through a connection
Excluding ==
  /\ up
  /\ lock # Orphan
  /\ \A w \in Worker : /\ client[w] # "failed"
                       /\ pc[w] \in {"lock", "read", "save", "release"} => conn[w]
                       /\ InSection(w) => lock = w

\* No step lets a second worker into the locked section while Redis is healthy
LEMMA ExcludingStep ==
  ASSUME Faults = {}, TypeOK, Excluding, [Next]_vars
  PROVE  Excluding'
<1> USE StoreAssumption DEF Excluding, InSection, TypeOK
<1>a. ASSUME NEW w \in Worker, NEW ok \in BOOLEAN, Connect(w, ok)
      PROVE  ok /\ client' = [client EXCEPT ![w] = "ok"]
  BY <1>a DEF Connect
<1>b. ASSUME NEW w \in Worker, NEW ok \in BOOLEAN, GetLocked(w, ok)
      PROVE  \A x \in Worker : client'[x] # "failed"
  BY <1>b, <1>a DEF GetLocked
<1>1. ASSUME NEW w \in Worker, Get(w) PROVE Excluding'
  BY <1>1, <1>b DEF Get, local
<1>2. ASSUME NEW w \in Worker,
             GetConversationState(w) \/ RefreshFromRedis(w) \/ Cleanup(w)
      PROVE  Excluding'
  <2>1. CASE GetConversationState(w) \/ RefreshFromRedis(w)
    <3>1. PICK ok \in BOOLEAN : Connect(w, ok)
      BY <2>1 DEF GetConversationState, RefreshFromRedis
    <3>2. client' = [client EXCEPT ![w] = "ok"]
      BY <3>1, <1>a
    <3>3. QED
      BY <2>1, <3>2 DEF GetConversationState, RefreshFromRedis, local
  <2>2. CASE Cleanup(w)
    <3>1. PICK ok \in BOOLEAN : Connect(w, ok)
      BY <2>2 DEF Cleanup
    <3>2. client' = [client EXCEPT ![w] = "ok"]
      BY <3>1, <1>a
    <3>3. QED
      BY <2>2, <3>2 DEF Cleanup, local
  <2>3. QED
    BY <1>2, <2>1, <2>2
<1>3. ASSUME NEW w \in Worker, NEW v \in Val, CreateConversation(w, v) PROVE Excluding'
  BY <1>3, <1>a DEF CreateConversation, local
<1>4. ASSUME NEW w \in Worker, NEW v \in Val, GetOrCreate(w, v) PROVE Excluding'
  BY <1>4, <1>b DEF GetOrCreate, Pending
<1>5. ASSUME NEW w \in Worker, NEW u \in Updates, BeginUpdate(w, u) PROVE Excluding'
  BY <1>5, <1>a DEF BeginUpdate, Enter
<1>6. ASSUME NEW w \in Worker, ContinueUpdate(w) PROVE Excluding'
  BY <1>6, <1>a DEF ContinueUpdate, Enter
<1>7. ASSUME NEW w \in Worker, AcquireLock(w) PROVE Excluding'
  BY <1>7 DEF AcquireLock
<1>8. ASSUME NEW w \in Worker, GoOnWithoutLock(w) PROVE Excluding'
  BY <1>8 DEF GoOnWithoutLock
<1>9. ASSUME NEW w \in Worker, ReadBase(w) PROVE Excluding'
  <2>1. PICK b : TakeBase(w, b)
    BY <1>9 DEF ReadBase
  <2>2. \A x \in Worker : client'[x] # "failed"
    BY <1>9, <1>a DEF ReadBase
  <2>3. QED
    BY <1>9, <2>1, <2>2 DEF ReadBase, TakeBase
<1>10. ASSUME NEW w \in Worker, Save(w) PROVE Excluding'
  BY <1>10, <1>a DEF Save
<1>11. ASSUME NEW w \in Worker, Release(w) PROVE Excluding'
  BY <1>11 DEF Release
<1>12. ASSUME NEW w \in Worker, Crash(w) PROVE Excluding'
  BY <1>12 DEF Crash
<1>13. CASE Tick \/ LockExpires \/ RedisFails \/ RedisRecovers \/ UNCHANGED vars
  BY <1>13 DEF Tick, LockExpires, RedisFails, RedisRecovers, vars, local
<1>14. QED
  BY <1>1, <1>2, <1>3, <1>4, <1>5, <1>6, <1>7, <1>8, <1>9, <1>10, <1>11, <1>12, <1>13
     DEF Next, Environment, Request, Proceed, Val

\* So with Redis healthy the section's worker always holds the lock key
LEMMA ExcludingAlways == ASSUME Faults = {} PROVE Spec => []Excluding
<1>1. Init => Excluding
  BY StoreAssumption DEF Init, Excluding, InSection
<1>2. TypeOK /\ Excluding /\ [Next]_vars => Excluding'
  BY ExcludingStep
<1>3. QED
  BY <1>1, <1>2, TypeCorrect, PTL DEF Spec

\* With Redis healthy, the locked sections of any number of workers exclude each
\* other.
THEOREM SectionsAlwaysExclusive == Spec => []SectionsExclusive
<1>1. CASE Faults = {}
  <2>1. Excluding => SectionsExclusive
    BY DEF Excluding, SectionsExclusive
  <2>2. QED
    BY <1>1, <2>1, ExcludingAlways, PTL
<1>2. CASE Faults # {}
  <2>1. SectionsExclusive
    BY <1>2 DEF SectionsExclusive
  <2>2. QED
    BY <2>1, PTL
<1>3. QED
  BY <1>1, <1>2
-----------------------------------------------------------------------------
(* Without faults and within a conversation's time to live, an update is    *)
(* made on top of everything written before it.                             *)

Blank(c) == c = [msgs |-> <<>>, intent |-> None, state |-> None, owner |-> None,
                 ind |-> FALSE, sem |-> FALSE, at |-> c.at]

\* An id nobody has been given is unused; a worker remembers a conversation only
\* if Redis has it; the base of an update is what Redis holds, or blank
Fresh ==
  /\ ~born => redis = NoCtx /\ \A w \in Worker : pc[w] = "idle"
  /\ \A w \in Worker :
       /\ mem[w] # NoCtx => redis # NoCtx
       /\ pc[w] = "save" =>
            \/ redis # NoCtx /\ base[w] = redis
            \/ redis = NoCtx /\ ~RequiresExisting(upd[w]) /\ Blank(base[w])

\* Nothing has expired while the clock is within MaxAge
LEMMA NothingExpires ==
  ASSUME MaxClock <= MaxAge, TypeOK, NEW c \in Ctx
  PROVE  ~Expired(c)
  BY StoreAssumption DEF Expired, TypeOK, Ctx

\* No step changes the blob under a worker that has read its base from it
LEMMA FreshStep ==
  ASSUME Faults = {}, MaxClock <= MaxAge, TypeOK, TypeOK', Excluding, Fresh, [Next]_vars
  PROVE  Fresh'
<1> USE StoreAssumption, NoCtxAssumption
<1>a. ASSUME NEW w \in Worker, NEW ok \in BOOLEAN, Connect(w, ok) PROVE ok
  BY <1>a DEF Connect, Excluding
<1>b. \A w \in Worker : mem[w] # NoCtx => ~Expired(mem[w])
  BY NothingExpires DEF TypeOK
<1>c. Loaded(TRUE) = redis
  BY NothingExpires DEF Loaded, Excluding, TypeOK
<1>d. ASSUME NEW w \in Worker, NEW ok \in BOOLEAN, GetLocked(w, ok)
      PROVE  redis' = redis /\ mem' \in {mem, [mem EXCEPT ![w] = redis]}
  <2>1. CASE Live(mem[w])
    BY <1>b, <1>d, <2>1 DEF GetLocked, Live, TypeOK
  <2>2. CASE mem[w] = NoCtx
    BY <1>a, <1>c, <1>d, <2>2 DEF GetLocked, Live
  <2>3. QED
    BY <1>b, <2>1, <2>2 DEF Live
<1> USE DEF Fresh
<1>1. ASSUME NEW w \in Worker, Get(w) PROVE Fresh'
  <2>1. redis' = redis /\ mem' \in {mem, [mem EXCEPT ![w] = redis]}
    BY <1>1, <1>d DEF Get
  <2>2. QED
    BY <1>1, <2>1 DEF Get, local, TypeOK
<1>2. ASSUME NEW w \in Worker, GetConversationState(w) PROVE Fresh'
  <2>1. mem[w] # NoCtx
    BY <1>2 DEF GetConversationState, Live
  <2>2. PICK c : mem' = [mem EXCEPT ![w] = c]
    BY <1>2 DEF GetConversationState
  <2>3. QED
    BY <1>2, <2>1, <2>2 DEF GetConversationState, local, TypeOK
<1>3. ASSUME NEW w \in Worker, RefreshFromRedis(w) PROVE Fresh'
  <2>1. PICK ok \in BOOLEAN : Connect(w, ok) /\ mem' = [mem EXCEPT ![w] = Loaded(ok)]
                                             /\ Loaded(ok) # NoCtx
    BY <1>3 DEF RefreshFromRedis
  <2>2. mem' = [mem EXCEPT ![w] = redis] /\ redis # NoCtx
    BY <2>1, <1>a, <1>c
  <2>3. QED
    BY <1>3, <2>2 DEF RefreshFromRedis, local, TypeOK
<1>4. ASSUME NEW w \in Worker, Cleanup(w) PROVE Fresh'
  BY <1>4, <1>b DEF Cleanup
<1>5. ASSUME NEW w \in Worker, NEW v \in Val, CreateConversation(w, v) PROVE Fresh'
  <2>1. redis' = mem'[w] /\ mem'[w] \in Ctx
    <3>1. redis' = mem'[w]
      BY <1>5, <1>a DEF CreateConversation, Excluding
    <3>2. clock \in Nat
      BY DEF TypeOK
    <3>3. [NewCtx EXCEPT !.owner = v] \in Ctx
      BY <3>2, NewCtxType DEF Ctx
    <3>4. QED
      BY <1>5, <3>1, <3>3 DEF CreateConversation, TypeOK
  <2>2. QED
    BY <1>5, <2>1 DEF CreateConversation, local, TypeOK
<1>6. ASSUME NEW w \in Worker, NEW v \in Val, GetOrCreate(w, v) PROVE Fresh'
  <2>1. redis' = redis /\ mem' \in {mem, [mem EXCEPT ![w] = redis]}
    BY <1>6, <1>d DEF GetOrCreate
  <2>2. \A x \in Worker : pc'[x] = "save" => pc[x] = "save" /\ upd'[x] = upd[x]
    BY <1>6 DEF GetOrCreate, Pending, TypeOK
  <2>3. QED
    BY <1>6, <2>1, <2>2 DEF GetOrCreate, TypeOK
<1>7. ASSUME NEW w \in Worker, NEW u \in Updates, BeginUpdate(w, u) PROVE Fresh'
  BY <1>7 DEF BeginUpdate, Enter, TypeOK
<1>8. ASSUME NEW w \in Worker, ContinueUpdate(w) PROVE Fresh'
  BY <1>8 DEF ContinueUpdate, Enter, TypeOK
<1>9. ASSUME NEW w \in Worker, AcquireLock(w) \/ GoOnWithoutLock(w) PROVE Fresh'
  BY <1>9 DEF AcquireLock, GoOnWithoutLock, TypeOK
<1>10. ASSUME NEW w \in Worker, ReadBase(w) PROVE Fresh'
  <2>1. conn[w] = TRUE
    BY <1>10 DEF ReadBase, Excluding, TypeOK
  <2>2. CASE redis # NoCtx
    <3>1. TakeBase(w, redis) /\ UNCHANGED <<mem, redis>>
      BY <1>10, <1>c, <2>1, <2>2 DEF ReadBase
    <3>2. QED
      BY <1>10, <2>2, <3>1 DEF ReadBase, TakeBase, TypeOK
  <2>3. CASE redis = NoCtx
    <3>1. TakeBase(w, BaseIfAbsent(upd[w])) /\ UNCHANGED <<mem, redis>>
      BY <1>10, <1>c, <2>1, <2>3 DEF ReadBase, Live
    <3>2. BaseIfAbsent(upd[w]) # NoCtx =>
            ~RequiresExisting(upd[w]) /\ Blank(BaseIfAbsent(upd[w]))
      BY DEF BaseIfAbsent, NewCtx, Blank
    <3>3. QED
      BY <1>10, <2>3, <3>1, <3>2 DEF ReadBase, TakeBase, TypeOK
  <2>4. QED
    BY <2>2, <2>3
<1>11. ASSUME NEW w \in Worker, Save(w) PROVE Fresh'
  <2>1. \A x \in Worker : x # w => pc[x] # "save"
    BY <1>11 DEF Save, Excluding, InSection
  <2>2. redis' = mem'[w]
    BY <1>11, <1>a DEF Save, Excluding
  <2>3. redis' # NoCtx
    <3>1. upd[w] \in Update /\ base[w] \in Ctx /\ clock \in Nat
      BY <1>11 DEF Save, TypeOK
    <3>2. [Mutate(upd[w], base[w]) EXCEPT !.at = clock] \in Ctx
      BY <3>1, MutateType
    <3>3. QED
      BY <1>11, <2>2, <3>2 DEF Save, TypeOK
  <2>4. QED
    BY <1>11, <2>1, <2>3 DEF Save, TypeOK
<1>12. ASSUME NEW w \in Worker, Release(w) PROVE Fresh'
  BY <1>12 DEF Release, TypeOK
<1>13. ASSUME NEW w \in Worker, Crash(w) PROVE Fresh'
  BY <1>13 DEF Crash
<1>14. CASE Tick
  <2>1. redis' = redis
    <3>1. redis # NoCtx => redis.at \in Nat
      BY DEF TypeOK, Ctx
    <3>2. clock \in Nat /\ clock + 1 <= MaxAge
      BY <1>14 DEF Tick, TypeOK
    <3>3. redis # NoCtx => ~(clock + 1 > redis.at + MaxAge)
      BY <3>1, <3>2
    <3>4. QED
      BY <1>14, <3>3 DEF Tick
  <2>2. QED
    BY <1>14, <2>1 DEF Tick, local
<1>15. CASE LockExpires \/ RedisFails \/ RedisRecovers \/ UNCHANGED vars
  BY <1>15 DEF LockExpires, RedisFails, RedisRecovers, vars, local
<1>16. QED
  BY <1>1, <1>2, <1>3, <1>4, <1>5, <1>6, <1>7, <1>8, <1>9, <1>10, <1>11, <1>12, <1>13,
     <1>14, <1>15 DEF Next, Environment, Request, Proceed, Val

\* So with Redis healthy and nothing expired every base is the blob
LEMMA FreshAlways == ASSUME Faults = {}, MaxClock <= MaxAge PROVE Spec => []Fresh
<1>1. Init => Fresh
  BY DEF Init, Fresh
<1>2. TypeOK /\ TypeOK' /\ Excluding /\ Fresh /\ [Next]_vars => Fresh'
  BY FreshStep
<1>3. QED
  BY <1>1, <1>2, TypeCorrect, ExcludingAlways, PTL DEF Spec

\* With Redis healthy and the conversation alive, what an update saves was
\* computed from what Redis holds at that moment.
THEOREM BaseAlwaysFresh == Spec => []FreshBase
<1>1. CASE Faults = {} /\ MaxClock <= MaxAge
  <2>1. Fresh => FreshBase
    <3>1. \A c : Blank(c) => c.msgs = <<>>
      BY DEF Blank
    <3>2. QED
      BY <3>1 DEF Fresh, FreshBase
  <2>2. QED
    BY <1>1, <2>1, FreshAlways, PTL
<1>2. CASE ~(Faults = {} /\ MaxClock <= MaxAge)
  <2>1. FreshBase
    BY <1>2 DEF FreshBase
  <2>2. QED
    BY <2>1, PTL
<1>3. QED
  BY <1>1, <1>2
-----------------------------------------------------------------------------
(* Without faults the store is an atomic conversation.                      *)

Sent == UNION {{sent[w][i] : i \in DOMAIN sent[w]} : w \in Worker}

Adds(w, m) == /\ pc[w] \in {"start", "lock", "read", "save"}
              /\ upd[w].kind = "add_message"
              /\ upd[w].msg = m

\* A message in flight is in flight once and has not been written
AddedOnce ==
  /\ written \subseteq Sent
  /\ \A w \in Worker, m \in Msg : Adds(w, m) =>
       /\ m \in Sent
       /\ m \notin written
       /\ \A x \in Worker : Adds(x, m) => x = w

\* No step adds a message that was already asked for, or saves it a second time
LEMMA AddedOnceStep ==
  ASSUME TypeOK, AddedOnce, [Next]_vars
  PROVE  AddedOnce'
<1> USE DEF AddedOnce, Adds
<1>a. ASSUME sent' = sent, written' = written,
             \A x \in Worker, m \in Msg : Adds(x, m)' => Adds(x, m)
      PROVE  AddedOnce'
  <2>1. Sent' = Sent
    BY <1>a DEF Sent
  <2>2. QED
    BY <1>a, <2>1
<1>1. ASSUME NEW w \in Worker,
             \/ Get(w) \/ GetConversationState(w) \/ RefreshFromRedis(w) \/ Cleanup(w)
             \/ \E v \in Val : CreateConversation(w, v)
      PROVE  AddedOnce'
  BY <1>1, <1>a DEF Get, GetConversationState, RefreshFromRedis, Cleanup,
                    CreateConversation, local
<1>2. ASSUME NEW w \in Worker, NEW v \in Val, GetOrCreate(w, v) PROVE AddedOnce'
  <2>1. \A x \in Worker, m \in Msg : Adds(x, m)' => Adds(x, m)
    BY <1>2 DEF GetOrCreate, Pending, TypeOK
  <2>2. QED
    BY <1>2, <1>a, <2>1 DEF GetOrCreate
<1>3. ASSUME NEW w \in Worker, NEW u \in Updates, BeginUpdate(w, u) PROVE AddedOnce'
  <2>1. \A x \in Worker, m \in Msg :
          Adds(x, m)' => Adds(x, m) \/ (x = w /\ u.kind = "add_message" /\ u.msg = m)
    BY <1>3 DEF BeginUpdate, Enter, TypeOK
  <2>2. CASE u.kind = "add_message"
    <3>1. u.msg \in Msg
      BY <2>2 DEF Updates, Update
    <3>2. u.msg \notin Sent
      BY <1>3, <2>2 DEF BeginUpdate, Sent
    <3>3. Sent' = Sent \union {u.msg}
      <4>1. sent' = [sent EXCEPT ![w] = Append(@, u.msg)]
        BY <1>3, <2>2 DEF BeginUpdate
      <4>2. /\ \A x \in Worker : sent[x] \in Seq(Msg)
            /\ \A x \in Worker : sent'[x] = IF x = w THEN Append(sent[w], u.msg) ELSE sent[x]
        BY <4>1 DEF TypeOK
      <4>3. ASSUME NEW s \in Seq(Msg), NEW m \in Msg
            PROVE  {Append(s, m)[i] : i \in DOMAIN Append(s, m)} = {s[i] : i \in DOMAIN s} \union {m}
        <5>1. /\ DOMAIN Append(s, m) = 1..(Len(s) + 1) /\ DOMAIN s = 1..Len(s)
              /\ Append(s, m)[Len(s) + 1] = m
              /\ \A i \in 1..Len(s) : Append(s, m)[i] = s[i]
              /\ Len(s) \in Nat
          OBVIOUS
        <5>2. QED
          BY <5>1
      <4> DEFINE Of(x) == {sent[x][i] : i \in DOMAIN sent[x]}
                 New(x) == {sent'[x][i] : i \in DOMAIN sent'[x]}
      <4>4. New(w) = Of(w) \union {u.msg}
        <5>1. sent'[w] = Append(sent[w], u.msg) /\ sent[w] \in Seq(Msg)
          BY <4>2
        <5>2. {Append(sent[w], u.msg)[i] : i \in DOMAIN Append(sent[w], u.msg)}
                = {sent[w][i] : i \in DOMAIN sent[w]} \union {u.msg}
          BY <3>1, <5>1, <4>3
        <5>3. QED
          BY <5>1, <5>2
      <4>5. ASSUME NEW x \in Worker, x # w PROVE New(x) = Of(x)
        <5>1. sent'[x] = sent[x]
          BY <4>2, <4>5
        <5>2. QED
          BY <5>1
      <4>6. \A m : m \in UNION {New(x) : x \in Worker}
                     <=> m \in UNION {Of(x) : x \in Worker} \/ m = u.msg
        <5> HIDE DEF Of, New
        <5>1. \A m : (\E x \in Worker : m \in New(x)) <=> (\E x \in Worker : m \in Of(x)) \/ m = u.msg
          BY <4>4, <4>5
        <5>2. QED
          BY <5>1
      <4>7. QED
        BY <4>6 DEF Sent
    <3>4. written' = written
      BY <1>3 DEF BeginUpdate
    <3>5. QED
      BY <2>1, <3>1, <3>2, <3>3, <3>4
  <2>3. CASE u.kind # "add_message"
    BY <1>3, <1>a, <2>1, <2>3 DEF BeginUpdate
  <2>4. QED
    BY <2>2, <2>3
<1>4. ASSUME NEW w \in Worker,
             ContinueUpdate(w) \/ AcquireLock(w) \/ GoOnWithoutLock(w) \/ Release(w)
      PROVE  AddedOnce'
  <2>1. \A x \in Worker, m \in Msg : Adds(x, m)' => Adds(x, m)
    <3>1. CASE ContinueUpdate(w)
      BY <3>1 DEF ContinueUpdate, Enter, TypeOK
    <3>2. CASE AcquireLock(w) \/ GoOnWithoutLock(w)
      BY <3>2 DEF AcquireLock, GoOnWithoutLock, TypeOK
    <3>3. CASE Release(w)
      BY <3>3 DEF Release, TypeOK
    <3>4. QED
      BY <1>4, <3>1, <3>2, <3>3
  <2>2. QED
    BY <1>4, <1>a, <2>1 DEF ContinueUpdate, AcquireLock, GoOnWithoutLock, Release
<1>5. ASSUME NEW w \in Worker, ReadBase(w) PROVE AddedOnce'
  <2>1. PICK b : TakeBase(w, b)
    BY <1>5 DEF ReadBase
  <2>2. \A x \in Worker, m \in Msg : Adds(x, m)' => Adds(x, m)
    BY <1>5, <2>1 DEF ReadBase, TakeBase, TypeOK
  <2>3. QED
    BY <1>5, <1>a, <2>2 DEF ReadBase
<1>6. ASSUME NEW w \in Worker, Save(w) PROVE AddedOnce'
  <2>1. \A x \in Worker, m \in Msg : Adds(x, m)' => x # w /\ Adds(x, m)
    BY <1>6 DEF Save, TypeOK
  <2>2. written' \in {written, written \union {upd[w].msg}}
    BY <1>6 DEF Save
  <2>3. upd[w].kind # "add_message" => written' = written
    BY <1>6 DEF Save
  <2>4. upd[w].kind = "add_message" => upd[w].msg \in Msg /\ Adds(w, upd[w].msg)
    BY <1>6 DEF Save, TypeOK, Update
  <2>5. Sent' = Sent
    BY <1>6 DEF Save, Sent
  <2>6. QED
    BY <2>1, <2>2, <2>3, <2>4, <2>5
<1>7. ASSUME NEW w \in Worker, Crash(w) PROVE AddedOnce'
  <2>1. \A x \in Worker, m \in Msg : Adds(x, m)' => Adds(x, m)
    BY <1>7 DEF Crash, TypeOK
  <2>2. QED
    BY <1>7, <1>a, <2>1 DEF Crash
<1>8. CASE Tick \/ LockExpires \/ RedisFails \/ RedisRecovers \/ UNCHANGED vars
  BY <1>8, <1>a DEF Tick, LockExpires, RedisFails, RedisRecovers, vars, local
<1>9. QED
  BY <1>1, <1>2, <1>3, <1>4, <1>5, <1>6, <1>7, <1>8, StoreAssumption
     DEF Next, Environment, Request, Proceed, Val
\* So the messages in flight are always pairwise different and not yet written
LEMMA AddedOnceAlways == Spec => []AddedOnce
<1>1. Init => AddedOnce
  BY DEF Init, AddedOnce, Adds
<1>2. TypeOK /\ AddedOnce /\ [Next]_vars => AddedOnce'
  BY AddedOnceStep
<1>3. QED
  BY <1>1, <1>2, TypeCorrect, PTL DEF Spec

\* The conversation in a context, field by field
LEMMA AsConvFields ==
  ASSUME NEW c \in Ctx
  PROVE  /\ AsConv(c) = [msgs |-> c.msgs, intent |-> c.intent, state |-> c.state,
                         owner |-> c.owner,
                         pending |-> IF c.ind THEN "indicator"
                                     ELSE IF c.sem THEN "semantic" ELSE "nothing"]
         /\ AsConv(c) \in Conv
         /\ AsConv(c) # NoCtx
<1>1. c # NoCtx
  BY NoCtxAssumption
<1>2. AsConv(c) = [msgs |-> c.msgs, intent |-> c.intent, state |-> c.state,
                   owner |-> c.owner,
                   pending |-> IF c.ind THEN "indicator"
                               ELSE IF c.sem THEN "semantic" ELSE "nothing"]
  BY <1>1 DEF AsConv
<1>3. AsConv(c) \in Conv
  BY <1>2 DEF Conv, Ctx
<1>4. QED
  BY <1>2, <1>3, NoCtxAssumption

\* A save is the operation of the atomic conversation that its update stands for
LEMMA SaveIsAtomic ==
  ASSUME Faults = {}, MaxClock <= MaxAge, TypeOK, PendingExclusive, Excluding, Fresh,
         AddedOnce, NEW w \in Worker, Save(w)
  PROVE  Register!Next
<1> DEFINE u == upd[w]
           d == [Mutate(u, base[w]) EXCEPT !.at = clock]
<1>1. u \in Update /\ base[w] \in Ctx /\ clock \in Nat
  BY StoreAssumption DEF Save, TypeOK
<1>2. d \in Ctx
  BY <1>1, MutateType
<1>3. redis' = d
  BY DEF Save, TypeOK, Connect, Excluding
<1>4. written' = IF u.kind = "add_message" THEN written \union {u.msg} ELSE written
  BY DEF Save, Connect, Excluding
<1>5. AsConv(redis)' = AsConv(d)
  BY <1>3 DEF AsConv
<1>6. u.val \in Value \union {None} /\ u.kind \in AllKinds
  BY <1>1 DEF Update, Val, AllKinds, ClientKinds
<1>e. d = [Mutate(u, base[w]) EXCEPT !.at = clock]
  OBVIOUS
<1> HIDE DEF d
<1>f. /\ d.msgs = IF u.kind = "add_message" THEN LastKept(Append(base[w].msgs, u.msg))
                                            ELSE base[w].msgs
      /\ d.intent = IF SetsIntent(u) THEN u.val ELSE base[w].intent
      /\ d.state = IF u.kind = "set_conversation_state" THEN u.val ELSE base[w].state
      /\ d.owner = IF SetsOwner(u, base[w]) THEN u.val ELSE base[w].owner
      /\ d.ind <=> (u.kind = "set_pending_indicator_options"
                      \/ (base[w].ind /\ KeepsIndicator(u)))
      /\ d.sem <=> (u.kind = "set_pending_semantic_clarification"
                      \/ (base[w].sem /\ KeepsSemantic(u)))
  <2> HIDE DEF u
  <2>1. QED
    BY <1>1, <1>e DEF Mutate, Ctx
<1>7. CASE redis = NoCtx
  <2>1. u.kind = "stamp_owner" /\ Blank(base[w])
    BY <1>7 DEF Save, Fresh, RequiresExisting
  <2>2. /\ d.msgs = <<>> /\ d.intent = None /\ d.state = None /\ d.owner = u.val
        /\ ~d.ind /\ ~d.sem
    BY <1>f, <2>1 DEF Blank, SetsIntent, SetsOwner
  <2>3. AsConv(d) = [msgs |-> <<>>, intent |-> None, state |-> None, owner |-> u.val,
                     pending |-> "nothing"]
    BY <1>2, <2>2, AsConvFields
  <2>4. AsConv(redis) = NoCtx
    BY <1>7 DEF AsConv
  <2>5. Register!CreateFor(u.val)
    BY <1>4, <1>5, <2>1, <2>3, <2>4
       DEF Register!CreateFor, Register!Exists, Register!Blank
  <2>6. QED
    BY <1>6, <2>5 DEF Register!Next
<1>8. CASE redis # NoCtx
  <2> DEFINE c == base[w]
  <2>1. c = redis /\ c \in Ctx
    BY <1>1, <1>8 DEF Save, Fresh
  <2>2. ~(c.ind /\ c.sem)
    BY <1>8, <2>1 DEF PendingExclusive, Copies
  <2>3. Register!Exists
    BY <2>1, AsConvFields DEF Register!Exists
  <2> HIDE DEF c
  <2>4. AsConv(redis) = [msgs |-> c.msgs, intent |-> c.intent, state |-> c.state,
                         owner |-> c.owner,
                         pending |-> IF c.ind THEN "indicator"
                                     ELSE IF c.sem THEN "semantic" ELSE "nothing"]
    BY <2>1, AsConvFields
  <2>5. AsConv(d) = [msgs |-> d.msgs, intent |-> d.intent, state |-> d.state,
                     owner |-> d.owner,
                     pending |-> IF d.ind THEN "indicator"
                                 ELSE IF d.sem THEN "semantic" ELSE "nothing"]
    BY <1>2, AsConvFields
  <2>6. CASE u.kind = "add_message"
    <3>1. u.msg \in Msg /\ u.msg \notin written
      <4>1. u.msg \in Msg
        BY <1>1, <2>6 DEF Update
      <4>2. QED
        BY <2>6, <4>1 DEF AddedOnce, Adds, Save
    <3>2. LastKept(Append(c.msgs, u.msg)) = Register!LastKept(Append(c.msgs, u.msg))
      BY DEF LastKept, Register!LastKept
    <3>3. AsConv(d) = [msgs |-> LastKept(Append(c.msgs, u.msg)), intent |-> IF u.val = None THEN c.intent ELSE u.val,
                       state |-> c.state, owner |-> c.owner,
                       pending |-> IF c.ind THEN "indicator"
                                    ELSE IF c.sem THEN "semantic" ELSE "nothing"]
      BY <1>f, <2>2, <2>5, <2>6 DEF c, SetsIntent, SetsOwner, KeepsIndicator, KeepsSemantic
    <3>4. Register!AppendMessage(u.msg, u.val)
      <4>1. AsConv(d) = [AsConv(redis) EXCEPT
                           !.msgs = Register!LastKept(Append(@, u.msg)),
                           !.intent = IF u.val = None THEN @ ELSE u.val]
        <5> DEFINE l == LastKept(Append(c.msgs, u.msg))
                   j == IF u.val = None THEN c.intent ELSE u.val
                   p == IF c.ind THEN "indicator" ELSE IF c.sem THEN "semantic" ELSE "nothing"
        <5>1. /\ Register!LastKept(Append(AsConv(redis).msgs, u.msg)) = l
              /\ AsConv(redis).intent = c.intent
          BY <2>4, <3>2
        <5>2. AsConv(redis) = [msgs |-> c.msgs, intent |-> c.intent, state |-> c.state,
                               owner |-> c.owner, pending |-> p]
          BY <2>4
        <5>3. AsConv(d) = [msgs |-> l, intent |-> j, state |-> c.state,
                           owner |-> c.owner, pending |-> p]
          BY <3>3
        <5> HIDE DEF l, j, p
        <5> DEFINE q == [AsConv(redis) EXCEPT !.msgs = l]
        <5>4. q = [msgs |-> l, intent |-> c.intent, state |-> c.state,
                   owner |-> c.owner, pending |-> p]
          BY <5>2
        <5>5. [AsConv(redis) EXCEPT !.msgs = l, !.intent = j] = [q EXCEPT !.intent = j]
          OBVIOUS
        <5> HIDE DEF q
        <5>6. [q EXCEPT !.intent = j] = [msgs |-> l, intent |-> j, state |-> c.state,
                                         owner |-> c.owner, pending |-> p]
          BY <5>4
        <5>7. AsConv(d) = [AsConv(redis) EXCEPT !.msgs = l, !.intent = j]
          BY <5>3, <5>5, <5>6
        <5>8. QED
          BY <5>1, <5>7 DEF j
      <4>2. written' = written \union {u.msg}
        BY <1>4, <2>6
      <4>3. QED
        BY <1>5, <2>3, <3>1, <4>1, <4>2 DEF Register!AppendMessage
    <3>5. QED
      BY <1>6, <3>1, <3>4 DEF Register!Next
  <2>7. CASE u.kind = "restore_last_intent"
    <3>1. AsConv(d) = [msgs |-> c.msgs, intent |-> u.val,
                       state |-> c.state, owner |-> c.owner,
                       pending |-> IF c.ind THEN "indicator"
                                    ELSE IF c.sem THEN "semantic" ELSE "nothing"]
      BY <1>f, <2>2, <2>5, <2>7 DEF c, SetsIntent, SetsOwner, KeepsIndicator, KeepsSemantic
    <3>2. Register!SetIntent(u.val)
      BY <1>4, <1>5, <2>2, <2>3, <2>4, <2>7, <3>1 DEF Register!SetIntent
    <3>3. QED
      BY <1>6, <3>2 DEF Register!Next
  <2>8. CASE u.kind = "set_conversation_state"
    <3>1. AsConv(d) = [msgs |-> c.msgs, intent |-> c.intent,
                       state |-> u.val, owner |-> c.owner,
                       pending |-> IF c.ind THEN "indicator"
                                    ELSE IF c.sem THEN "semantic" ELSE "nothing"]
      BY <1>f, <2>2, <2>5, <2>8 DEF c, SetsIntent, SetsOwner, KeepsIndicator, KeepsSemantic
    <3>2. Register!SetState(u.val)
      BY <1>4, <1>5, <2>2, <2>3, <2>4, <2>8, <3>1 DEF Register!SetState
    <3>3. QED
      BY <1>6, <3>2 DEF Register!Next
  <2>9. CASE u.kind = "bind_owner"
    <3>1. AsConv(d) = [msgs |-> c.msgs, intent |-> c.intent,
                       state |-> c.state, owner |-> u.val,
                       pending |-> IF c.ind THEN "indicator"
                                    ELSE IF c.sem THEN "semantic" ELSE "nothing"]
      BY <1>f, <2>2, <2>5, <2>9 DEF c, SetsIntent, SetsOwner, KeepsIndicator, KeepsSemantic
    <3>2. Register!SetOwner(u.val)
      BY <1>4, <1>5, <2>2, <2>3, <2>4, <2>9, <3>1 DEF Register!SetOwner
    <3>3. QED
      BY <1>6, <3>2 DEF Register!Next
  <2>10. CASE u.kind = "stamp_owner"
    <3>1. AsConv(d) = [msgs |-> c.msgs, intent |-> c.intent,
                       state |-> c.state, owner |-> IF c.owner = None THEN u.val ELSE c.owner,
                       pending |-> IF c.ind THEN "indicator"
                                    ELSE IF c.sem THEN "semantic" ELSE "nothing"]
      BY <1>f, <2>2, <2>5, <2>10 DEF c, SetsIntent, SetsOwner, KeepsIndicator, KeepsSemantic
    <3>2. Register!CreateFor(u.val)
      BY <1>4, <1>5, <2>2, <2>3, <2>4, <2>10, <3>1 DEF Register!CreateFor
    <3>3. QED
      BY <1>6, <3>2 DEF Register!Next
  <2>11. CASE u.kind = "set_pending_indicator_options"
    <3>1. AsConv(d) = [msgs |-> c.msgs, intent |-> c.intent,
                       state |-> c.state, owner |-> c.owner,
                       pending |-> "indicator"]
      BY <1>f, <2>2, <2>5, <2>11 DEF c, SetsIntent, SetsOwner, KeepsIndicator, KeepsSemantic
    <3>2. Register!Ask("indicator")
      BY <1>4, <1>5, <2>2, <2>3, <2>4, <2>11, <3>1 DEF Register!Ask
    <3>3. QED
      BY <1>6, <3>2 DEF Register!Next
  <2>12. CASE u.kind = "set_pending_semantic_clarification"
    <3>1. AsConv(d) = [msgs |-> c.msgs, intent |-> c.intent,
                       state |-> c.state, owner |-> c.owner,
                       pending |-> "semantic"]
      BY <1>f, <2>2, <2>5, <2>12 DEF c, SetsIntent, SetsOwner, KeepsIndicator, KeepsSemantic
    <3>2. Register!Ask("semantic")
      BY <1>4, <1>5, <2>2, <2>3, <2>4, <2>12, <3>1 DEF Register!Ask
    <3>3. QED
      BY <1>6, <3>2 DEF Register!Next
  <2>13. CASE u.kind = "clear_pending_indicator_options"
    <3>1. AsConv(d) = [msgs |-> c.msgs, intent |-> c.intent,
                       state |-> c.state, owner |-> c.owner,
                       pending |-> IF c.sem THEN "semantic" ELSE "nothing"]
      BY <1>f, <2>2, <2>5, <2>13 DEF c, SetsIntent, SetsOwner, KeepsIndicator, KeepsSemantic
    <3>2. Register!Answer({"indicator"})
      BY <1>4, <1>5, <2>2, <2>3, <2>4, <2>13, <3>1 DEF Register!Answer
    <3>3. QED
      BY <1>6, <3>2 DEF Register!Next
  <2>14. CASE u.kind = "clear_pending_semantic_clarification"
    <3>1. AsConv(d) = [msgs |-> c.msgs, intent |-> c.intent,
                       state |-> c.state, owner |-> c.owner,
                       pending |-> IF c.ind THEN "indicator" ELSE "nothing"]
      BY <1>f, <2>2, <2>5, <2>14 DEF c, SetsIntent, SetsOwner, KeepsIndicator, KeepsSemantic
    <3>2. Register!Answer({"semantic"})
      BY <1>4, <1>5, <2>2, <2>3, <2>4, <2>14, <3>1 DEF Register!Answer
    <3>3. QED
      BY <1>6, <3>2 DEF Register!Next
  <2>15. CASE u.kind = "clear_all_pending"
    <3>1. AsConv(d) = [msgs |-> c.msgs, intent |-> c.intent,
                       state |-> c.state, owner |-> c.owner,
                       pending |-> "nothing"]
      BY <1>f, <2>2, <2>5, <2>15 DEF c, SetsIntent, SetsOwner, KeepsIndicator, KeepsSemantic
    <3>2. Register!Answer({"indicator", "semantic"})
      BY <1>4, <1>5, <2>2, <2>3, <2>4, <2>15, <3>1 DEF Register!Answer
    <3>3. QED
      BY <1>6, <3>2 DEF Register!Next
  <2>16. QED
    BY <1>6, <2>6, <2>7, <2>8, <2>9, <2>10, <2>11, <2>12, <2>13, <2>14, <2>15
       DEF AllKinds, ClientKinds
<1>9. QED
  BY <1>7, <1>8
\* Every step of the store is a step of the atomic conversation, or leaves it alone
LEMMA StepIsAtomic ==
  ASSUME Faults = {}, MaxClock <= MaxAge, TypeOK, PendingExclusive, Excluding, Fresh,
         AddedOnce, [Next]_vars
  PROVE  [Register!Next]_<<AsConv(redis), written>>
<1> DEFINE Same == UNCHANGED <<redis, written>>
           Goal == [Register!Next]_<<AsConv(redis), written>>
<1> USE StoreAssumption
<1>a. Same => Goal
  BY DEF AsConv
<1>b. ASSUME NEW w \in Worker, NEW ok \in BOOLEAN, GetLocked(w, ok) PROVE redis' = redis
  BY <1>b, NothingExpires DEF GetLocked, TypeOK
<1> HIDE DEF Goal
<1>1. ASSUME NEW w \in Worker, Save(w) PROVE Goal
  BY <1>1, SaveIsAtomic DEF Goal
<1>2. ASSUME NEW w \in Worker, NEW v \in OwnerKeys \union {None}, CreateConversation(w, v)
      PROVE  Goal
  <2> DEFINE c == [NewCtx EXCEPT !.owner = v]
  <2>1. c \in Ctx /\ v \in Value \union {None}
    <3>1. clock \in Nat
      BY DEF TypeOK
    <3>2. QED
      BY <3>1, NewCtxType DEF Ctx, Val
  <2>2. redis' = c /\ redis = NoCtx /\ written' = written
    BY <1>2 DEF CreateConversation, Connect, Excluding, Fresh, TypeOK
  <2>3. /\ c.msgs = <<>> /\ c.intent = None /\ c.state = None /\ c.owner = v
        /\ ~c.ind /\ ~c.sem
    BY DEF NewCtx
  <2> HIDE DEF c
  <2>4. AsConv(c) = [msgs |-> <<>>, intent |-> None, state |-> None, owner |-> v,
                     pending |-> "nothing"]
    BY <2>1, <2>3, AsConvFields
  <2>5. AsConv(redis) = NoCtx /\ AsConv(redis)' = AsConv(c)
    BY <2>2 DEF AsConv
  <2>6. Register!CreateFor(v)
    BY <2>2, <2>4, <2>5 DEF Register!CreateFor, Register!Exists, Register!Blank
  <2>7. QED
    BY <2>1, <2>6 DEF Goal, Register!Next
<1>3. ASSUME NEW w \in Worker, Get(w) \/ \E v \in Val : GetOrCreate(w, v) PROVE Goal
  BY <1>3, <1>a, <1>b DEF Get, GetOrCreate
<1>4. ASSUME NEW w \in Worker, Cleanup(w) PROVE Goal
  BY <1>4, NothingExpires DEF Cleanup, TypeOK
<1>5. ASSUME NEW w \in Worker, ReadBase(w) PROVE Goal
  <2>1. redis' = redis
    BY <1>5, NothingExpires DEF ReadBase, TypeOK
  <2>2. QED
    BY <1>5, <1>a, <2>1 DEF ReadBase
<1>6. ASSUME NEW w \in Worker,
             \/ GetConversationState(w) \/ RefreshFromRedis(w)
             \/ \E u \in Updates : BeginUpdate(w, u)
             \/ ContinueUpdate(w) \/ AcquireLock(w) \/ GoOnWithoutLock(w) \/ Release(w)
             \/ Crash(w)
      PROVE  Goal
  BY <1>6, <1>a DEF GetConversationState, RefreshFromRedis, BeginUpdate, ContinueUpdate,
                    AcquireLock, GoOnWithoutLock, Release, Crash
<1>7. ASSUME Tick PROVE Goal
  <2>1. redis # NoCtx => redis.at \in Nat
    BY DEF TypeOK, Ctx
  <2>2. clock \in Nat /\ clock + 1 <= MaxAge
    BY <1>7 DEF Tick, TypeOK
  <2>3. redis # NoCtx => ~(clock + 1 > redis.at + MaxAge)
    BY <2>1, <2>2
  <2>4. QED
    BY <1>7, <1>a, <2>3 DEF Tick
<1>8. ASSUME LockExpires \/ RedisFails \/ RedisRecovers \/ UNCHANGED vars PROVE Goal
  BY <1>8, <1>a DEF LockExpires, RedisFails, RedisRecovers, vars
<1>9. ASSUME NEW w \in Worker, Request(w) PROVE Goal
  <2>1. CASE \E v \in OwnerKeys \union {None} : CreateConversation(w, v)
    BY <1>2, <2>1
  <2>2. CASE \E v \in OwnerKeys \union {None} : GetOrCreate(w, v)
    <3>1. \E v \in Val : GetOrCreate(w, v)
      BY <2>2 DEF Val
    <3>2. QED
      BY <1>3, <3>1
  <2>3. QED
    BY <1>3, <1>4, <1>6, <1>9, <2>1, <2>2 DEF Request
<1>10. ASSUME NEW w \in Worker, Proceed(w) PROVE Goal
  BY <1>1, <1>5, <1>6, <1>10 DEF Proceed
<1>11. ASSUME Environment PROVE Goal
  BY <1>6, <1>7, <1>8, <1>11 DEF Environment
<1>12. Next \/ UNCHANGED vars
  OBVIOUS
<1>13. Goal
  BY <1>8, <1>9, <1>10, <1>11, <1>12 DEF Next
<1>14. QED
  BY <1>13 DEF Goal

\* With Redis healthy and the conversation alive, any number of workers that
\* update one conversation together behave as one atomic conversation.
THEOREM UpdatesAreAtomic ==
  ASSUME Faults = {}, MaxClock <= MaxAge
  PROVE  Spec => AtomicConversation
<1>1. Init => Register!Init
  BY DEF Init, Register!Init, AsConv
<1>2. TypeOK /\ PendingExclusive /\ Excluding /\ Fresh /\ AddedOnce /\ [Next]_vars
        => [Register!Next]_<<AsConv(redis), written>>
  BY StepIsAtomic
<1>3. QED
  BY <1>1, <1>2, TypeCorrect, PendingNeverBoth, ExcludingAlways, FreshAlways,
     AddedOnceAlways, PTL DEF Spec, AtomicConversation, Register!Spec, Register!regVars
-----------------------------------------------------------------------------
(* Messages stay in order, whatever fails.                                  *)

Of(s) == {s[i] : i \in DOMAIN s}

\* SentBefore and Sent, of what the workers were asked to add
Before(sn, m, n) ==
  \E w \in Worker : \E i, j \in DOMAIN sn[w] : i < j /\ sn[w][i] = m /\ sn[w][j] = n

\* The messages s are in the order of sn, none of them twice and none in flight
Good(s, sn, flying) ==
  \A i \in DOMAIN s :
    /\ s[i] \notin flying
    /\ \E w \in Worker : s[i] \in Of(sn[w])
    /\ \A j \in DOMAIN s : i < j => s[i] # s[j] /\ ~Before(sn, s[j], s[i])

OkCopy(c, sn, flying) == c # NoCtx => Good(c.msgs, sn, flying)

Flying == {m \in Msg : \E w \in Worker : Adds(w, m)}

\* What is in flight is the last its worker was asked for, and nobody else was
Alone(sn, w, m) ==
  /\ \A n : ~Before(sn, m, n)
  /\ \A x \in Worker : m \in Of(sn[x]) <=> x = w

\* The induction
Ordered ==
  /\ OkCopy(redis, sent, Flying)
  /\ \A w \in Worker : OkCopy(mem[w], sent, Flying) /\ OkCopy(base[w], sent, Flying)
  /\ \A w \in Worker, m \in Msg : Adds(w, m) => Alone(sent, w, m)

\* Less in flight: nothing gets worse
LEMMA GoodLanded ==
  ASSUME NEW s, NEW sn, NEW f, NEW g, Good(s, sn, f), g \subseteq f
  PROVE  Good(s, sn, g)
BY DEF Good

\* Without its first message a good list is good
LEMMA GoodTail ==
  ASSUME NEW s \in Seq(Msg), s # <<>>, NEW sn, NEW f, Good(s, sn, f)
  PROVE  Good(Tail(s), sn, f)
<1>1. /\ DOMAIN s = 1..Len(s) /\ DOMAIN Tail(s) = 1..(Len(s) - 1) /\ Len(s) \in Nat
      /\ \A i \in DOMAIN Tail(s) : Tail(s)[i] = s[i + 1] /\ i + 1 \in DOMAIN s /\ i \in Nat
  OBVIOUS
<1>2. \A i, j \in DOMAIN Tail(s) : i < j => i + 1 < j + 1
  BY <1>1
<1>3. QED
  BY <1>1, <1>2 DEF Good

\* A message lands: nothing was sent after it
LEMMA GoodAppend ==
  ASSUME NEW s \in Seq(Msg), NEW sn, NEW f, NEW g, NEW m \in f \ g, NEW w \in Worker,
         Good(s, sn, f), Alone(sn, w, m), g \subseteq f
  PROVE  Good(Append(s, m), sn, g)
<1>1. /\ DOMAIN s = 1..Len(s) /\ DOMAIN Append(s, m) = 1..(Len(s) + 1) /\ Len(s) \in Nat
      /\ Append(s, m)[Len(s) + 1] = m
      /\ \A i \in DOMAIN s : Append(s, m)[i] = s[i] /\ i < Len(s) + 1
      /\ \A i \in DOMAIN Append(s, m) : i \in DOMAIN s \/ i = Len(s) + 1
      /\ \A i, j \in DOMAIN Append(s, m) : i < j => i \in DOMAIN s
  OBVIOUS
<1>2. \A i \in DOMAIN s : s[i] # m /\ ~Before(sn, m, s[i])
  BY DEF Good, Alone
<1>3. \E x \in Worker : m \in Of(sn[x])
  BY DEF Alone
<1>4. ASSUME NEW i \in DOMAIN Append(s, m)
      PROVE  /\ Append(s, m)[i] \notin g
             /\ \E x \in Worker : Append(s, m)[i] \in Of(sn[x])
  BY <1>1, <1>3, <1>4 DEF Good
<1>5. ASSUME NEW i \in DOMAIN Append(s, m), NEW j \in DOMAIN Append(s, m), i < j
      PROVE  /\ Append(s, m)[i] # Append(s, m)[j]
             /\ ~Before(sn, Append(s, m)[j], Append(s, m)[i])
  <2>1. i \in DOMAIN s /\ Append(s, m)[i] = s[i]
    BY <1>1, <1>5
  <2>2. CASE j = Len(s) + 1
    BY <1>1, <1>2, <2>1, <2>2
  <2>3. CASE j \in DOMAIN s
    BY <1>1, <1>5, <2>1, <2>3 DEF Good
  <2>4. QED
    BY <1>1, <2>2, <2>3
<1>6. QED
  BY <1>4, <1>5 DEF Good

\* A message is asked for: it is nowhere yet
LEMMA GoodAsked ==
  ASSUME NEW s, NEW sn \in [Worker -> Seq(Msg)], NEW f, NEW g, NEW m \in Msg, NEW w \in Worker,
         Good(s, sn, f), \A x \in Worker : m \notin Of(sn[x]), g \subseteq f \union {m}
  PROVE  Good(s, [sn EXCEPT ![w] = Append(@, m)], g)
<1> DEFINE new == [sn EXCEPT ![w] = Append(@, m)]
<1>1. /\ \A x \in Worker : x # w => new[x] = sn[x]
      /\ new[w] = Append(sn[w], m) /\ sn[w] \in Seq(Msg)
  OBVIOUS
<1>2. /\ DOMAIN sn[w] = 1..Len(sn[w]) /\ DOMAIN new[w] = 1..(Len(sn[w]) + 1)
      /\ Len(sn[w]) \in Nat /\ new[w][Len(sn[w]) + 1] = m
      /\ \A i \in DOMAIN sn[w] : i \in DOMAIN new[w] /\ new[w][i] = sn[w][i]
      /\ \A i, j \in DOMAIN new[w] : i < j =>
           i \in DOMAIN sn[w] /\ (j \in DOMAIN sn[w] \/ j = Len(sn[w]) + 1)
  BY <1>1
<1> HIDE DEF new
<1>3. ASSUME NEW a, NEW b, b # m, Before(new, a, b) PROVE Before(sn, a, b)
  <2>1. PICK x \in Worker : \E i, j \in DOMAIN new[x] : i < j /\ new[x][i] = a /\ new[x][j] = b
    BY <1>3 DEF Before
  <2>2. CASE x # w
    BY <1>1, <2>1, <2>2 DEF Before
  <2>3. CASE x = w
    <3>1. PICK i \in DOMAIN new[w], j \in DOMAIN new[w] : i < j /\ new[w][i] = a /\ new[w][j] = b
      BY <2>1, <2>3
    <3>2. i \in DOMAIN sn[w] /\ j \in DOMAIN sn[w]
      BY <1>2, <1>3, <3>1
    <3>3. sn[w][i] = a /\ sn[w][j] = b
      BY <1>2, <3>1, <3>2
    <3>4. QED
      BY <3>1, <3>2, <3>3 DEF Before
  <2>4. QED
    BY <2>2, <2>3
<1>4. ASSUME NEW a, NEW x \in Worker, a \in Of(sn[x]) PROVE a \in Of(new[x])
  <2>1. CASE x # w
    BY <1>1, <1>4, <2>1
  <2>2. CASE x = w
    BY <1>2, <1>4, <2>2 DEF Of
  <2>3. QED
    BY <2>1, <2>2
<1>5. \A i \in DOMAIN s : s[i] # m
  BY DEF Good
<1>6. \A i \in DOMAIN s : s[i] \notin g /\ \E x \in Worker : s[i] \in Of(new[x])
  BY <1>4, <1>5 DEF Good
<1>7. \A i, j \in DOMAIN s : i < j => s[i] # s[j] /\ ~Before(new, s[j], s[i])
  BY <1>3, <1>5 DEF Good
<1>8. QED
  BY <1>6, <1>7 DEF Good, new

\* A message that is asked for is the last of its worker's, and nobody else's; those
\* in flight stay so
LEMMA AloneAsked ==
  ASSUME NEW sn \in [Worker -> Seq(Msg)], NEW m \in Msg, NEW w \in Worker,
         \A x \in Worker : m \notin Of(sn[x])
  PROVE  /\ Alone([sn EXCEPT ![w] = Append(@, m)], w, m)
         /\ \A x \in Worker, n \in Msg : x # w /\ Alone(sn, x, n) =>
              Alone([sn EXCEPT ![w] = Append(@, m)], x, n)
<1> DEFINE new == [sn EXCEPT ![w] = Append(@, m)]
<1>1. /\ \A x \in Worker : x # w => new[x] = sn[x]
      /\ new[w] = Append(sn[w], m) /\ sn[w] \in Seq(Msg)
  OBVIOUS
<1>2. /\ DOMAIN sn[w] = 1..Len(sn[w]) /\ DOMAIN new[w] = 1..(Len(sn[w]) + 1)
      /\ Len(sn[w]) \in Nat /\ new[w][Len(sn[w]) + 1] = m
      /\ \A i \in DOMAIN sn[w] : i \in DOMAIN new[w] /\ new[w][i] = sn[w][i]
      /\ \A i \in DOMAIN new[w] : i \in DOMAIN sn[w] \/ i = Len(sn[w]) + 1
      /\ \A i, j \in DOMAIN new[w] : i < j => i \in DOMAIN sn[w]
  BY <1>1
<1> HIDE DEF new
<1>3. \A n : n \in Of(new[w]) <=> n \in Of(sn[w]) \/ n = m
  BY <1>2 DEF Of
<1>4. \A x \in Worker : x # w => Of(new[x]) = Of(sn[x])
  BY <1>1
<1>5. ASSUME NEW a, NEW b, Before(new, a, b), ~Before(sn, a, b) PROVE a \in Of(sn[w])
  <2>1. PICK x \in Worker : \E i, j \in DOMAIN new[x] : i < j /\ new[x][i] = a /\ new[x][j] = b
    BY <1>5 DEF Before
  <2>2. x = w
    BY <1>1, <1>5, <2>1 DEF Before
  <2>3. QED
    BY <1>2, <2>1, <2>2 DEF Of
<1>6. \A n : ~Before(sn, m, n)
  BY DEF Before, Of
<1>7. Alone(new, w, m)
  BY <1>3, <1>4, <1>5, <1>6 DEF Alone
<1>8. ASSUME NEW x \in Worker, NEW n \in Msg, x # w, Alone(sn, x, n) PROVE Alone(new, x, n)
  <2>1. n \notin Of(sn[w]) /\ n \in Of(sn[x]) /\ n # m
    BY <1>8 DEF Alone
  <2>2. \A y \in Worker : n \in Of(new[y]) <=> n \in Of(sn[y])
    BY <1>3, <1>4, <2>1
  <2>3. QED
    BY <1>5, <1>8, <2>1, <2>2 DEF Alone
<1>9. QED
  BY <1>7, <1>8 DEF new

\* Only a request for a message puts one in flight
LEMMA FlightStep ==
  ASSUME TypeOK, [Next]_vars
  PROVE  \/ \E w \in Worker, u \in Updates : BeginUpdate(w, u)
         \/ sent' = sent /\ \A x \in Worker, m \in Msg : Adds(x, m)' => Adds(x, m)
<1> DEFINE Quiet == sent' = sent /\ \A x \in Worker, m \in Msg : Adds(x, m)' => Adds(x, m)
<1> USE DEF Adds
<1>1. ASSUME NEW w \in Worker, NEW v \in Val, GetOrCreate(w, v) PROVE Quiet
  BY <1>1 DEF GetOrCreate, Pending, TypeOK
<1>2. ASSUME NEW w \in Worker, ContinueUpdate(w) PROVE Quiet
  BY <1>2 DEF ContinueUpdate, Enter, TypeOK
<1>3. ASSUME NEW w \in Worker, AcquireLock(w) \/ GoOnWithoutLock(w) PROVE Quiet
  BY <1>3 DEF AcquireLock, GoOnWithoutLock, TypeOK
<1>4. ASSUME NEW w \in Worker, ReadBase(w) PROVE Quiet
  <2>1. PICK b : TakeBase(w, b)
    BY <1>4 DEF ReadBase
  <2>2. QED
    BY <1>4, <2>1 DEF ReadBase, TakeBase, TypeOK
<1>5. ASSUME NEW w \in Worker, Save(w) PROVE Quiet
  BY <1>5 DEF Save, TypeOK
<1>6. ASSUME NEW w \in Worker, Release(w) PROVE Quiet
  BY <1>6 DEF Release, TypeOK
<1>7. ASSUME NEW w \in Worker, Crash(w) PROVE Quiet
  BY <1>7 DEF Crash, TypeOK
<1>8. ASSUME NEW w \in Worker,
             \/ Get(w) \/ GetConversationState(w) \/ RefreshFromRedis(w) \/ Cleanup(w)
             \/ \E v \in Val : CreateConversation(w, v)
      PROVE  Quiet
  BY <1>8 DEF Get, GetConversationState, RefreshFromRedis, Cleanup, CreateConversation, local
<1>9. CASE Tick \/ LockExpires \/ RedisFails \/ RedisRecovers \/ UNCHANGED vars
  BY <1>9 DEF Tick, LockExpires, RedisFails, RedisRecovers, vars, local
<1>10. QED
  BY <1>1, <1>2, <1>3, <1>4, <1>5, <1>6, <1>7, <1>8, <1>9, StoreAssumption
     DEF Next, Environment, Request, Proceed, Val

\* The messages of an update: the base's, or those and the new one, less the oldest
LEMMA MutateGood ==
  ASSUME NEW u \in Update, NEW c \in Ctx, NEW t, NEW w \in Worker, NEW sn, NEW f, NEW g,
         g \subseteq f, Good(c.msgs, sn, f),
         u.kind = "add_message" => u.msg \in f \ g /\ Alone(sn, w, u.msg)
  PROVE  Good([Mutate(u, c) EXCEPT !.at = t].msgs, sn, g)
<1> DEFINE added == Append(c.msgs, u.msg)
<1>1. c.msgs \in Seq(Msg)
  BY DEF Ctx
<1>2. [Mutate(u, c) EXCEPT !.at = t].msgs
        = IF u.kind = "add_message" THEN LastKept(added) ELSE c.msgs
  BY DEF Mutate, Ctx
<1>3. CASE u.kind = "add_message"
  <2>1. Good(added, sn, g)
    BY <1>1, <1>3, GoodAppend
  <2>2. added \in Seq(Msg) /\ added # <<>>
    BY <1>1, <1>3 DEF Update
  <2>3. Good(LastKept(added), sn, g)
    BY <2>1, <2>2, GoodTail DEF LastKept
  <2>4. QED
    BY <1>2, <1>3, <2>3
<1>4. CASE u.kind # "add_message"
  BY <1>2, <1>4, GoodLanded
<1>5. QED
  BY <1>3, <1>4

\* No step that asks for nothing disturbs the order in any copy
LEMMA QuietOrder ==
  ASSUME TypeOK, AddedOnce, Ordered, [Next]_vars, sent' = sent,
         \A x \in Worker, m \in Msg : Adds(x, m)' => Adds(x, m)
  PROVE  Ordered'
<1> DEFINE C(c) == OkCopy(c, sent, Flying)
           Goal == C(redis') /\ \A w \in Worker : C(mem'[w]) /\ C(base'[w])
<1>a. C(redis) /\ \A w \in Worker : C(mem[w]) /\ C(base[w])
  BY DEF Ordered
<1>b. C(NoCtx) /\ C(NewCtx) /\ \A v : C([NewCtx EXCEPT !.owner = v])
  BY DEF OkCopy, Good, NewCtx
<1>c. \A ok : C(Loaded(ok))
  BY <1>a, <1>b DEF Loaded
<1>d. ASSUME NEW c \in Ctx, C(c), NEW v PROVE C([c EXCEPT !.state = v])
  <2>1. [c EXCEPT !.state = v].msgs = c.msgs /\ c # NoCtx
    BY NoCtxAssumption DEF Ctx
  <2>2. QED
    BY <1>d, <2>1 DEF OkCopy
<1>e. Flying' \subseteq Flying
  BY DEF Flying
<1>f. ASSUME NEW c, C(c) PROVE OkCopy(c, sent, Flying')
  BY <1>e, <1>f, GoodLanded DEF OkCopy
<1>g. \A w \in Worker, m \in Msg : Adds(w, m)' => Alone(sent, w, m)
  BY DEF Ordered
<1>h. ASSUME Goal PROVE Ordered'
  <2> DEFINE D(c) == OkCopy(c, sent, Flying')
  <2>1. D(redis') /\ \A w \in Worker : D(mem'[w]) /\ D(base'[w])
    <3> HIDE DEF C, D
    <3>1. \A c : C(c) => D(c)
      BY <1>f DEF D
    <3>2. Goal
      BY <1>h
    <3>3. QED
      BY <3>1, <3>2
  <2>2. QED
    BY <1>g, <2>1 DEF Ordered
<1>i. ASSUME NEW w \in Worker, NEW ok \in BOOLEAN, DropExpired(w, ok)
      PROVE  C(redis') /\ \A x \in Worker : C(mem'[x])
  <2> HIDE DEF C
  <2>1. QED
    BY <1>a, <1>b, <1>i DEF DropExpired, Deleted, TypeOK
<1>j. ASSUME NEW w \in Worker, NEW ok \in BOOLEAN, GetLocked(w, ok)
      PROVE  C(redis') /\ \A x \in Worker : C(mem'[x])
  <2> HIDE DEF C
  <2>1. QED
    BY <1>a, <1>c, <1>i, <1>j DEF GetLocked, TypeOK
<1>8. ASSUME NEW w \in Worker, Save(w) PROVE Ordered'
  <2> DEFINE d == [Mutate(upd[w], base[w]) EXCEPT !.at = clock]
             D(c) == OkCopy(c, sent, Flying')
  <2>1. upd[w] \in Update /\ base[w] \in Ctx
    BY <1>8 DEF Save, TypeOK
  <2>2. Good(base[w].msgs, sent, Flying)
    BY <1>a, <2>1, NoCtxAssumption DEF OkCopy
  <2>3. ASSUME upd[w].kind = "add_message"
        PROVE  upd[w].msg \in Flying \ Flying' /\ Alone(sent, w, upd[w].msg)
    <3>1. upd[w].msg \in Msg /\ Adds(w, upd[w].msg)
      BY <1>8, <2>1, <2>3 DEF Save, Update, Adds
    <3>2. \A x \in Worker : Adds(x, upd[w].msg) => x = w
      BY <3>1 DEF AddedOnce
    <3>3. \A m \in Msg : ~Adds(w, m)'
      BY <1>8 DEF Save, Adds, TypeOK
    <3>4. QED
      BY <3>1, <3>2, <3>3 DEF Flying, Ordered
  <2>4. Good(d.msgs, sent, Flying')
    <3> HIDE DEF d
    <3>1. QED
      BY <1>e, <2>1, <2>2, <2>3, MutateGood DEF d
  <2>5. D(d) /\ \A c : C(c) => D(c)
    BY <1>f, <2>4 DEF OkCopy
  <2>6. /\ redis' \in {redis, d}
        /\ \A x \in Worker : mem'[x] \in {mem[x], d} /\ base'[x] \in {base[x], NoCtx}
    BY <1>8 DEF Save, TypeOK
  <2> HIDE DEF C, D, d
  <2>7. D(redis') /\ \A x \in Worker : D(mem'[x]) /\ D(base'[x])
    BY <1>a, <1>b, <2>5, <2>6
  <2>8. QED
    BY <1>g, <2>7 DEF Ordered, D
<1> HIDE DEF C
<1>1. ASSUME NEW w \in Worker, Get(w) PROVE Goal
  BY <1>a, <1>1, <1>j DEF Get, local
<1>2. ASSUME NEW w \in Worker, GetConversationState(w) PROVE Goal
  <2> PICK ok \in BOOLEAN : mem' = [mem EXCEPT ![w].state = Loaded(ok).state]
    BY <1>2 DEF GetConversationState
  <2>1. mem[w] \in Ctx
    BY <1>2 DEF GetConversationState, Live, TypeOK
  <2>2. C([mem[w] EXCEPT !.state = Loaded(ok).state])
    BY <1>a, <1>d, <2>1
  <2>3. \A x \in Worker : mem'[x] = mem[x]
                          \/ mem'[x] = [mem[w] EXCEPT !.state = Loaded(ok).state]
    BY DEF TypeOK
  <2>4. QED
    BY <1>a, <1>2, <2>2, <2>3 DEF GetConversationState, local
<1>3. ASSUME NEW w \in Worker, RefreshFromRedis(w) PROVE Goal
  BY <1>a, <1>c, <1>3 DEF RefreshFromRedis, local, TypeOK
<1>4. ASSUME NEW w \in Worker, Cleanup(w) PROVE Goal
  BY <1>a, <1>4, <1>i DEF Cleanup, local
<1>5. ASSUME NEW w \in Worker, NEW v \in Val, CreateConversation(w, v) PROVE Goal
  BY <1>a, <1>b, <1>5 DEF CreateConversation, local, TypeOK
<1>6. ASSUME NEW w \in Worker, NEW v \in Val, GetOrCreate(w, v) PROVE Goal
  BY <1>a, <1>6, <1>j DEF GetOrCreate
<1>7. ASSUME NEW w \in Worker, ReadBase(w) PROVE Goal
  <2>1. C(BaseIfAbsent(upd[w]))
    BY <1>b DEF BaseIfAbsent
  <2>2. PICK b : C(b) /\ TakeBase(w, b)
    BY <1>7, <1>a, <1>c, <2>1 DEF ReadBase
  <2>3. \A x \in Worker : C(base'[x])
    BY <1>a, <2>2 DEF TakeBase, TypeOK
  <2>4. QED
    BY <1>a, <1>7, <1>i, <2>3 DEF ReadBase
<1>9. ASSUME NEW w \in Worker, Crash(w) PROVE Goal
  BY <1>a, <1>b, <1>9 DEF Crash, TypeOK
<1>10. ASSUME Tick PROVE Goal
  BY <1>a, <1>b, <1>10 DEF Tick, local
<1>11. ASSUME NEW w \in Worker,
              \/ \E u \in Updates : BeginUpdate(w, u)
              \/ ContinueUpdate(w) \/ AcquireLock(w) \/ GoOnWithoutLock(w) \/ Release(w)
       PROVE  Goal
  <2>1. redis' = redis /\ mem' = mem /\ base' = base
    BY <1>11 DEF BeginUpdate, ContinueUpdate, AcquireLock, GoOnWithoutLock, Release
  <2>2. QED
    BY <1>a, <2>1
<1>12. ASSUME LockExpires \/ RedisFails \/ RedisRecovers \/ UNCHANGED vars PROVE Goal
  BY <1>a, <1>12 DEF LockExpires, RedisFails, RedisRecovers, vars, local
<1> HIDE DEF Goal
<1>13. ASSUME NEW w \in Worker, Request(w) PROVE Goal
  <2>1. CASE \E v \in OwnerKeys \union {None} : CreateConversation(w, v) \/ GetOrCreate(w, v)
    <3>1. \E v \in Val : CreateConversation(w, v) \/ GetOrCreate(w, v)
      BY <2>1, StoreAssumption DEF Val
    <3>2. QED
      BY <1>5, <1>6, <3>1
  <2>2. QED
    BY <1>1, <1>2, <1>3, <1>4, <1>11, <1>13, <2>1 DEF Request
<1>14. ASSUME NEW w \in Worker, Proceed(w), ~Save(w) PROVE Goal
  BY <1>7, <1>11, <1>14 DEF Proceed
<1>15. ASSUME Environment PROVE Goal
  BY <1>9, <1>10, <1>12, <1>15 DEF Environment
<1>16. CASE \E w \in Worker : Save(w)
  BY <1>8, <1>16
<1>17. Next \/ UNCHANGED vars
  OBVIOUS
<1>18. Goal \/ \E w \in Worker : Save(w)
  BY <1>12, <1>13, <1>14, <1>15, <1>17 DEF Next
<1>19. QED
  BY <1>16, <1>18, <1>h DEF Goal

\* A message that is asked for is new: it is in no copy, and in flight at its worker
LEMMA AskOrder ==
  ASSUME TypeOK, Ordered, NEW w \in Worker, NEW u \in Update, u.kind = "add_message",
         BeginUpdate(w, u)
  PROVE  Ordered'
<1> DEFINE m == u.msg
<1>1. m \in Msg
  BY DEF Update
<1>2. \A x \in Worker : m \notin Of(sent[x])
  BY DEF BeginUpdate, Of
<1>3. sent \in [Worker -> Seq(Msg)] /\ sent' = [sent EXCEPT ![w] = Append(@, m)]
  BY DEF BeginUpdate, TypeOK
<1>4. redis' = redis /\ mem' = mem /\ base' = base
  BY DEF BeginUpdate
<1>5. ASSUME NEW x \in Worker, NEW n \in Msg, Adds(x, n)'
      PROVE  (x = w /\ n = m) \/ (x # w /\ Adds(x, n))
  <2>1. upd' = [upd EXCEPT ![w] = u]
    BY DEF BeginUpdate
  <2>2. x # w => pc'[x] = pc[x] /\ upd'[x] = upd[x]
    BY <2>1 DEF BeginUpdate, Enter, TypeOK
  <2>3. upd'[w] = u
    BY <2>1 DEF TypeOK
  <2>4. QED
    BY <1>5, <2>2, <2>3 DEF Adds
<1>6. Flying' \subseteq Flying \union {m}
  BY <1>5 DEF Flying
<1>7. ASSUME NEW c, OkCopy(c, sent, Flying) PROVE OkCopy(c, sent', Flying')
  <2>1. CASE c # NoCtx
    <3>1. Good(c.msgs, sent, Flying)
      BY <1>7, <2>1 DEF OkCopy
    <3>2. Good(c.msgs, [sent EXCEPT ![w] = Append(@, m)], Flying')
      <4> HIDE DEF m
      <4>1. QED
        BY <3>1, <1>1, <1>2, <1>3, <1>6, GoodAsked
    <3>3. QED
      BY <1>3, <3>2 DEF OkCopy
  <2>2. QED
    BY <2>1 DEF OkCopy
<1>8. ASSUME NEW x \in Worker, NEW n \in Msg, Adds(x, n)' PROVE Alone(sent', x, n)
  <2>1. x # w => Alone(sent, x, n)
    BY <1>5, <1>8 DEF Ordered
  <2> HIDE DEF m
  <2>2. QED
    BY <1>1, <1>2, <1>3, <1>5, <1>8, <2>1, AloneAsked
<1>9. /\ OkCopy(redis', sent', Flying')
      /\ \A x \in Worker : OkCopy(mem'[x], sent', Flying') /\ OkCopy(base'[x], sent', Flying')
  BY <1>4, <1>7 DEF Ordered
<1>10. QED
  BY <1>8, <1>9 DEF Ordered

\* Every step keeps the messages of a conversation in their order.
LEMMA OrderStep ==
  ASSUME TypeOK, AddedOnce, Ordered, [Next]_vars
  PROVE  Ordered'
<1>1. CASE sent' = sent /\ \A x \in Worker, m \in Msg : Adds(x, m)' => Adds(x, m)
  BY <1>1, QuietOrder
<1>2. ASSUME NEW w \in Worker, NEW u \in Updates, BeginUpdate(w, u) PROVE Ordered'
  <2>1. u \in Update
    BY DEF Updates
  <2>2. CASE u.kind = "add_message"
    BY <1>2, <2>1, <2>2, AskOrder
  <2>3. CASE u.kind # "add_message"
    <3>1. sent' = sent /\ upd' = [upd EXCEPT ![w] = u]
      BY <1>2, <2>3 DEF BeginUpdate
    <3>2. \A x \in Worker : upd'[x] = u \/ (pc'[x] = pc[x] /\ upd'[x] = upd[x])
      BY <1>2, <3>1 DEF BeginUpdate, Enter, TypeOK
    <3>3. \A x \in Worker, m \in Msg : Adds(x, m)' => Adds(x, m)
      BY <2>3, <3>2 DEF Adds
    <3>4. QED
      BY <3>1, <3>3, QuietOrder
  <2>4. QED
    BY <2>2, <2>3
<1>3. QED
  BY <1>1, <1>2, FlightStep

\* No copy of a conversation ever holds a message twice, or two messages of one worker
\* in the reverse of the order they were added in, whatever Redis, the lock and the
\* workers go through.
THEOREM MessagesAlwaysInOrder == Spec => []MessagesInOrder
<1>1. Init => Ordered
  BY DEF Init, Ordered, OkCopy, Adds
<1>2. Ordered => MessagesInOrder
  <2> SUFFICES ASSUME Ordered, NEW c \in Copies, NEW i \in DOMAIN c.msgs,
                      NEW j \in DOMAIN c.msgs, i < j
               PROVE  c.msgs[i] # c.msgs[j] /\ ~SentBefore(c.msgs[j], c.msgs[i])
    BY DEF MessagesInOrder
  <2>1. Good(c.msgs, sent, Flying)
    BY DEF Ordered, Copies, OkCopy
  <2>2. c.msgs[i] # c.msgs[j] /\ ~Before(sent, c.msgs[j], c.msgs[i])
    BY <2>1 DEF Good
  <2>3. QED
    BY <2>2 DEF SentBefore, Before
<1>3. QED
  BY <1>1, <1>2, OrderStep, TypeCorrect, AddedOnceAlways, PTL DEF Spec
=============================================================================
