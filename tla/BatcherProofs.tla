--------------------------- MODULE BatcherProofs ---------------------------
(***************************************************************************)
(* Proofs about Batcher, for any requests, keys and batch size: a request  *)
(* is in one place, coalesced wake-ups lose nothing, and batching is       *)
(* invisible to a caller (CreateService).                                  *)
(***************************************************************************)
EXTENDS Batcher, FiniteSetTheorems, TLAPS

Held(r) == \E b \in executing : r \in b.left
InBatch(r) == \E b \in executing : r \in b.members

\* A request is pending under its own key.
PendingByKey == \A k \in Keys : \A r \in pendingBatches[k] : Key[r] = k

\* A request is in one batch at most, and not pending again while that batch is executed.
BatchesDisjoint ==
    /\ \A b, d \in executing : \A r \in b.members : r \in d.members => b = d
    /\ \A b \in executing : \A r \in b.members : r \notin Pending

\* A goroutine answers nobody before its call to Azure, and has an answer for everyone after it.
BuiltIsWhole ==
    \A b \in executing :
        /\ b.step = "built" => b.left = b.members
        /\ b.step = "distributing" => \A r \in b.left : b.result[r] \in Answers

\* The channel of a request that is still to be answered has room.
ChannelHasRoom == \A r \in Requests : r \in Pending \/ Held(r) => responseChan[r] = NoResponse

\* Where the request of a caller can be, by what the caller does.
CallerMatchesPlace ==
    \A r \in Requests :
        /\ caller[r] = "idle" => r \notin Pending /\ ~InBatch(r) /\ responseChan[r] = NoResponse
        /\ caller[r] = "answered" => r \notin Pending /\ ~Held(r) /\ answer[r] \in Answers
        /\ caller[r] \in {"appended", "waiting"} => r \in Pending \/ Held(r) \/ responseChan[r] # NoResponse

Places ==
    /\ PendingByKey
    /\ BatchesDisjoint
    /\ BuiltIsWhole
    /\ ChannelHasRoom
    /\ CallerMatchesPlace

\* The loop holds no token back: also between the unlock and its next select.
NothingForgotten ==
    /\ loop \in {"select", "dispatching"} /\ Pending # {} => trigger \/ AboutToSignal
    /\ FullBatchNoticed

\* Azure hears of a machine only when its batch is sent.
NotYetCreated ==
    \A r \in Requests :
        \/ caller[r] = "idle" \/ r \in Pending
        \/ \E b \in executing : b.step = "built" /\ r \in b.members
        => r \notin created

Truthful(a, r) == (a = "success" => r \in created) /\ (a = "apiError" => r \notin created)

\* What goroutines are about to send, and what sits in the channels, is true of Azure.
AnswersTrue ==
    /\ \A b \in executing : b.step = "distributing" =>
          \A r \in b.left : Truthful(b.result[r], r)
    /\ \A r \in Requests : Truthful(responseChan[r], r)

IInv ==
    /\ TypeOK
    /\ Places
    /\ NothingForgotten
    /\ NotYetCreated
    /\ AnswersTrue

-----------------------------------------------------------------------------

\* What Azure can reply gives every member of the batch an answer, and a true one if nothing was
\* accepted of it before.
LEMMA ResultOfReply ==
    ASSUME NEW b, NEW reply \in Replies(b), NEW accepted \in Accepted(b, reply),
           Stranger \notin b.members
    PROVE  /\ ResultOf(b, reply) \in [b.members -> Answers]
           /\ accepted \subseteq b.members
           /\ \A r \in b.members :
                 /\ ResultOf(b, reply)[r] = "success" => r \in accepted
                 /\ ResultOf(b, reply)[r] = "apiError" => r \notin accepted
<1>1. CASE reply.kind = "none"
    BY <1>1 DEF Replies, Accepted, ResultOf, Everyone, Answers
<1>2. CASE reply.kind = "batch"
    BY <1>2 DEF Replies, Accepted, ResultOf, Everyone, Answers
<1>3. CASE reply.kind = "other"
    BY <1>3 DEF Replies, Accepted, ResultOf, Everyone, Answers
<1>4. CASE reply.kind = "noResponse"
    BY <1>4 DEF Replies, Accepted, ResultOf, Everyone, Answers
<1> QED
    BY <1>1, <1>2, <1>3, <1>4 DEF Replies

\* The initial state satisfies the inductive invariant.
LEMMA InitEstablishes == Init => IInv
<1> SUFFICES ASSUME Init PROVE IInv
    OBVIOUS
<1>1. Pending = {}
    BY DEF Init, NoBatches, Pending
<1>2. TypeOK
    BY BatcherAssumption DEF Init, TypeOK, NoBatches, NoResponse
<1>3. Places
    BY <1>1 DEF Init, Places, PendingByKey, BatchesDisjoint, BuiltIsWhole, ChannelHasRoom,
           CallerMatchesPlace, NoBatches, Held, InBatch, NoResponse
<1>4. NothingForgotten
    BY <1>1 DEF Init, NothingForgotten, FullBatchNoticed
<1>5. NotYetCreated /\ AnswersTrue
    BY DEF Init, NotYetCreated, AnswersTrue, Truthful, NoResponse
<1> QED
    BY <1>2, <1>3, <1>4, <1>5 DEF IInv

\* Every step keeps the types.
LEMMA TypeStep == TypeOK /\ [Next]_vars => TypeOK'
<1> SUFFICES ASSUME TypeOK, [Next]_vars PROVE TypeOK'
    OBVIOUS
<1> USE DEF loopVars, callerVars, vars
<1>1. CASE Loop
  <2>1. CASE Wake \/ WakeWhileWaiting
    BY <2>1 DEF Wake, WakeWhileWaiting, TypeOK
  <2>2. CASE CheckFull
    BY <2>2 DEF CheckFull, AfterCheck, TypeOK
  <2>3. CASE IdleTimerExpires \/ IdleTimeout \/ MaxTimeout \/ NoticeShutdown \/ Dispatched
    BY <2>3 DEF IdleTimerExpires, IdleTimeout, MaxTimeout, NoticeShutdown, Dispatched, TypeOK
  <2>4. CASE executeBatches
    <3>1. ASSUME NEW k \in Keys
          PROVE  IsBatch(NewBatch(k))
        BY DEF NewBatch, TypeOK, IsBatch
    <3>2. pendingBatches' \in [Keys -> SUBSET Requests]
        BY <2>4 DEF executeBatches, SwappedBatches, NoBatches
    <3>3. \A b \in executing' : b \in executing \/ \E k \in Keys : b = NewBatch(k)
        BY <2>4 DEF executeBatches
    <3> QED
        BY <2>4, <3>1, <3>2, <3>3 DEF executeBatches, TypeOK
  <2>5. CASE drain
    BY <2>5 DEF drain, NoBatches, NoResponse, Answers, TypeOK
  <2> QED
    BY <1>1, <2>1, <2>2, <2>3, <2>4, <2>5 DEF Loop
<1>2. ASSUME NEW r \in Requests, Caller(r)
      PROVE  TypeOK'
  <2>1. CASE Enqueue(r)
    BY <2>1, BatcherAssumption DEF Enqueue, TypeOK
  <2>2. CASE Signal(r)
    BY <2>2 DEF Signal, TriggerAfterSend, TypeOK
  <2>3. CASE EnqueueFails(r)
    BY <2>3 DEF EnqueueFails, Answers, TypeOK
  <2>4. CASE Receive(r)
    BY <2>4 DEF Receive, TypeOK
  <2>5. CASE GiveUp(r)
    BY <2>5 DEF GiveUp, TypeOK
  <2>6. CASE Return(r)
    BY <2>6 DEF Return, TypeOK
  <2> QED
    BY <1>2, <2>1, <2>2, <2>3, <2>4, <2>5, <2>6 DEF Caller
<1>3. ASSUME NEW b \in executing, Executor(b)
      PROVE  TypeOK'
  <2>0. IsBatch(b) /\ Stranger \notin b.members
    BY BatcherAssumption DEF TypeOK, IsBatch
  <2>1. CASE BuildFails(b)
    <3>1. Everyone(b, "opError") \in [b.members -> Answers \cup {NoResponse}]
        BY DEF Everyone, Answers
    <3>2. IsBatch([b EXCEPT !.step = "distributing", !.result = Everyone(b, "opError")])
        BY <2>0, <3>1 DEF IsBatch
    <3> QED
        BY <2>1, <3>2 DEF BuildFails, TypeOK
  <2>2. CASE CallAzure(b)
    <3>1. PICK reply \in Replies(b) : \E accepted \in Accepted(b, reply) :
             /\ created' = created \cup accepted
             /\ executing' = (executing \ {b}) \cup
                               {[b EXCEPT !.step = "distributing", !.result = ResultOf(b, reply)]}
        BY <2>2 DEF CallAzure
    <3>2. PICK accepted \in Accepted(b, reply) :
             /\ created' = created \cup accepted
             /\ executing' = (executing \ {b}) \cup
                               {[b EXCEPT !.step = "distributing", !.result = ResultOf(b, reply)]}
        BY <3>1
    <3>3. ResultOf(b, reply) \in [b.members -> Answers] /\ accepted \subseteq b.members
        BY <2>0, ResultOfReply
    <3>4. IsBatch([b EXCEPT !.step = "distributing", !.result = ResultOf(b, reply)])
        BY <2>0, <3>3 DEF IsBatch
    <3>5. created' \subseteq Requests
        BY <2>0, <3>2, <3>3 DEF TypeOK, IsBatch
    <3> QED
        BY <2>2, <3>2, <3>4, <3>5 DEF CallAzure, TypeOK
  <2>3. ASSUME NEW r \in b.left, Distribute(b, r)
        PROVE  TypeOK'
    <3>1. IsBatch([b EXCEPT !.left = @ \ {r}])
        BY <2>0 DEF IsBatch
    <3>2. responseChan' \in [Requests -> Answers \cup {NoResponse}]
        BY <2>0, <2>3 DEF Distribute, TypeOK, IsBatch
    <3> QED
        BY <2>3, <3>1, <3>2 DEF Distribute, TypeOK
  <2>4. CASE Panic(b)
    BY <2>4 DEF Panic, Answers, TypeOK
  <2> QED
    BY <1>3, <2>1, <2>2, <2>3, <2>4 DEF Executor
<1>4. CASE SignalFromOthers \/ Shutdown
    BY <1>4 DEF SignalFromOthers, Shutdown, TriggerAfterSend, TypeOK
<1>5. CASE UNCHANGED vars
    BY <1>5 DEF TypeOK
<1> QED
    BY <1>1, <1>2, <1>3, <1>4, <1>5 DEF Next

\* Every step leaves every request in one place.
LEMMA PlacesStep == TypeOK /\ Places /\ [Next]_vars => Places'
<1> SUFFICES ASSUME TypeOK, Places, [Next]_vars PROVE Places'
    OBVIOUS
<1> USE DEF loopVars, callerVars, vars
<1>t. \A b \in executing : b.members \subseteq Requests /\ b.left \subseteq b.members
    BY DEF TypeOK, IsBatch
<1>0. ASSUME UNCHANGED <<pendingBatches, executing, responseChan, callerVars>>
      PROVE  Places'
    BY <1>0 DEF Places, PendingByKey, BatchesDisjoint, BuiltIsWhole, ChannelHasRoom,
           CallerMatchesPlace, Pending, Held, InBatch
<1>1. CASE executeBatches
  <2>1. Pending' = {} /\ PendingByKey'
    BY <1>1 DEF executeBatches, SwappedBatches, NoBatches, Pending, PendingByKey
  <2>2. \A b \in executing' :
           \/ b \in executing
           \/ /\ \E k \in Keys : b.members = pendingBatches[k] /\ b = NewBatch(k)
              /\ b.left = b.members /\ b.step = "built"
    BY <1>1 DEF executeBatches, NewBatch
  <2>3. \A r \in Requests : Held(r)' <=> Held(r) \/ r \in Pending
    <3>1. ASSUME NEW r \in Requests, NEW k \in Keys, r \in pendingBatches[k]
          PROVE  NewBatch(k) \in executing' /\ r \in NewBatch(k).left
        BY <1>1, <3>1 DEF executeBatches, NewBatch
    <3> QED
        BY <1>1, <2>2, <3>1 DEF executeBatches, Held, Pending
  <2>4. \A r \in Requests : InBatch(r)' => InBatch(r) \/ r \in Pending
    BY <2>2 DEF InBatch, Pending
  <2>5. BatchesDisjoint'
    BY <2>1, <2>2 DEF Places, PendingByKey, BatchesDisjoint, Pending
  <2>6. BuiltIsWhole'
    BY <2>2 DEF Places, BuiltIsWhole
  <2>7. ChannelHasRoom' /\ CallerMatchesPlace'
    BY <1>1, <2>1, <2>3, <2>4 DEF executeBatches, Places, ChannelHasRoom, CallerMatchesPlace
  <2> QED
    BY <2>1, <2>5, <2>6, <2>7 DEF Places
<1>2. CASE drain
  <2>1. Pending' = {} /\ PendingByKey'
    BY <1>2 DEF drain, NoBatches, Pending, PendingByKey
  <2>2. BatchesDisjoint' /\ BuiltIsWhole'
    BY <1>2, <2>1 DEF drain, Places, BatchesDisjoint, BuiltIsWhole
  <2>3. \A r \in Requests : (Held(r)' <=> Held(r)) /\ (InBatch(r)' <=> InBatch(r))
    BY <1>2 DEF drain, Held, InBatch
  <2>4. \A r \in Requests : Held(r) => r \notin Pending
    BY <1>t DEF Places, BatchesDisjoint, Held
  <2>5. \A r \in Requests : responseChan'[r] = IF r \in Pending THEN "opError" ELSE responseChan[r]
    BY <1>2 DEF drain
  <2>6. ChannelHasRoom' /\ CallerMatchesPlace'
    BY <1>2, <2>1, <2>3, <2>4, <2>5 DEF drain, Places, ChannelHasRoom, CallerMatchesPlace, NoResponse
  <2> QED
    BY <2>1, <2>2, <2>6 DEF Places
<1>3. ASSUME NEW r \in Requests, Caller(r)
      PROVE  Places'
  <2>0. \A q \in Requests : caller'[q] = IF q = r THEN caller'[r] ELSE caller[q]
    BY <1>3 DEF Caller, Enqueue, Signal, EnqueueFails, Receive, GiveUp, Return, TypeOK
  <2>1. CASE Enqueue(r)
    <3>1. Pending' = Pending \cup {r}
        <4>1. \A k \in Keys : pendingBatches'[k] = IF k = Key[r] THEN pendingBatches[k] \cup {r}
                                                               ELSE pendingBatches[k]
            BY <2>1, BatcherAssumption DEF Enqueue, TypeOK
        <4>2. ASSUME NEW q
              PROVE  q \in Pending' <=> q \in Pending \/ q = r
            <5>1. q \in Pending <=> \E k \in Keys : q \in pendingBatches[k]
                BY DEF Pending
            <5>2. q \in Pending' <=> \E k \in Keys : q \in pendingBatches'[k]
                BY DEF Pending
            <5>3. Key[r] \in Keys
                BY BatcherAssumption
            <5> QED
                BY <4>1, <5>1, <5>2, <5>3
        <4> QED
            BY <4>2
    <3>2. PendingByKey' /\ BuiltIsWhole'
        BY <2>1, BatcherAssumption DEF Enqueue, Places, PendingByKey, BuiltIsWhole, TypeOK
    <3>3. BatchesDisjoint'
        BY <2>1, <3>1 DEF Enqueue, Places, BatchesDisjoint, CallerMatchesPlace, InBatch
    <3>4. ChannelHasRoom' /\ CallerMatchesPlace'
        BY <2>0, <2>1, <3>1 DEF Enqueue, Places, ChannelHasRoom, CallerMatchesPlace, Held, InBatch, TypeOK
    <3> QED
        BY <3>2, <3>3, <3>4 DEF Places
  <2>2. CASE Signal(r) \/ GiveUp(r)
    <3>1. Pending' = Pending
        BY <2>2 DEF Signal, GiveUp, Pending
    <3>2. PendingByKey' /\ BuiltIsWhole' /\ BatchesDisjoint'
        BY <2>2, <3>1 DEF Signal, GiveUp, Places, PendingByKey, BuiltIsWhole, BatchesDisjoint
    <3>3. ChannelHasRoom' /\ CallerMatchesPlace'
        BY <2>0, <2>2, <3>1 DEF Signal, GiveUp, Places, ChannelHasRoom, CallerMatchesPlace, Held, InBatch, TypeOK
    <3> QED
        BY <3>2, <3>3 DEF Places
  <2>3. CASE EnqueueFails(r) \/ Receive(r) \/ Return(r)
    <3>1. Pending' = Pending
        BY <2>3 DEF EnqueueFails, Receive, Return, Pending
    <3>2. PendingByKey' /\ BuiltIsWhole' /\ BatchesDisjoint'
        BY <2>3, <3>1 DEF EnqueueFails, Receive, Return, Places, PendingByKey, BuiltIsWhole, BatchesDisjoint
    <3>3. \A q \in Requests : (Held(q)' <=> Held(q)) /\ (InBatch(q)' <=> InBatch(q))
        BY <2>3 DEF EnqueueFails, Receive, Return, Held, InBatch
    <3>4. \A q \in Requests : Held(q) => InBatch(q)
        BY <1>t DEF Held, InBatch
    <3>5. CASE EnqueueFails(r)
        BY <2>0, <3>1, <3>2, <3>3, <3>4, <3>5 DEF EnqueueFails, Places, ChannelHasRoom, CallerMatchesPlace,
               Answers, TypeOK
    <3>6. CASE Receive(r)
        BY <2>0, <3>1, <3>2, <3>3, <3>6 DEF Receive, Places, ChannelHasRoom, CallerMatchesPlace, TypeOK
    <3>7. CASE Return(r)
        BY <2>0, <3>1, <3>2, <3>3, <3>7 DEF Return, Places, ChannelHasRoom, CallerMatchesPlace, InBatch, TypeOK
    <3> QED
        BY <2>3, <3>5, <3>6, <3>7
  <2> QED
    BY <1>3, <2>1, <2>2, <2>3 DEF Caller
<1>4. ASSUME NEW b \in executing, Executor(b)
      PROVE  Places'
  <2>0. Pending' = Pending /\ PendingByKey' /\ UNCHANGED <<caller, answer>>
    <3>1. UNCHANGED <<pendingBatches, caller, answer>>
        BY <1>4 DEF Executor, BuildFails, CallAzure, Distribute, Panic
    <3> QED
        BY <3>1 DEF Pending, Places, PendingByKey
  \* The batch goes on with the same members and an answer for each.
  <2>1. ASSUME NEW d, executing' = (executing \ {b}) \cup {d}, d.members = b.members,
               d.step = "distributing", d.left = b.left, UNCHANGED responseChan,
               \A r \in b.members : d.result[r] \in Answers
        PROVE  Places'
    <3>1. BatchesDisjoint' /\ BuiltIsWhole'
        BY <1>t, <2>0, <2>1 DEF Places, BatchesDisjoint, BuiltIsWhole
    <3>2. \A q \in Requests : (Held(q)' <=> Held(q)) /\ (InBatch(q)' <=> InBatch(q))
        BY <2>1 DEF Held, InBatch
    <3> QED
        BY <2>0, <2>1, <3>1, <3>2 DEF Places, ChannelHasRoom, CallerMatchesPlace
  <2>2. CASE BuildFails(b)
    <3> DEFINE d == [b EXCEPT !.step = "distributing", !.result = Everyone(b, "opError")]
    <3>1. d.members = b.members /\ d.step = "distributing" /\ d.left = b.left
        BY DEF TypeOK, IsBatch
    <3>2. \A r \in b.members : d.result[r] \in Answers
        BY DEF TypeOK, IsBatch, Everyone, Answers
    <3> QED
        BY <2>1, <2>2, <3>1, <3>2 DEF BuildFails
  <2>3. CASE CallAzure(b)
    <3>1. PICK reply \in Replies(b) : \E accepted \in Accepted(b, reply) :
             executing' = (executing \ {b}) \cup
                            {[b EXCEPT !.step = "distributing", !.result = ResultOf(b, reply)]}
        BY <2>3 DEF CallAzure
    <3> DEFINE d == [b EXCEPT !.step = "distributing", !.result = ResultOf(b, reply)]
    <3>2. d.members = b.members /\ d.step = "distributing" /\ d.left = b.left
        BY DEF TypeOK, IsBatch
    <3>3. ResultOf(b, reply) \in [b.members -> Answers]
        BY <1>t, <3>1, ResultOfReply, BatcherAssumption
    <3>4. \A r \in b.members : d.result[r] \in Answers
        BY <3>3 DEF TypeOK, IsBatch
    <3> QED
        BY <2>1, <2>3, <3>1, <3>2, <3>4 DEF CallAzure
  <2>4. ASSUME NEW r \in b.left, Distribute(b, r)
        PROVE  Places'
    <3> DEFINE d == [b EXCEPT !.left = @ \ {r}]
    <3>1. d.members = b.members /\ d.step = b.step /\ d.left = b.left \ {r} /\ d.result = b.result
        BY DEF TypeOK, IsBatch
    <3>2. \A e \in executing' : (e \in executing /\ e # b) \/ e = d
        BY <2>4 DEF Distribute
    <3>3. BatchesDisjoint' /\ BuiltIsWhole'
        BY <2>0, <2>4, <3>1, <3>2 DEF Distribute, Places, BatchesDisjoint, BuiltIsWhole
    <3>4. \A q \in Requests : InBatch(q)' => InBatch(q)
        BY <3>1, <3>2 DEF InBatch
    <3>5. \A q \in Requests : Held(q)' <=> Held(q) /\ q # r
        <4>1. ASSUME NEW q \in Requests, Held(q), q # r
              PROVE  Held(q)'
            BY <2>4, <3>1, <4>1 DEF Distribute, Held
        <4>2. ASSUME NEW q \in Requests, Held(q)'
              PROVE  Held(q)
            BY <3>1, <3>2, <4>2 DEF Held
        <4>3. ~Held(r)'
            BY <1>t, <3>1, <3>2 DEF Held, Places, BatchesDisjoint
        <4> QED
            BY <4>1, <4>2, <4>3
    <3>6. r \in Requests /\ r \notin Pending /\ b.result[r] \in Answers
        BY <1>t, <2>4 DEF Distribute, Places, BatchesDisjoint, BuiltIsWhole
    <3>7. \A q \in Requests : responseChan'[q] = IF q = r THEN b.result[r] ELSE responseChan[q]
        BY <2>4 DEF Distribute, TypeOK
    <3>8. ChannelHasRoom'
        BY <2>0, <3>5, <3>6, <3>7 DEF Places, ChannelHasRoom
    <3>9. CallerMatchesPlace'
        <4>1. responseChan'[r] # NoResponse /\ caller[r] \notin {"idle", "answered"}
            BY <1>t, <3>6, <3>7 DEF Answers, NoResponse, Places, CallerMatchesPlace, InBatch, Held
        <4> QED
            BY <2>0, <3>4, <3>5, <3>6, <3>7, <4>1 DEF Places, CallerMatchesPlace
    <3> QED
        BY <2>0, <3>3, <3>8, <3>9 DEF Places
  <2>5. CASE Panic(b)
    <3>1. BatchesDisjoint' /\ BuiltIsWhole'
        BY <2>0, <2>5 DEF Panic, Places, BatchesDisjoint, BuiltIsWhole
    <3>2. \A q \in Requests : InBatch(q)' => InBatch(q)
        BY <2>5 DEF Panic, InBatch
    <3>3. \A q \in Requests : Held(q)' <=> Held(q) /\ q \notin b.left
        BY <1>t, <2>5 DEF Panic, Held, Places, BatchesDisjoint
    <3>4. \A q \in Requests :
             responseChan'[q] = IF q \in b.members /\ responseChan[q] = NoResponse THEN "opError"
                                                                               ELSE responseChan[q]
        BY <2>5 DEF Panic
    <3>5. \A q \in Requests : Held(q)' => q \notin b.members
        BY <1>t, <2>5 DEF Panic, Held, Places, BatchesDisjoint
    <3>6. \A q \in b.members : q \notin Pending /\ InBatch(q)
        BY DEF Places, BatchesDisjoint, InBatch
    <3>7. ChannelHasRoom'
        BY <2>0, <3>3, <3>4, <3>5, <3>6 DEF Places, ChannelHasRoom
    <3>8. CallerMatchesPlace'
        BY <1>t, <2>0, <3>2, <3>3, <3>4, <3>6 DEF Places, CallerMatchesPlace, ChannelHasRoom, NoResponse
    <3> QED
        BY <2>0, <3>1, <3>7, <3>8 DEF Places
  <2> QED
    BY <1>4, <2>2, <2>3, <2>4, <2>5 DEF Executor
<1> QED
    BY <1>0, <1>1, <1>2, <1>3, <1>4 DEF Next, Loop, Wake, CheckFull, WakeWhileWaiting, IdleTimerExpires,
           IdleTimeout, MaxTimeout, NoticeShutdown, Dispatched, SignalFromOthers, Shutdown

\* No step leaves pending requests, or a full batch, to a loop that nothing will wake.
LEMMA WakeStep == TypeOK /\ Places /\ NothingForgotten /\ [Next]_vars => NothingForgotten'
<1> SUFFICES ASSUME TypeOK, Places, NothingForgotten, [Next]_vars PROVE NothingForgotten'
    OBVIOUS
<1> USE DEF loopVars, callerVars, vars
<1>1. CASE Wake \/ WakeWhileWaiting \/ NoticeShutdown \/ IdleTimeout \/ MaxTimeout \/ drain
    BY <1>1 DEF Wake, WakeWhileWaiting, NoticeShutdown, IdleTimeout, MaxTimeout, drain, NothingForgotten,
           FullBatchNoticed
<1>2. CASE CheckFull
    BY <1>2 DEF CheckFull, AfterCheck, NothingForgotten, FullBatchNoticed, anyBatchFull
<1>3. CASE executeBatches
  <2>1. Pending' = {}
    BY <1>3 DEF executeBatches, SwappedBatches, NoBatches, Pending
  <2> QED
    BY <1>3, <2>1 DEF executeBatches, NothingForgotten, FullBatchNoticed
\* The pending batches stay as they are, the callers too, and no token is taken.
<1>4. ASSUME UNCHANGED <<pendingBatches, caller>>, trigger => trigger',
             loop' = loop \/ (loop = "dispatching" /\ loop' = "select")
      PROVE  NothingForgotten'
    BY <1>4 DEF NothingForgotten, FullBatchNoticed, AboutToSignal, Pending, anyBatchFull
<1>5. ASSUME NEW r \in Requests, Caller(r)
      PROVE  NothingForgotten'
  <2>1. CASE Enqueue(r)
    <3>1. r \in pendingBatches'[Key[r]] /\ Key[r] \in Keys
        BY <2>1, BatcherAssumption DEF Enqueue, TypeOK
    <3>2. r \in Pending' /\ caller'[r] = "appended"
        BY <2>1, <3>1 DEF Enqueue, Pending, TypeOK
    <3> QED
        BY <3>2 DEF NothingForgotten, FullBatchNoticed, AboutToSignal
  <2>2. CASE Signal(r)
    BY <2>2 DEF Signal, TriggerAfterSend, NothingForgotten, FullBatchNoticed
  <2>3. CASE EnqueueFails(r) \/ Receive(r) \/ GiveUp(r) \/ Return(r)
    <3>1. Pending' = Pending /\ (anyBatchFull' <=> anyBatchFull) /\ UNCHANGED <<trigger, loop>>
        BY <2>3 DEF EnqueueFails, Receive, GiveUp, Return, Pending, anyBatchFull
    <3>2. caller[r] # "appended" /\ \A q \in Requests : q # r => caller'[q] = caller[q]
        BY <2>3 DEF EnqueueFails, Receive, GiveUp, Return, TypeOK
    <3>3. Pending \subseteq Requests
        BY DEF TypeOK, Pending
    <3>4. AboutToSignal => AboutToSignal'
        BY <3>1, <3>2, <3>3 DEF AboutToSignal
    <3> QED
        BY <3>1, <3>4 DEF NothingForgotten, FullBatchNoticed
  <2> QED
    BY <1>5, <2>1, <2>2, <2>3 DEF Caller
<1>6. ASSUME NEW b \in executing, Executor(b)
      PROVE  NothingForgotten'
  <2>1. UNCHANGED <<pendingBatches, caller, trigger, loop>>
    BY <1>6 DEF Executor, BuildFails, CallAzure, Distribute, Panic
  <2> QED
    BY <1>4, <2>1
<1>7. CASE IdleTimerExpires \/ Dispatched \/ SignalFromOthers \/ Shutdown \/ UNCHANGED vars
    BY <1>4, <1>7 DEF IdleTimerExpires, Dispatched, SignalFromOthers, TriggerAfterSend, Shutdown
<1> QED
    BY <1>1, <1>2, <1>3, <1>5, <1>6, <1>7 DEF Next, Loop

\* Every step keeps what is under way to a caller true of Azure.
LEMMA TruthStep ==
    TypeOK /\ Places /\ NotYetCreated /\ AnswersTrue /\ [Next]_vars => NotYetCreated' /\ AnswersTrue'
<1> SUFFICES ASSUME TypeOK, Places, NotYetCreated, AnswersTrue, [Next]_vars
             PROVE  NotYetCreated' /\ AnswersTrue'
    OBVIOUS
<1> USE DEF loopVars, callerVars, vars
<1>t. \A b \in executing : b.members \subseteq Requests /\ b.left \subseteq b.members
    BY DEF TypeOK, IsBatch
<1>0. ASSUME UNCHANGED <<pendingBatches, executing, responseChan, callerVars, created>>
      PROVE  NotYetCreated' /\ AnswersTrue'
    BY <1>0 DEF NotYetCreated, AnswersTrue, Truthful, Pending
<1>1. CASE executeBatches
  <2>1. Pending' = {}
    BY <1>1 DEF executeBatches, SwappedBatches, NoBatches, Pending
  <2>2. \A b \in executing' :
           b \in executing \/ (b.step = "built" /\ \A r \in b.members : r \in Pending)
    BY <1>1 DEF executeBatches, NewBatch, Pending
  <2> QED
    BY <1>1, <2>1, <2>2 DEF executeBatches, NotYetCreated, AnswersTrue, Truthful
<1>2. CASE drain
  <2>1. Pending' = {}
    BY <1>2 DEF drain, NoBatches, Pending
  <2> QED
    BY <1>2, <2>1 DEF drain, NotYetCreated, AnswersTrue, Truthful
<1>3. ASSUME NEW r \in Requests, Caller(r)
      PROVE  NotYetCreated' /\ AnswersTrue'
  <2>0. \A q \in Requests : q # r => caller'[q] = caller[q]
    BY <1>3 DEF Caller, Enqueue, Signal, EnqueueFails, Receive, GiveUp, Return, TypeOK
  <2>1. CASE Enqueue(r)
    <3>1. \A q \in Requests : q \in Pending' => q \in Pending \/ q = r
        BY <2>1, BatcherAssumption DEF Enqueue, Pending, TypeOK
    <3> QED
        BY <2>0, <2>1, <3>1 DEF Enqueue, NotYetCreated, AnswersTrue, Truthful
  <2>2. CASE Signal(r) \/ GiveUp(r) \/ EnqueueFails(r)
    BY <2>0, <2>2 DEF Signal, GiveUp, EnqueueFails, NotYetCreated, AnswersTrue, Truthful, Pending, TypeOK
  <2>3. CASE Receive(r)
    <3>1. \A q \in Requests : responseChan'[q] = IF q = r THEN NoResponse ELSE responseChan[q]
        BY <2>3 DEF Receive, TypeOK
    <3> QED
        BY <2>0, <2>3, <3>1 DEF Receive, NotYetCreated, AnswersTrue, Truthful, NoResponse, Pending, TypeOK
  <2>4. CASE Return(r)
    <3>1. \A q \in Requests : responseChan'[q] = IF q = r THEN NoResponse ELSE responseChan[q]
        BY <2>4 DEF Return, TypeOK
    <3>2. created' = created \ {r} /\ executing' = executing /\ \A b \in executing : r \notin b.members
        BY <2>4 DEF Return
    <3>3. NotYetCreated'
        BY <2>0, <2>4, <3>2 DEF Return, NotYetCreated, Pending
    <3>4. AnswersTrue'
        BY <1>t, <3>1, <3>2 DEF AnswersTrue, Truthful, NoResponse
    <3> QED
        BY <3>3, <3>4
  <2> QED
    BY <1>3, <2>1, <2>2, <2>3, <2>4 DEF Caller
<1>4. ASSUME NEW b \in executing, Executor(b)
      PROVE  NotYetCreated' /\ AnswersTrue'
  <2>0. Pending' = Pending /\ UNCHANGED caller
    <3>1. UNCHANGED <<pendingBatches, caller>>
        BY <1>4 DEF Executor, BuildFails, CallAzure, Distribute, Panic
    <3> QED
        BY <3>1 DEF Pending
  <2>1. CASE BuildFails(b)
    <3> DEFINE d == [b EXCEPT !.step = "distributing", !.result = Everyone(b, "opError")]
    <3>1. /\ d.members = b.members /\ d.step = "distributing" /\ d.left = b.left
          /\ d.result = Everyone(b, "opError")
        BY DEF TypeOK, IsBatch
    <3>2. \A r \in b.left : d.result[r] = "opError"
        BY <1>t, <3>1 DEF Everyone
    <3>3. \A e \in executing' : e \in executing \/ e = d
        BY <2>1 DEF BuildFails
    <3> QED
        BY <2>0, <2>1, <3>1, <3>2, <3>3 DEF BuildFails, NotYetCreated, AnswersTrue, Truthful
  <2>2. CASE CallAzure(b)
    <3>1. PICK reply \in Replies(b) : \E accepted \in Accepted(b, reply) :
             /\ created' = created \cup accepted
             /\ executing' = (executing \ {b}) \cup
                               {[b EXCEPT !.step = "distributing", !.result = ResultOf(b, reply)]}
        BY <2>2 DEF CallAzure
    <3>2. PICK accepted \in Accepted(b, reply) :
             /\ created' = created \cup accepted
             /\ executing' = (executing \ {b}) \cup
                               {[b EXCEPT !.step = "distributing", !.result = ResultOf(b, reply)]}
        BY <3>1
    <3>3. /\ accepted \subseteq b.members
          /\ \A r \in b.members : /\ ResultOf(b, reply)[r] = "success" => r \in accepted
                                  /\ ResultOf(b, reply)[r] = "apiError" => r \notin accepted
        BY <1>t, BatcherAssumption, ResultOfReply
    <3> DEFINE d == [b EXCEPT !.step = "distributing", !.result = ResultOf(b, reply)]
    <3>4. /\ d.members = b.members /\ d.step = "distributing" /\ d.left = b.left
          /\ d.result = ResultOf(b, reply)
        BY DEF TypeOK, IsBatch
    <3>5. \A e \in executing' : (e \in executing /\ e # b) \/ e = d
        BY <3>2
    <3>6. b.left = b.members /\ \A r \in b.members : r \notin created
        BY <1>t, <2>2 DEF CallAzure, Places, BuiltIsWhole, NotYetCreated
    <3>7. NotYetCreated'
        <4>1. ASSUME NEW r \in b.members PROVE r \notin Pending /\ caller[r] # "idle"
            BY <1>t, <4>1 DEF Places, BatchesDisjoint, CallerMatchesPlace, InBatch
        <4>2. ASSUME NEW r \in b.members, NEW e \in executing', e.step = "built" PROVE r \notin e.members
            BY <3>4, <3>5, <4>2 DEF Places, BatchesDisjoint
        <4> QED
            BY <2>0, <3>2, <3>3, <3>4, <3>5, <4>1, <4>2 DEF NotYetCreated
    <3>8. AnswersTrue'
        <4>1. \A r \in b.members : responseChan[r] = NoResponse
            BY <1>t, <3>6 DEF Places, ChannelHasRoom, Held
        <4>2. \A e \in executing : e # b => \A r \in e.left : r \notin b.members
            BY <1>t DEF Places, BatchesDisjoint
        <4>3. \A r \in Requests : Truthful(responseChan[r], r)'
            BY <2>2, <3>2, <3>3, <4>1 DEF CallAzure, AnswersTrue, Truthful, NoResponse
        <4>4. ASSUME NEW e \in executing', e.step = "distributing", NEW r \in e.left
              PROVE  Truthful(e.result[r], r)'
            <5>1. CASE e = d
                BY <1>t, <3>2, <3>3, <3>4, <3>6, <5>1 DEF Truthful
            <5>2. CASE e \in executing /\ e # b
                BY <3>2, <3>3, <4>2, <4>4, <5>2 DEF AnswersTrue, Truthful
            <5> QED
                BY <3>5, <5>1, <5>2
        <4> QED
            BY <4>3, <4>4 DEF AnswersTrue
    <3> QED
        BY <3>7, <3>8
  <2>3. ASSUME NEW r \in b.left, Distribute(b, r)
        PROVE  NotYetCreated' /\ AnswersTrue'
    <3> DEFINE d == [b EXCEPT !.left = @ \ {r}]
    <3>1. d.members = b.members /\ d.step = b.step /\ d.left = b.left \ {r} /\ d.result = b.result
        BY DEF TypeOK, IsBatch
    <3>2. \A e \in executing' : e \in executing \/ e = d
        BY <2>3 DEF Distribute
    <3>3. \A q \in Requests : responseChan'[q] = IF q = r THEN b.result[r] ELSE responseChan[q]
        BY <2>3 DEF Distribute, TypeOK
    <3> QED
        <4>1. NotYetCreated'
            BY <2>0, <2>3, <3>1, <3>2 DEF Distribute, NotYetCreated
        <4>2. created' = created /\ b.step = "distributing"
            BY <2>3 DEF Distribute
        <4>3. AnswersTrue'
            BY <3>1, <3>2, <3>3, <4>2 DEF AnswersTrue, Truthful
        <4> QED
            BY <4>1, <4>3
  <2>4. CASE Panic(b)
    BY <2>0, <2>4 DEF Panic, NotYetCreated, AnswersTrue, Truthful
  <2> QED
    BY <1>4, <2>1, <2>2, <2>3, <2>4 DEF Executor
<1> QED
    BY <1>0, <1>1, <1>2, <1>3, <1>4 DEF Next, Loop, Wake, CheckFull, WakeWhileWaiting, IdleTimerExpires,
           IdleTimeout, MaxTimeout, NoticeShutdown, Dispatched, SignalFromOthers, Shutdown

\* Every step preserves the inductive invariant.
LEMMA StepPreserves == IInv /\ [Next]_vars => IInv'
BY TypeStep, PlacesStep, WakeStep, TruthStep DEF IInv

\* One place per request, in the tokens' terms.
LEMMA OneToken ==
    ASSUME TypeOK, Places
    PROVE  ExactlyOneAnswer
<1> SUFFICES ASSUME NEW r \in Requests
             PROVE  Tokens(r) <= 1 /\ (caller[r] \in {"appended", "waiting"} => Tokens(r) = 1)
    BY DEF ExactlyOneAnswer
<1> DEFINE holders == {b \in executing : r \in b.left}
<1>1. CASE Held(r)
  <2>1. PICK b \in executing : r \in b.left
    BY <1>1 DEF Held
  <2>2. holders = {b}
    BY <2>1 DEF TypeOK, IsBatch, Places, BatchesDisjoint
  <2>3. Cardinality(holders) = 1
    BY <2>2, FS_Singleton
  <2>4. r \notin Pending /\ responseChan[r] = NoResponse
    BY <1>1, <2>1 DEF TypeOK, IsBatch, Places, BatchesDisjoint, ChannelHasRoom
  <2> QED
    BY <2>3, <2>4 DEF Tokens, Count
<1>2. CASE ~Held(r)
  <2>1. holders = {}
    BY <1>2 DEF Held
  <2>2. Cardinality(holders) = 0
    BY <2>1, FS_EmptySet
  <2>3. r \in Pending => responseChan[r] = NoResponse
    BY DEF Places, ChannelHasRoom
  <2>4. caller[r] \in {"appended", "waiting"} => r \in Pending \/ responseChan[r] # NoResponse
    BY <1>2 DEF Places, CallerMatchesPlace
  <2> QED
    BY <2>2, <2>3, <2>4 DEF Tokens, Count
<1> QED
    BY <1>1, <1>2

\* The inductive invariant holds in every reachable state.
THEOREM InvariantHolds == Spec => []IInv
<1>1. IInv /\ [Next]_vars => IInv'
    BY StepPreserves
<1> QED
    BY <1>1, InitEstablishes, PTL DEF Spec

\* Every variable keeps its type.
THEOREM TypeCorrect == Spec => []TypeOK
<1>1. IInv => TypeOK
    BY DEF IInv
<1> QED
    BY <1>1, InvariantHolds, PTL

\* However enqueues, batches, panics and a shutdown interleave, a request is in one place and a
\* waiting caller's answer is on its way.
THEOREM OneAnswerCorrect == Spec => []ExactlyOneAnswer
<1>1. IInv => ExactlyOneAnswer
    BY OneToken DEF IInv
<1> QED
    BY <1>1, InvariantHolds, PTL

\* The loop never sleeps on pending requests, however the wake-ups coalesce.
THEOREM WakeupCorrect == Spec => []NoLostWakeup
<1>1. IInv => NoLostWakeup
    BY DEF IInv, NothingForgotten, NoLostWakeup
<1> QED
    BY <1>1, InvariantHolds, PTL

\* The loop never waits for a timer over a full batch without a wake-up on its way.
THEOREM FullBatchCorrect == Spec => []FullBatchNoticed
<1>1. IInv => FullBatchNoticed
    BY DEF IInv, NothingForgotten
<1> QED
    BY <1>1, InvariantHolds, PTL

-----------------------------------------------------------------------------
(* The batcher implements CreateService.                                   *)

\* The first state of the batcher is one of the service.
LEMMA ServiceInit == Init => Service!Init
BY DEF Init, Service!Init, Outcome, Heard, NoResponse

\* What one caller's step means to the service.
LEMMA CallerRefines ==
    ASSUME IInv, NEW r \in Requests, Caller(r)
    PROVE  Service!Next \/ UNCHANGED Service!serviceVars
<1> USE DEF callerVars, loopVars
<1>t. caller \in [Requests -> {"idle", "appended", "waiting", "answered", "gaveUp"}]
    BY DEF IInv, TypeOK
<1>o. ASSUME NEW a, Outcome'[r] = a, \A q \in Requests : q # r => caller'[q] = caller[q] /\ answer'[q] = answer[q]
      PROVE  Outcome' = [Outcome EXCEPT ![r] = a]
  <2>1. ASSUME NEW q \in Requests PROVE Outcome'[q] = [Outcome EXCEPT ![r] = a][q]
    <3>1. CASE q = r
      <4>1. r \in DOMAIN Outcome
        BY DEF Outcome
      <4> QED
        BY <1>o, <3>1, <4>1
    <3>2. CASE q # r
      <4>1. caller'[q] = caller[q] /\ answer'[q] = answer[q]
        BY <1>o, <3>2
      <4>2. Outcome'[q] = Outcome[q]
        BY <4>1 DEF Outcome
      <4>3. q \in DOMAIN Outcome
        BY DEF Outcome
      <4> QED
        BY <3>2, <4>2, <4>3
    <3> QED
      BY <3>1, <3>2
  <2>2. Outcome' = [q \in Requests |-> Outcome'[q]] /\ Outcome = [q \in Requests |-> Outcome[q]]
    BY DEF Outcome
  <2>3. [Outcome EXCEPT ![r] = a] = [q \in Requests |-> [Outcome EXCEPT ![r] = a][q]]
    BY <2>2
  <2> QED
    BY <2>1, <2>2, <2>3
<1>1. CASE Enqueue(r)
  <2>1. Outcome[r] = "none" /\ Outcome'[r] = "submitted"
    BY <1>1, <1>t DEF Enqueue, Outcome, Heard
  <2>2. Service!Submit(r)
    BY <1>1, <1>o, <1>t, <2>1 DEF Enqueue, Service!Submit
  <2> QED
    BY <2>2 DEF Service!Next
<1>2. CASE Signal(r)
    BY <1>2, <1>t DEF Signal, Outcome, Heard, Service!serviceVars
<1>3. CASE EnqueueFails(r)
  <2>1. Outcome[r] = "none" /\ Outcome'[r] = "opError"
    BY <1>3, <1>t DEF EnqueueFails, Outcome, Heard, IInv, TypeOK
  <2>2. Service!Refuse(r)
    BY <1>3, <1>o, <1>t, <2>1 DEF EnqueueFails, Service!Refuse, IInv, TypeOK
  <2> QED
    BY <2>2 DEF Service!Next
<1>4. CASE Receive(r)
  <2>1. Outcome[r] = "submitted" /\ Outcome'[r] = responseChan[r]
    BY <1>4, <1>t DEF Receive, Outcome, Heard, IInv, TypeOK
  <2>2. responseChan[r] \in Answers /\ Truthful(responseChan[r], r)
    BY <1>4 DEF Receive, IInv, TypeOK, AnswersTrue
  <2>3. Service!Answer(r, responseChan[r])
    BY <1>4, <1>o, <1>t, <2>1, <2>2 DEF Receive, Service!Answer, Truthful, IInv, TypeOK
  <2> QED
    BY <2>2, <2>3 DEF Service!Next, Service!Answers, Answers
<1>5. CASE GiveUp(r)
  <2>1. Outcome[r] = "submitted" /\ Outcome'[r] = "gaveUp"
    BY <1>5, <1>t DEF GiveUp, Outcome, Heard
  <2>2. Service!GiveUp(r)
    BY <1>5, <1>o, <1>t, <2>1 DEF GiveUp, Service!GiveUp
  <2> QED
    BY <2>2 DEF Service!Next
<1>6. CASE Return(r)
  <2>1. Outcome[r] \in Answers /\ Outcome'[r] = "none"
    BY <1>6, <1>t DEF Return, Outcome, Heard, IInv, Places, CallerMatchesPlace
  <2>2. Service!Renew(r)
    BY <1>6, <1>o, <1>t, <2>1 DEF Return, Service!Renew, Service!Answers, Answers, IInv, TypeOK
  <2> QED
    BY <2>2 DEF Service!Next
<1> QED
    BY <1>1, <1>2, <1>3, <1>4, <1>5, <1>6 DEF Caller

\* Every step of the batcher is a step of the service or changes nothing a caller can see.
LEMMA StepRefines == IInv /\ [Next]_vars => [Service!Next]_(Service!serviceVars)
<1> SUFFICES ASSUME IInv, [Next]_vars PROVE Service!Next \/ UNCHANGED Service!serviceVars
    OBVIOUS
<1> USE DEF callerVars, loopVars, vars
<1>0. ASSUME UNCHANGED <<caller, answer, created>>
      PROVE  UNCHANGED Service!serviceVars
    BY <1>0 DEF Outcome, Service!serviceVars
<1>1. CASE Loop \/ SignalFromOthers \/ Shutdown \/ UNCHANGED vars
    BY <1>0, <1>1 DEF Loop, Wake, CheckFull, WakeWhileWaiting, IdleTimerExpires, IdleTimeout, MaxTimeout,
           NoticeShutdown, executeBatches, Dispatched, drain, SignalFromOthers, Shutdown
<1>2. CASE \E r \in Requests : Caller(r)
    BY <1>2, CallerRefines
<1>3. ASSUME NEW b \in executing, Executor(b)
      PROVE  Service!Next \/ UNCHANGED Service!serviceVars
  <2>1. CASE BuildFails(b) \/ (\E r \in b.left : Distribute(b, r)) \/ Panic(b)
    <3>1. UNCHANGED <<caller, answer, created>>
        BY <2>1 DEF BuildFails, Distribute, Panic
    <3> QED
        BY <1>0, <3>1
  <2>2. CASE CallAzure(b)
    <3>1. PICK reply \in Replies(b) : \E accepted \in Accepted(b, reply) : created' = created \cup accepted
        BY <2>2 DEF CallAzure
    <3>2. PICK accepted \in Accepted(b, reply) : created' = created \cup accepted
        BY <3>1
    <3>3. b.members \subseteq Requests /\ accepted \subseteq b.members
        BY BatcherAssumption, ResultOfReply DEF IInv, TypeOK, IsBatch
    <3>4. ASSUME NEW r \in b.members
          PROVE  Outcome[r] \in {"submitted", "gaveUp"} /\ r \notin created
        <4>1. r \in Requests /\ r \in b.left
            BY <2>2, <3>3 DEF CallAzure, IInv, Places, BuiltIsWhole
        <4>2. caller[r] \in {"appended", "waiting", "gaveUp"}
            BY <4>1 DEF IInv, TypeOK, Places, CallerMatchesPlace, InBatch, Held
        <4>3. r \notin created
            BY <2>2, <4>1 DEF CallAzure, IInv, NotYetCreated
        <4> QED
            BY <4>1, <4>2, <4>3 DEF Outcome, Heard
    <3>5. UNCHANGED Outcome
        <4>1. UNCHANGED <<caller, answer>>
            BY <2>2 DEF CallAzure
        <4> QED
            BY <4>1 DEF Outcome
    <3>6. Service!Accept(accepted)
        BY <3>2, <3>3, <3>4, <3>5 DEF Service!Accept
    <3> QED
        BY <3>3, <3>6 DEF Service!Next
  <2> QED
    BY <1>3, <2>1, <2>2 DEF Executor
<1> QED
    BY <1>1, <1>2, <1>3 DEF Next

\* Batching is invisible: the batcher and its executor implement CreateService, for any number of
\* callers and keys. Nobody is told success for a machine Azure turned down, or an API error for
\* one it accepted, and nobody hears twice.
THEOREM ServiceImplemented == Spec => ImplementsService
<1>1. IInv /\ [Next]_vars => [Service!Next]_(Service!serviceVars)
    BY StepRefines
<1> QED
    BY <1>1, ServiceInit, InvariantHolds, PTL DEF Spec, ImplementsService, Service!Spec

=============================================================================
