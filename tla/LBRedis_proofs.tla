---------------------------- MODULE LBRedis_proofs ----------------------------
(***************************************************************************)
(* Theorems about LBRedis, for any number of requests, targets and         *)
(* clusters and any configuration.                                         *)
(***************************************************************************)
EXTENDS LBRedis, FiniteSetTheorems, SequenceTheorems, TLAPS

USE DEF Outcome

\* The seconds EXPIRE is given cover maxInflightAgeMs, although they are
\* computed by integer division: a key never expires under a young entry.
LEMMA TTLCoversAge ==
  /\ InflightTTLSeconds \in Nat
  /\ InflightTTLSeconds * 1000 >= MaxAge
<1>1. MaxAge \in Nat \ {0} /\ MinInflightTTL \in Nat \ {0}
  BY ConfigAssumption
<1>2. PICK q \in Nat : q = (MaxAge * 2) \div 1000 /\ 1000 * q > MaxAge * 2 - 1000
  BY <1>1, SMTT(30)
<1>3. CASE q >= MinInflightTTL
  BY <1>1, <1>2, <1>3 DEF InflightTTLSeconds, Larger
<1>4. CASE q < MinInflightTTL
  BY <1>1, <1>2, <1>4 DEF InflightTTLSeconds, Larger
<1>. QED BY <1>1, <1>2, <1>3, <1>4

LEMMA ConstantTypes ==
  /\ IsFiniteSet(Req) /\ IsFiniteSet(Target) /\ NoTarget \notin Target
  /\ ClusterOf \in [Target -> Cluster] /\ MaxRun \in [Target -> Nat]
  /\ MaxAge \in Nat /\ MaxAge > 0 /\ Threshold \in Nat /\ Threshold > 0
  /\ Cooldown \in Nat /\ Cooldown > 0 /\ Ramp \in Nat /\ Ramp > 0
  /\ TickMs \in Nat /\ TickMs > 0 /\ MaxTime \in Nat
  /\ Endings \in [Req -> SUBSET {"ok", "fail"}]
BY ConfigAssumption

LEMMA HealthTTLType == HealthTTLSeconds \in Nat
<1>1. PICK q \in Nat : q = ((Cooldown + Ramp) * 2) \div 1000
  BY ConfigAssumption, SMTT(30)
<1>. QED BY <1>1, ConfigAssumption DEF HealthTTLSeconds, Larger

\* A walk order lists published targets; only an empty set has none.
LEMMA ReserveOrdersType ==
  ASSUME NEW S \in SUBSET Target, S # {}, NEW o \in ReserveOrders(S)
  PROVE  o \in Seq(Target) /\ Len(o) > 0
<1>1. IsFiniteSet(S) /\ Cardinality(S) \in Nat /\ Cardinality(S) > 0
  BY ConstantTypes, FS_Subset, FS_CardinalityType, FS_EmptySet
<1>2. CASE S \intersect HasWeight = {}
  <2>1. o \in [1..Cardinality(S) -> S]
    BY <1>2 DEF ReserveOrders, SetToSeqs
  <2>2. o \in [1..Cardinality(S) -> Target]
    BY <2>1
  <2>. QED BY <1>1, <2>2
<1>3. CASE S \intersect HasWeight # {}
  <2>1. o \in [1..1 -> Target]
    BY <1>3 DEF ReserveOrders
  <2>. QED BY <2>1, SMTT(30)
<1>. QED BY <1>2, <1>3

-----------------------------------------------------------------------------
(***************************************************************************)
(* The inductive invariant.  HardCap alone is not inductive: it follows    *)
(* from two facts about redis that are, that a sorted set never outgrows   *)
(* its cap and that the slot of a young reserved request is still in it.   *)
(* The second needs the clocks of the messages on their way (none of them  *)
(* is ahead of now), the expiry of the key, and the request that has its   *)
(* slot but not yet the answer.                                            *)
(***************************************************************************)
ClocksPast == \A r \in Req : start[r] <= now /\ doneAt[r] <= now /\ loadAt[r] <= now

Phase(r) ==
  /\ pc[r] \in {"idle", "bypassed", "loading", "published"} => reserve[r] = "none"
  /\ reserve[r] = "none" => \A t \in Target : r \notin inflight[t]
  /\ reserve[r] = "sent" => \A t \in Target : r \notin inflight[t]
  /\ pc[r] \notin {"done"} => release[r] = "none"
  /\ pc[r] = "reserving" => Len(order[r]) > 0 /\ reserve[r] # "none"
  /\ IF pc[r] = "reserving" THEN pick[r] <= Len(order[r]) ELSE pick[r] = 0
  /\ pc[r] = "running" => chosen[r] \in Target
  /\ release[r] # "none" => chosen[r] \in Target
  /\ Reserved(r) => reserve[r] = "executed"
  /\ reserve[r] # "executed" => pick[r] = 0

Phases == \A r \in Req : Phase(r)

KeysOutlive == \A t \in Target : \A r \in inflight[t] : start[r] + MaxAge <= inflightExp[t]

StoreCapped == \A t \in Target : MaxRun[t] > 0 => Cardinality(inflight[t]) <= MaxRun[t]

AnswerHeld ==
  \A r \in Req : pc[r] = "reserving" /\ reserve[r] = "executed" /\ pick[r] > 0 /\ Young(r)
    => r \in inflight[order[r][pick[r]]]

IInv == TypeOK /\ ClocksPast /\ Phases /\ KeysOutlive /\ StoreCapped /\ AnswerHeld /\ SlotHeld

LEMMA InitIInv == Init => IInv
<1>. SUFFICES ASSUME Init PROVE IInv
  OBVIOUS
<1>. USE DEF Init
<1>1. TypeOK
  BY ConstantTypes DEF TypeOK, Clean
<1>2. ClocksPast /\ Phases /\ KeysOutlive /\ AnswerHeld /\ SlotHeld
  BY DEF ClocksPast, Phases, Phase, KeysOutlive, AnswerHeld, SlotHeld, Reserved
<1>3. StoreCapped
  BY FS_EmptySet, ConstantTypes DEF StoreCapped
<1>. QED BY <1>1, <1>2, <1>3 DEF IInv

-----------------------------------------------------------------------------
(***************************************************************************)
(* Steps of the filter chain: redis is not touched, so what redis holds of *)
(* a request is as before.                                                 *)
(***************************************************************************)
LEMMA ContextStep ==
  ASSUME IInv, NEW r \in Req, Arrive(r) \/ Fallback(r) \/ LoadReply(r) \/ LoadFails(r) \/ RejectEmpty(r)
  PROVE  IInv'
<1>. USE DEF wire, redis, IInv
<1>1. TypeOK'
  <2>1. CASE Arrive(r)
    BY <2>1 DEF Arrive, TypeOK
  <2>2. CASE Fallback(r)
    BY <2>2 DEF Fallback, TypeOK
  <2>3. ASSUME NEW h, pc[r] = "loading" /\ Publish(r, h)
        PROVE  TypeOK'
    BY <2>3 DEF Publish, TypeOK
  <2>4. CASE RejectEmpty(r)
    BY <2>4 DEF RejectEmpty, TypeOK
  <2>. QED BY <2>1, <2>2, <2>3, <2>4 DEF LoadReply, LoadFails
<1>2. /\ UNCHANGED <<now, order, start, chosen, token, wire, redis>>
      /\ \A q \in Req : loadAt'[q] \in {loadAt[q], now, 0}
      /\ \E label \in {"loading", "bypassed", "published", "rejected"} :
           pc' = [pc EXCEPT ![r] = label]
      /\ pc[r] \in {"idle", "loading", "published"}
  BY DEF Arrive, Fallback, LoadReply, LoadFails, RejectEmpty, Publish, TypeOK
<1>3. ClocksPast'
  <2>. SUFFICES ASSUME NEW q \in Req PROVE start[q] <= now /\ doneAt[q] <= now /\ loadAt'[q] <= now
    BY <1>2 DEF ClocksPast
  <2>1. start[q] <= now /\ doneAt[q] <= now /\ loadAt[q] <= now /\ 0 <= now /\ now \in Nat
    BY DEF ClocksPast, TypeOK
  <2>. QED BY <1>2, <2>1
<1>4. Phases'
  BY <1>2 DEF Phases, Phase, TypeOK, Reserved
<1>5. KeysOutlive' /\ StoreCapped'
  BY <1>2 DEF KeysOutlive, StoreCapped
<1>6. AnswerHeld' /\ SlotHeld'
  BY <1>2, SMTT(30) DEF AnswerHeld, SlotHeld, Reserved, Young, TypeOK
<1>. QED BY <1>1, <1>3, <1>4, <1>5, <1>6

LEMMA SendReserveStep ==
  ASSUME IInv, NEW r \in Req, SendReserve(r)
  PROVE  IInv'
<1>. USE DEF wire, redis, IInv
<1>1. PICK o \in ReserveOrders(published[r]) : order' = [order EXCEPT ![r] = o]
  BY DEF SendReserve
<1>2. o \in Seq(Target) /\ Len(o) > 0
  BY <1>1, ReserveOrdersType DEF SendReserve, TypeOK
<1>3. TypeOK'
  BY <1>1, <1>2 DEF SendReserve, TypeOK
<1>4. ClocksPast'
  BY DEF SendReserve, ClocksPast, TypeOK
<1>5. Phases'
  BY <1>1, <1>2, SMTT(30) DEF SendReserve, Phases, Phase, TypeOK, Reserved
<1>6. \A t \in Target : r \notin inflight[t]
  BY DEF SendReserve, Phases, Phase
<1>7. KeysOutlive' /\ StoreCapped'
  BY <1>6 DEF SendReserve, KeysOutlive, StoreCapped, TypeOK
<1>8. AnswerHeld' /\ SlotHeld'
  BY <1>1, <1>6 DEF SendReserve, AnswerHeld, SlotHeld, Reserved, Young, TypeOK
<1>. QED BY <1>3, <1>4, <1>5, <1>7, <1>8

LEMMA ForgetType ==
  ASSUME TypeOK, NEW r \in Req
  PROVE  Forget(r) \in [Req -> Seq(Target)] /\ \A q \in Req \ {r} : Forget(r)[q] = order[q]
BY DEF Forget, TypeOK

OthersUntouched(r) ==
  \A q \in Req \ {r} :
    /\ pc'[q] = pc[q] /\ chosen'[q] = chosen[q] /\ token'[q] = token[q]
    /\ reserve'[q] = reserve[q] /\ pick'[q] = pick[q] /\ order'[q] = order[q]

\* What a step of r must show of r itself.
OwnSlot(r) ==
  /\ ~(pc'[r] = "reserving" /\ reserve'[r] = "executed")
  /\ pc'[r] = "running" /\ token'[r] /\ now - start[r] < MaxAge => r \in inflight[chosen'[r]]

\* A step of one stream keeps what redis holds for the others.
LEMMA OwnStep ==
  ASSUME TypeOK, TypeOK', AnswerHeld, SlotHeld, NEW r \in Req,
         UNCHANGED <<now, start, inflight>>,
         OthersUntouched(r), OwnSlot(r)
  PROVE  AnswerHeld' /\ SlotHeld'
<1>1. AnswerHeld'
  <2>. SUFFICES ASSUME NEW q \in Req,
                       pc'[q] = "reserving" /\ reserve'[q] = "executed" /\ pick'[q] > 0 /\ Young(q)'
                PROVE  q \in inflight'[order'[q][pick'[q]]]
    BY DEF AnswerHeld
  <2>1. q # r
    BY DEF OwnSlot
  <2>. QED BY <2>1 DEF AnswerHeld, Young, OthersUntouched
<1>2. SlotHeld'
  <2>. SUFFICES ASSUME NEW q \in Req, Reserved(q)' /\ Young(q)'
                PROVE  q \in inflight'[chosen'[q]]
    BY DEF SlotHeld
  <2>1. CASE q = r
    BY <2>1 DEF Young, Reserved, OwnSlot
  <2>2. CASE q # r
    BY <2>2 DEF SlotHeld, Reserved, Young, OthersUntouched
  <2>. QED BY <2>1, <2>2
<1>. QED BY <1>1, <1>2

LEMMA ReserveReplyStep ==
  ASSUME IInv, NEW r \in Req, ReserveReply(r)
  PROVE  IInv'
<1>. USE DEF redis, IInv
<1>1. pc[r] = "reserving" /\ reserve[r] = "executed" /\ pick[r] \in Nat /\ pick[r] <= Len(order[r])
  BY DEF ReserveReply, Phases, Phase, TypeOK
<1>2. /\ UNCHANGED <<now, loadAt, published, probation, start, reserve, release, doneAt, outcome, redis>>
      /\ order' = Forget(r) /\ pick' = [pick EXCEPT ![r] = 0]
  BY DEF ReserveReply
<1>3. CASE pick[r] > 0
  <2>1. /\ pc' = [pc EXCEPT ![r] = "running"]
        /\ chosen' = [chosen EXCEPT ![r] = order[r][pick[r]]]
        /\ token' = [token EXCEPT ![r] = TRUE]
        /\ order[r][pick[r]] \in Target
    BY <1>1, <1>3 DEF ReserveReply, Route, TypeOK
  <2>2. TypeOK'
    BY <1>2, <2>1, ForgetType DEF TypeOK
  <2>3. Phases'
    <3>. SUFFICES ASSUME NEW q \in Req PROVE Phase(q)'
      BY DEF Phases
    <3>1. Phase(q)
      BY DEF Phases
    <3>2. CASE q = r
      <4>1. /\ pc'[q] = "running" /\ chosen'[q] \in Target /\ pick'[q] = 0
            /\ reserve'[q] = "executed" /\ release'[q] = "none"
        BY <3>1, <3>2, <1>1, <1>2, <2>1 DEF Phase, TypeOK
      <4>. QED BY <4>1 DEF Phase, Reserved
    <3>3. CASE q # r
      BY <3>1, <3>3, <1>2, <2>1, ForgetType DEF Phase, Reserved, TypeOK
    <3>. QED BY <3>2, <3>3
  <2>4. Young(r) => r \in inflight[chosen'[r]]
    BY <1>1, <1>3, <2>1 DEF AnswerHeld, TypeOK
  <2>5. AnswerHeld' /\ SlotHeld'
    <3>1. OthersUntouched(r)
      BY <1>2, <2>1, <2>4, ForgetType DEF Young, OthersUntouched, TypeOK
    <3>2. OwnSlot(r)
      BY <1>2, <2>1, <2>4, ForgetType DEF Young, OwnSlot, TypeOK
    <3>3. UNCHANGED <<now, start, inflight>>
      BY <1>2
    <3>. QED BY <3>1, <3>2, <3>3, OwnStep, <2>2
  <2>. QED BY <1>2, <2>2, <2>3, <2>5 DEF ClocksPast, KeysOutlive, StoreCapped
<1>4. CASE pick[r] = 0
  <2>1. pc' = [pc EXCEPT ![r] = "rejected"] /\ UNCHANGED <<chosen, token>>
    BY <1>4 DEF ReserveReply
  <2>2. TypeOK'
    BY <1>2, <2>1, ForgetType DEF TypeOK
  <2>3. Phases'
    <3>. SUFFICES ASSUME NEW q \in Req PROVE Phase(q)'
      BY DEF Phases
    <3>1. Phase(q)
      BY DEF Phases
    <3>2. CASE q = r
      <4>1. /\ pc'[q] = "rejected" /\ pick'[q] = 0
            /\ reserve'[q] = "executed" /\ release'[q] = "none"
        BY <3>1, <3>2, <1>1, <1>2, <2>1 DEF Phase, TypeOK
      <4>. QED BY <4>1 DEF Phase, Reserved
    <3>3. CASE q # r
      BY <3>1, <3>3, <1>2, <2>1, ForgetType DEF Phase, Reserved, TypeOK
    <3>. QED BY <3>2, <3>3
  <2>4. AnswerHeld' /\ SlotHeld'
    <3>1. OthersUntouched(r)
      BY <1>2, <2>1, ForgetType DEF OthersUntouched, TypeOK
    <3>2. OwnSlot(r)
      BY <1>2, <2>1, ForgetType DEF OwnSlot, TypeOK
    <3>3. UNCHANGED <<now, start, inflight>>
      BY <1>2
    <3>. QED BY <3>1, <3>2, <3>3, OwnStep, <2>2
  <2>. QED BY <1>2, <2>2, <2>3, <2>4 DEF ClocksPast, KeysOutlive, StoreCapped
<1>. QED BY <1>1, <1>3, <1>4

LEMMA ReserveFailsStep ==
  ASSUME IInv, NEW r \in Req, ReserveFails(r)
  PROVE  IInv'
<1>. USE DEF redis, IInv
<1>1. pc[r] = "reserving" /\ order[r][1] \in Target
  BY DEF ReserveFails, Phases, Phase, TypeOK
<1>2. TypeOK'
  BY <1>1, ForgetType DEF ReserveFails, Route, TypeOK
<1>3. ClocksPast' /\ KeysOutlive' /\ StoreCapped'
  BY DEF ReserveFails, ClocksPast, KeysOutlive, StoreCapped
<1>4. Phases'
  <2>. SUFFICES ASSUME NEW q \in Req PROVE Phase(q)'
    BY DEF Phases
  <2>1. Phase(q)
    BY DEF Phases
  <2>2. CASE q = r
    <3>1. /\ pc'[q] = "running" /\ chosen'[q] \in Target /\ ~token'[q] /\ pick'[q] = 0
          /\ UNCHANGED <<reserve, release, inflight>>
      BY <2>2, <1>1 DEF ReserveFails, Route, TypeOK
    <3>. QED BY <2>1, <2>2, <3>1, <1>1 DEF Phase, Reserved
  <2>3. CASE q # r
    BY <2>1, <2>3, ForgetType DEF ReserveFails, Route, Phase, Reserved, TypeOK
  <2>. QED BY <2>2, <2>3
<1>5. AnswerHeld' /\ SlotHeld'
  <2>1. OthersUntouched(r)
    BY <1>1, ForgetType DEF ReserveFails, Route, OthersUntouched, TypeOK
  <2>2. OwnSlot(r)
    BY <1>1, ForgetType DEF ReserveFails, Route, OwnSlot, TypeOK
  <2>3. UNCHANGED <<now, start, inflight>>
    BY DEF ReserveFails
  <2>. QED BY <2>1, <2>2, <2>3, OwnStep, <1>2
<1>. QED BY <1>2, <1>3, <1>4, <1>5

LEMMA StreamDoneStep ==
  ASSUME IInv, NEW r \in Req, StreamDone(r)
  PROVE  IInv'
<1>. USE DEF redis, IInv
<1>1. PICK oc \in {"ok", "fail", "ignored"} : outcome' = [outcome EXCEPT ![r] = oc]
  BY ConstantTypes DEF StreamDone
<1>2. TypeOK'
  BY <1>1 DEF StreamDone, TypeOK
<1>3. ClocksPast'
  BY DEF StreamDone, ClocksPast, TypeOK
<1>4. KeysOutlive' /\ StoreCapped'
  BY DEF StreamDone, KeysOutlive, StoreCapped
<1>5. Phases'
  BY DEF StreamDone, Phases, Phase, Reserved, TypeOK
<1>6. AnswerHeld' /\ SlotHeld'
  <2>1. OthersUntouched(r)
    BY <1>1 DEF StreamDone, OthersUntouched, TypeOK
  <2>2. OwnSlot(r)
    BY <1>1 DEF StreamDone, OwnSlot, TypeOK
  <2>3. UNCHANGED <<now, start, inflight>>
    BY DEF StreamDone
  <2>. QED BY <2>1, <2>2, <2>3, OwnStep, <1>2
<1>. QED BY <1>2, <1>3, <1>4, <1>5, <1>6

LEMMA DisconnectStep ==
  ASSUME IInv, NEW r \in Req, Disconnect(r)
  PROVE  IInv'
<1>. USE DEF redis, IInv
<1>1. TypeOK'
  BY ForgetType DEF Disconnect, TypeOK
<1>2. ClocksPast' /\ KeysOutlive' /\ StoreCapped'
  BY DEF Disconnect, ClocksPast, KeysOutlive, StoreCapped, TypeOK
<1>3. Phases'
  BY ForgetType, ZenonT(30) DEF Disconnect, Phases, Phase, Reserved, TypeOK
<1>4. AnswerHeld' /\ SlotHeld'
  <2>1. OthersUntouched(r)
    BY ForgetType DEF Disconnect, OthersUntouched, TypeOK
  <2>2. OwnSlot(r)
    BY ForgetType DEF Disconnect, OwnSlot, TypeOK
  <2>3. UNCHANGED <<now, start, inflight>>
    BY DEF Disconnect
  <2>. QED BY <2>1, <2>2, <2>3, OwnStep, <1>1
<1>. QED BY <1>1, <1>2, <1>3, <1>4

LEMMA ReserveLostStep ==
  ASSUME IInv, NEW r \in Req, ReserveLost(r)
  PROVE  IInv'
<1>. USE DEF redis, IInv
<1>1. /\ reserve[r] = "sent" /\ reserve' = [reserve EXCEPT ![r] = "lost"]
      /\ order' = [order EXCEPT ![r] = IF pc[r] = "reserving" THEN order[r] ELSE <<>>]
      /\ UNCHANGED <<now, pc, loadAt, published, probation, start, chosen, token,
                     pick, release, doneAt, outcome, redis>>
  BY DEF ReserveLost
<1>2. TypeOK'
  BY <1>1 DEF TypeOK
<1>3. ClocksPast' /\ KeysOutlive' /\ StoreCapped'
  BY <1>1 DEF ClocksPast, KeysOutlive, StoreCapped
<1>4. Phases'
  BY <1>1 DEF Phases, Phase, Reserved, TypeOK
<1>5. ~Reserved(r)
  BY <1>1 DEF Phases, Phase
<1>6. AnswerHeld' /\ SlotHeld'
  <2>1. OthersUntouched(r)
    BY <1>1, <1>5 DEF Reserved, OthersUntouched, TypeOK
  <2>2. OwnSlot(r)
    BY <1>1, <1>5 DEF Reserved, OwnSlot, TypeOK
  <2>3. UNCHANGED <<now, start, inflight>>
    BY <1>1
  <2>. QED BY <2>1, <2>2, <2>3, OwnStep, <1>2
<1>. QED BY <1>2, <1>3, <1>4, <1>6

LEMMA DoneLostStep ==
  ASSUME IInv, NEW r \in Req, DoneLost(r)
  PROVE  IInv'
<1>. USE DEF redis, IInv
<1>1. /\ release[r] = "sent" /\ release' = [release EXCEPT ![r] = "lost"]
      /\ doneAt' = [doneAt EXCEPT ![r] = 0]
      /\ probation' = [probation EXCEPT ![r] = {}]
      /\ UNCHANGED <<now, pc, loadAt, published, order, start, chosen, token,
                     reserve, pick, outcome, redis>>
  BY DEF DoneLost
<1>2. TypeOK'
  BY <1>1 DEF TypeOK
<1>3. ClocksPast' /\ KeysOutlive' /\ StoreCapped'
  BY <1>1 DEF ClocksPast, KeysOutlive, StoreCapped, TypeOK
<1>4. Phases'
  BY <1>1 DEF Phases, Phase, Reserved, TypeOK
<1>5. pc[r] = "done"
  BY <1>1 DEF Phases, Phase
<1>6. AnswerHeld' /\ SlotHeld'
  <2>1. OthersUntouched(r)
    BY <1>1, <1>5 DEF OthersUntouched, TypeOK
  <2>2. OwnSlot(r)
    BY <1>1, <1>5 DEF OwnSlot, TypeOK
  <2>3. UNCHANGED <<now, start, inflight>>
    BY <1>1
  <2>. QED BY <2>1, <2>2, <2>3, OwnStep, <1>2
<1>. QED BY <1>2, <1>3, <1>4, <1>6

-----------------------------------------------------------------------------
(***************************************************************************)
(* Steps of redis.  A script prunes by the clock of the request that sent  *)
(* it, which is not ahead of now: the entries it drops are no longer young.*)
(***************************************************************************)
Spares(r, at) ==
  \A t \in Target : \A q \in inflight[t] \ {r} : start[q] > Cutoff(at) => q \in inflight'[t]

LEMMA PruneStep ==
  ASSUME IInv, NEW r \in Req, NEW at \in Nat, at <= now, Spares(r, at),
         UNCHANGED <<now, start>>, OthersUntouched(r),
         pc'[r] = "reserving" /\ reserve'[r] = "executed" /\ pick'[r] > 0 /\ Young(r)'
           => r \in inflight'[order'[r][pick'[r]]],
         ~Reserved(r)'
  PROVE  AnswerHeld' /\ SlotHeld'
<1>. USE DEF IInv
<1>1. \A q \in Req : Young(q) => start[q] > Cutoff(at)
  BY ConstantTypes DEF Young, Cutoff, TypeOK
<1>2. AnswerHeld'
  <2>. SUFFICES ASSUME NEW q \in Req, q # r,
                       pc[q] = "reserving" /\ reserve[q] = "executed" /\ pick[q] > 0 /\ Young(q)
                PROVE  q \in inflight'[order[q][pick[q]]]
    BY DEF AnswerHeld, OthersUntouched, Young
  <2>1. order[q][pick[q]] \in Target
    BY DEF Phases, Phase, TypeOK
  <2>2. q \in inflight[order[q][pick[q]]]
    BY DEF AnswerHeld
  <2>. QED BY <1>1, <2>1, <2>2 DEF Spares
<1>3. SlotHeld'
  <2>. SUFFICES ASSUME NEW q \in Req, q # r, Reserved(q), Young(q)
                PROVE  q \in inflight'[chosen[q]]
    BY DEF SlotHeld, Reserved, OthersUntouched, Young
  <2>1. chosen[q] \in Target
    BY DEF Phases, Phase, Reserved
  <2>2. q \in inflight[chosen[q]]
    BY DEF SlotHeld
  <2>. QED BY <1>1, <2>1, <2>2 DEF Spares
<1>. QED BY <1>2, <1>3

\* A sorted set that only lost entries is still within its cap.
LEMMA ShrunkStaysCapped ==
  ASSUME TypeOK, StoreCapped, NEW u \in Target, MaxRun[u] > 0, inflight'[u] \subseteq inflight[u]
  PROVE  Cardinality(inflight'[u]) <= MaxRun[u]
<1>1. IsFiniteSet(inflight[u])
  BY ConstantTypes, FS_Subset DEF TypeOK
<1>2. /\ Cardinality(inflight'[u]) <= Cardinality(inflight[u])
      /\ Cardinality(inflight'[u]) \in Nat /\ Cardinality(inflight[u]) \in Nat
  BY <1>1, FS_Subset, FS_CardinalityType
<1>3. Cardinality(inflight[u]) <= MaxRun[u] /\ MaxRun[u] \in Nat
  BY ConstantTypes DEF StoreCapped
<1>. QED BY <1>2, <1>3

LEMMA ReserveScriptStep ==
  ASSUME IInv, NEW r \in Req, ReserveScript(r)
  PROVE  IInv'
<1>. USE DEF IInv
<1>. DEFINE o == order[r]
            Visited(n) == {o[i] : i \in 1..n}
            Pruned(n) == [t \in Target |-> IF t \in Visited(n) THEN Live(t, start[r]) ELSE inflight[t]]
<1>1. /\ reserve[r] = "sent" /\ reserve' = [reserve EXCEPT ![r] = "executed"]
      /\ order' = [order EXCEPT ![r] = IF pc[r] = "reserving" THEN o ELSE <<>>]
      /\ UNCHANGED <<now, pc, loadAt, published, probation, start, chosen, token,
                     release, doneAt, outcome, health, healthExp>>
  BY DEF ReserveScript
<1>2. o \in Seq(Target) /\ start[r] \in Nat /\ start[r] <= now /\ now \in Nat
  BY DEF TypeOK, ClocksPast
<1>3. \A t \in Target : Live(t, start[r]) \subseteq inflight[t]
  BY DEF Live
<1>4. \A t \in Target : r \notin inflight[t]
  BY <1>1 DEF Phases, Phase
<1>5. OthersUntouched(r)
  BY <1>1 DEF ReserveScript, OthersUntouched, TypeOK
<1>6. ~Reserved(r)'
  BY <1>1 DEF Phases, Phase, Reserved
<1>7. ClocksPast'
  BY <1>1 DEF ClocksPast
<1>8. \A t \in Target : IsFiniteSet(inflight[t]) /\ Cardinality(inflight[t]) \in Nat
  BY ConstantTypes, FS_Subset, FS_CardinalityType DEF TypeOK
<1>11. ASSUME inflight' \in [Target -> SUBSET Req], inflightExp' \in [Target -> Nat], pick' \in [Req -> Nat]
       PROVE  TypeOK'
  <2>1. order' \in [Req -> Seq(Target)]
    BY <1>1, <1>2 DEF TypeOK
  <2>2. reserve' \in [Req -> {"none", "sent", "executed", "lost"}]
    BY <1>1 DEF TypeOK
  <2>. HIDE DEF o
  <2>. QED BY <1>1, <1>11, <2>1, <2>2 DEF TypeOK
<1>12. ASSUME \A q \in Req \ {r} : \A t \in Target : q \notin inflight[t] => q \notin inflight'[t],
              \A q \in Req \ {r} : pick'[q] = pick[q],
              IF pc[r] = "reserving" THEN pick'[r] <= Len(o) ELSE pick'[r] = 0
       PROVE  Phases'
  <2>1. order'[r] = (IF pc[r] = "reserving" THEN o ELSE <<>>) /\ reserve'[r] = "executed"
    BY <1>1 DEF TypeOK
  <2>. SUFFICES ASSUME NEW q \in Req
                PROVE  /\ pc[q] \in {"idle", "bypassed", "loading", "published"} => reserve'[q] = "none"
                       /\ reserve'[q] = "none" => \A t \in Target : q \notin inflight'[t]
                       /\ reserve'[q] = "sent" => \A t \in Target : q \notin inflight'[t]
                       /\ pc[q] = "reserving" => Len(order'[q]) > 0 /\ reserve'[q] # "none"
                       /\ IF pc[q] = "reserving" THEN pick'[q] <= Len(order'[q]) ELSE pick'[q] = 0
                       /\ Reserved(q) => reserve'[q] = "executed"
                       /\ reserve'[q] # "executed" => pick'[q] = 0
    BY <1>1 DEF Phases, Phase, Reserved
  <2>2. CASE q = r
    BY <1>1, <1>6, <1>12, <2>1, <2>2 DEF Phases, Phase, Reserved
  <2>3. CASE q # r
    BY <1>5, <1>12, <2>3 DEF Phases, Phase, Reserved, OthersUntouched
  <2>. QED BY <2>2, <2>3
<1>9. CASE \E n \in 1..Len(o) :
             /\ HasRoom(o[n], start[r])
             /\ inflight' = [Pruned(n) EXCEPT ![o[n]] = Pruned(n)[o[n]] \union {r}]
             /\ inflightExp' = Expiry(o[n])
             /\ pick' = [pick EXCEPT ![r] = IF pc[r] = "reserving" THEN n ELSE 0]
  <2>1. PICK n \in 1..Len(o) :
             /\ HasRoom(o[n], start[r])
             /\ inflight' = [Pruned(n) EXCEPT ![o[n]] = Pruned(n)[o[n]] \union {r}]
             /\ inflightExp' = Expiry(o[n])
             /\ pick' = [pick EXCEPT ![r] = IF pc[r] = "reserving" THEN n ELSE 0]
    BY <1>9
  <2>2. o[n] \in Target /\ o[n] \in Visited(n) /\ n \in Nat /\ n > 0 /\ n <= Len(o)
    BY <1>2, <2>1
  <2>3. /\ inflight'[o[n]] = Live(o[n], start[r]) \union {r}
        /\ \A t \in Target \ {o[n]} : inflight'[t] \subseteq inflight[t]
        /\ inflight' \in [Target -> SUBSET Req]
    BY <1>3, <2>1, <2>2, ZenonT(30) DEF TypeOK
  <2>4. Spares(r, start[r])
    BY <2>1, <2>2 DEF Spares, Live, TypeOK
  <2>5. /\ inflightExp' \in [Target -> Nat]
        /\ KeysOutlive'
    <3>1. now + InflightTTLSeconds * 1000 \in Nat /\ now + InflightTTLSeconds * 1000 >= now + MaxAge
      BY <1>2, TTLCoversAge, ConstantTypes, SMTT(30)
    <3>2. inflightExp' \in [Target -> Nat]
      BY <2>1, <3>1 DEF Expiry, TypeOK
    <3>3. ASSUME NEW t \in Target, NEW q \in inflight'[t]
          PROVE  start[q] + MaxAge <= inflightExp'[t]
      <4>1. q \in Req /\ start[q] \in Nat /\ start[q] <= now
        BY <2>3, <3>3 DEF TypeOK, ClocksPast
      <4>2. CASE t = o[n]
        <5>1. inflight'[t] # {}
          BY <3>3
        <5>2. inflightExp'[t] = now + InflightTTLSeconds * 1000
          BY <2>1, <4>2, <5>1 DEF Expiry
        <5>. HIDE DEF o
        <5>. QED BY <1>2, <3>1, <4>1, <5>2, ConstantTypes
      <4>3. CASE t # o[n]
        <5>1. q \in inflight[t]
          BY <2>3, <3>3, <4>3
        <5>2. inflightExp'[t] = inflightExp[t]
          BY <2>1, <3>3, <4>3 DEF Expiry
        <5>. QED BY <5>1, <5>2 DEF KeysOutlive
      <4>. QED BY <4>2, <4>3
    <3>. QED BY <1>1, <3>2, <3>3 DEF KeysOutlive
  <2>6. StoreCapped'
    <3>. SUFFICES ASSUME NEW t \in Target, MaxRun[t] > 0
                  PROVE  Cardinality(inflight'[t]) <= MaxRun[t]
      BY DEF StoreCapped
    <3>1. CASE t = o[n]
      <4>1. Cardinality(Live(t, start[r])) < MaxRun[t]
        BY <2>1, <3>1, ConstantTypes DEF HasRoom
      <4>2. IsFiniteSet(Live(t, start[r])) /\ Cardinality(Live(t, start[r])) \in Nat
        BY <1>3, <1>8, FS_Subset, FS_CardinalityType
      <4>3. r \notin Live(t, start[r])
        BY <1>3, <1>4
      <4>4. Cardinality(Live(t, start[r]) \union {r}) = Cardinality(Live(t, start[r])) + 1
        BY <4>2, <4>3, FS_AddElement
      <4>5. inflight'[t] = Live(t, start[r]) \union {r} /\ MaxRun[t] \in Nat
        BY <2>3, <3>1, ConstantTypes
      <4>. HIDE DEF o
      <4>. QED BY <4>1, <4>2, <4>4, <4>5
    <3>2. CASE t # o[n]
      <4>1. inflight'[t] \subseteq inflight[t]
        BY <2>3, <3>2
      <4>. QED BY <4>1, ShrunkStaysCapped
    <3>. QED BY <3>1, <3>2
  <2>7. TypeOK'
    <3>1. pick' \in [Req -> Nat]
      BY <2>1, <2>2 DEF TypeOK
    <3>. QED BY <1>11, <2>3, <2>5, <3>1
  <2>8. Phases'
    <3>1. \A q \in Req \ {r} : \A t \in Target : q \notin inflight[t] => q \notin inflight'[t]
      BY <1>3, <2>3
    <3>2. /\ pick'[r] = IF pc[r] = "reserving" THEN n ELSE 0
          /\ \A q \in Req \ {r} : pick'[q] = pick[q]
      BY <2>1 DEF TypeOK
    <3>. QED BY <1>12, <2>2, <3>1, <3>2
  <2>9. pc'[r] = "reserving" => r \in inflight'[order'[r][pick'[r]]]
    BY <1>1, <2>1, <2>3 DEF TypeOK
  <2>10. AnswerHeld' /\ SlotHeld'
    BY <1>1, <1>2, <1>5, <1>6, <2>4, <2>9, PruneStep
  <2>. QED BY <1>7, <2>5, <2>6, <2>7, <2>8, <2>10
<1>10. CASE inflight' = Pruned(Len(o)) /\ inflightExp' = Expiry(NoTarget) /\ UNCHANGED pick
  <2>1. /\ \A t \in Target : inflight'[t] \subseteq inflight[t]
        /\ inflight' \in [Target -> SUBSET Req]
    BY <1>3, <1>10 DEF TypeOK
  <2>2. Spares(r, start[r])
    BY <1>10 DEF Spares, Live, TypeOK
  <2>3. inflightExp' = [t \in Target |-> IF inflight'[t] = {} THEN 0 ELSE inflightExp[t]]
    BY <1>10, ConstantTypes DEF Expiry
  <2>. HIDE DEF o
  <2>4. inflightExp' \in [Target -> Nat]
    BY <2>3 DEF TypeOK
  <2>5. KeysOutlive'
    <3>. SUFFICES ASSUME NEW t \in Target, NEW q \in inflight'[t]
                  PROVE  start[q] + MaxAge <= inflightExp'[t]
      BY <1>1 DEF KeysOutlive
    <3>1. q \in inflight[t] /\ inflightExp'[t] = inflightExp[t]
      BY <2>1, <2>3
    <3>. QED BY <3>1 DEF KeysOutlive
  <2>6. StoreCapped'
    <3>. SUFFICES ASSUME NEW t \in Target, MaxRun[t] > 0
                  PROVE  Cardinality(inflight'[t]) <= MaxRun[t]
      BY DEF StoreCapped
    <3>. QED BY <2>1, ShrunkStaysCapped
  <2>7. TypeOK'
    BY <1>10, <1>11, <2>1, <2>4 DEF TypeOK
  <2>8. Phases'
    <3>1. \A q \in Req : pick'[q] = pick[q] /\ pick[r] = 0
      BY <1>1, <1>10 DEF Phases, Phase
    <3>2. 0 <= Len(o)
      BY <1>2
    <3>3. IF pc[r] = "reserving" THEN pick'[r] <= Len(o) ELSE pick'[r] = 0
      BY <3>1, <3>2
    <3>4. \A q \in Req \ {r} : \A t \in Target : q \notin inflight[t] => q \notin inflight'[t]
      BY <2>1
    <3>. QED BY <1>12, <3>1, <3>3, <3>4
  <2>9. ~(pick'[r] > 0)
    <3>1. pick[r] = 0 /\ pick' = pick
      BY <1>1, <1>10 DEF Phases, Phase
    <3>. QED BY <3>1
  <2>10. AnswerHeld' /\ SlotHeld'
    BY <1>1, <1>2, <1>5, <1>6, <2>2, <2>9, PruneStep
  <2>. QED BY <1>7, <2>5, <2>6, <2>7, <2>8, <2>10
<1>. QED BY <1>9, <1>10 DEF ReserveScript

\* The release of r prunes its target and takes r's own entry out: r is no
\* longer running, so it is entitled to nothing.
LEMMA DoneScriptStep ==
  ASSUME IInv, NEW r \in Req, DoneScript(r)
  PROVE  IInv'
<1>. USE DEF IInv
<1>. DEFINE t == chosen[r]
            c == ClusterOf[t]
            gone == IF token[r] THEN {r} ELSE {}
<1>1. /\ release[r] = "sent" /\ release' = [release EXCEPT ![r] = "executed"]
      /\ inflight' = [inflight EXCEPT ![t] = Live(t, doneAt[r]) \ gone]
      /\ inflightExp' = Expiry(t)
      /\ doneAt' = [doneAt EXCEPT ![r] = 0]
      /\ probation' = [probation EXCEPT ![r] = {}]
      /\ UNCHANGED <<now, pc, loadAt, published, order, start, chosen, token,
                     reserve, pick, outcome>>
  BY DEF DoneScript
<1>2. t \in Target /\ c \in Cluster /\ pc[r] = "done"
  BY <1>1, ConstantTypes DEF Phases, Phase
<1>3. doneAt[r] \in Nat /\ doneAt[r] <= now /\ now \in Nat
  BY DEF TypeOK, ClocksPast
<1>. HIDE DEF t
<1>4. /\ \A u \in Target : inflight'[u] \subseteq inflight[u]
      /\ inflight' \in [Target -> SUBSET Req]
  BY <1>1, <1>2 DEF Live, TypeOK
<1>5. now + InflightTTLSeconds * 1000 \in Nat /\ now + InflightTTLSeconds * 1000 >= now + MaxAge
  BY <1>3, TTLCoversAge, ConstantTypes
<1>6. \A u \in Target :
        inflightExp'[u] = IF inflight'[u] = {} THEN 0
                          ELSE IF u = t THEN now + InflightTTLSeconds * 1000 ELSE inflightExp[u]
  BY <1>1 DEF Expiry
<1>7. TypeOK'
  <2>1. inflightExp' \in [Target -> Nat]
    BY <1>1, <1>5 DEF Expiry, TypeOK
  <2>2. AfterOutcome(health[c], r) \in [f : Nat, e : Nat, r : Nat]
    <3>1. PICK h \in [f : Nat, e : Nat, r : Nat] : h = health[c]
      BY <1>2 DEF TypeOK
    <3>2. doneAt[r] + Cooldown \in Nat /\ doneAt[r] + Cooldown + Ramp \in Nat
      BY <1>3, ConstantTypes
    <3>3. [h EXCEPT !.f = 0] \in [f : Nat, e : Nat, r : Nat]
      OBVIOUS
    <3>4. [h EXCEPT !.f = h.f + 1] \in [f : Nat, e : Nat, r : Nat]
      OBVIOUS
    <3>5. [f |-> 0, e |-> doneAt[r] + Cooldown, r |-> doneAt[r] + Cooldown + Ramp]
            \in [f : Nat, e : Nat, r : Nat]
      BY <3>2
    <3>6. AfterOutcome(h, r) \in [f : Nat, e : Nat, r : Nat]
      BY <3>3, <3>4, <3>5 DEF AfterOutcome
    <3>. QED BY <3>1, <3>6
  <2>3. health' \in [Cluster -> [f : Nat, e : Nat, r : Nat]]
    <3>1. health' = [health EXCEPT ![c] = AfterOutcome(health[c], r)]
      BY DEF DoneScript, t
    <3>. QED BY <2>2, <3>1 DEF TypeOK
  <2>4. healthExp' \in [Cluster -> Nat]
    <3>1. now + HealthTTLSeconds * 1000 \in Nat
      BY <1>3, HealthTTLType
    <3>. DEFINE touched == outcome[r] = "fail" \/ (outcome[r] = "ok" /\ health[c].f # 0)
    <3>2. healthExp' = [healthExp EXCEPT ![c] =
                          IF touched THEN now + HealthTTLSeconds * 1000 ELSE healthExp[c]]
      BY DEF DoneScript, t
    <3>. HIDE DEF touched
    <3>. QED BY <3>1, <3>2, ZenonT(30) DEF TypeOK
  <2>. QED BY <1>1, <1>4, <2>1, <2>3, <2>4 DEF TypeOK
<1>8. ClocksPast'
  BY <1>1, <1>3 DEF ClocksPast, TypeOK
<1>9. Phases'
  BY <1>1, <1>2, <1>4, SMTT(30) DEF Phases, Phase, Reserved, TypeOK
<1>10. KeysOutlive'
  <2>. SUFFICES ASSUME NEW u \in Target, NEW q \in inflight'[u]
                PROVE  start[q] + MaxAge <= inflightExp'[u]
    BY <1>1 DEF KeysOutlive
  <2>1. q \in Req /\ q \in inflight[u] /\ inflight'[u] # {}
    BY <1>4
  <2>2. start[q] \in Nat /\ start[q] <= now
    BY <2>1 DEF TypeOK, ClocksPast
  <2>3. CASE u = t
    <3>1. inflightExp'[u] = now + InflightTTLSeconds * 1000
      BY <1>6, <2>1, <2>3
    <3>. QED BY <1>3, <1>5, <2>2, <3>1, ConstantTypes
  <2>4. CASE u # t
    BY <1>6, <2>1, <2>4 DEF KeysOutlive
  <2>. QED BY <2>3, <2>4
<1>11. StoreCapped'
  <2>. SUFFICES ASSUME NEW u \in Target, MaxRun[u] > 0
                PROVE  Cardinality(inflight'[u]) <= MaxRun[u]
    BY DEF StoreCapped
  <2>. QED BY <1>4, ShrunkStaysCapped
<1>12. AnswerHeld' /\ SlotHeld'
  <2>1. Spares(r, doneAt[r])
    BY <1>1, <1>2 DEF Spares, Live, TypeOK
  <2>2. OthersUntouched(r)
    BY <1>1 DEF OthersUntouched
  <2>. QED BY <1>1, <1>2, <1>3, <2>1, <2>2, PruneStep DEF Reserved
<1>. QED BY <1>7, <1>8, <1>9, <1>10, <1>11, <1>12

\* When the time to live of a key runs out, all its entries have leaked.
LEMMA TickStep ==
  ASSUME IInv, Tick
  PROVE  IInv'
<1>. USE DEF IInv
<1>1. /\ now' = now + TickMs
      /\ inflight' = [t \in Target |-> IF inflightExp[t] <= now' THEN {} ELSE inflight[t]]
      /\ inflightExp' = Expiry(NoTarget)
      /\ UNCHANGED <<pc, loadAt, published, probation, order, start, chosen, token,
                     reserve, pick, release, doneAt, outcome>>
  BY DEF Tick, stream, wire
<1>2. now \in Nat /\ now' \in Nat /\ now <= now'
  BY <1>1, ConstantTypes DEF TypeOK
<1>3. /\ inflight' \in [Target -> SUBSET Req]
      /\ \A t \in Target : inflight'[t] \subseteq inflight[t]
  BY <1>1 DEF TypeOK
<1>4. inflightExp' = [t \in Target |-> IF inflight'[t] = {} THEN 0 ELSE inflightExp[t]]
  BY <1>1, ConstantTypes DEF Expiry
<1>5. TypeOK'
  <2>1. inflightExp' \in [Target -> Nat]
    BY <1>4 DEF TypeOK
  <2>2. health' \in [Cluster -> [f : Nat, e : Nat, r : Nat]] /\ healthExp' \in [Cluster -> Nat]
    BY DEF Tick, Clean, TypeOK
  <2>. QED BY <1>1, <1>2, <1>3, <2>1, <2>2 DEF TypeOK
<1>6. ClocksPast'
  BY <1>1, <1>2 DEF ClocksPast, TypeOK
<1>7. Phases'
  BY <1>1, <1>3 DEF Phases, Phase, Reserved
<1>8. KeysOutlive'
  BY <1>1, <1>3, <1>4 DEF KeysOutlive
<1>9. StoreCapped'
  <2>. SUFFICES ASSUME NEW u \in Target, MaxRun[u] > 0
                PROVE  Cardinality(inflight'[u]) <= MaxRun[u]
    BY DEF StoreCapped
  <2>. QED BY <1>3, ShrunkStaysCapped
<1>10. ASSUME NEW q \in Req, Young(q)'
       PROVE  Young(q) /\ \A t \in Target : q \in inflight[t] => q \in inflight'[t]
  <2>1. start[q] \in Nat /\ now' - start[q] < MaxAge /\ MaxAge \in Nat
    BY <1>1, <1>10, ConstantTypes DEF Young, TypeOK
  <2>2. Young(q)
    BY <1>2, <2>1 DEF Young
  <2>3. ASSUME NEW t \in Target, q \in inflight[t]
        PROVE  q \in inflight'[t]
    <3>1. start[q] + MaxAge <= inflightExp[t] /\ inflightExp[t] \in Nat
      BY <2>3 DEF KeysOutlive, TypeOK
    <3>2. ~(inflightExp[t] <= now')
      BY <1>2, <2>1, <3>1
    <3>. QED BY <1>1, <2>3, <3>2
  <2>. QED BY <2>2, <2>3
<1>11. AnswerHeld'
  <2>. SUFFICES ASSUME NEW q \in Req, Young(q)',
                       pc[q] = "reserving" /\ reserve[q] = "executed" /\ pick[q] > 0
                PROVE  q \in inflight'[order[q][pick[q]]]
    BY <1>1 DEF AnswerHeld
  <2>1. order[q][pick[q]] \in Target
    BY DEF Phases, Phase, TypeOK
  <2>. QED BY <1>10, <2>1 DEF AnswerHeld
<1>12. SlotHeld'
  <2>. SUFFICES ASSUME NEW q \in Req, Young(q)', Reserved(q)
                PROVE  q \in inflight'[chosen[q]]
    BY <1>1 DEF SlotHeld, Reserved
  <2>1. chosen[q] \in Target
    BY DEF Phases, Phase, Reserved
  <2>. QED BY <1>10, <2>1 DEF SlotHeld
<1>. QED BY <1>5, <1>6, <1>7, <1>8, <1>9, <1>11, <1>12

-----------------------------------------------------------------------------
LEMMA StepIInv == IInv /\ [Next]_vars => IInv'
<1>. SUFFICES ASSUME IInv, [Next]_vars PROVE IInv'
  OBVIOUS
<1>1. ASSUME NEW r \in Req,
             \/ Arrive(r) \/ Fallback(r) \/ LoadReply(r) \/ LoadFails(r)
             \/ RejectEmpty(r) \/ SendReserve(r) \/ ReserveReply(r) \/ ReserveFails(r)
             \/ StreamDone(r) \/ Disconnect(r)
             \/ ReserveScript(r) \/ ReserveLost(r) \/ DoneScript(r) \/ DoneLost(r)
      PROVE  IInv'
  BY <1>1, ContextStep, SendReserveStep, ReserveReplyStep, ReserveFailsStep, StreamDoneStep,
     DisconnectStep, ReserveScriptStep, ReserveLostStep, DoneScriptStep, DoneLostStep
<1>2. CASE Tick
  BY <1>2, TickStep
<1>3. CASE UNCHANGED vars
  BY <1>3 DEF IInv, TypeOK, ClocksPast, Phases, Phase, KeysOutlive, StoreCapped, AnswerHeld,
              SlotHeld, Reserved, Young, vars, stream, wire, redis
<1>. QED BY <1>1, <1>2, <1>3 DEF Next, Stopped

LEMMA AlwaysIInv == Spec => []IInv
BY InitIInv, StepIInv, PTL DEF Spec

\* Every variable keeps its type, whatever redis delays, loses or expires.
THEOREM TypeCorrect == Spec => []TypeOK
<1>1. IInv => TypeOK
  BY DEF IInv
<1>. QED BY <1>1, AlwaysIInv, PTL

\* The slot of a young reserved request is in redis: no other request's pruning
\* (redis_store.go, loadScript, reserveScript, doneScript) and no EXPIRE of the
\* key takes it away.
THEOREM SlotAlwaysHeld == Spec => []SlotHeld
<1>1. IInv => SlotHeld
  BY DEF IInv
<1>. QED BY <1>1, AlwaysIInv, PTL

\* maxRunningRequests is a hard cap: however many requests and gateways there
\* are and whatever redis delays, loses or expires, a target never runs more
\* young reserved requests than its cap.
THEOREM CapIsHard == Spec => []HardCap
<1>1. IInv => HardCap
  <2>. SUFFICES ASSUME IInv, NEW t \in Target, MaxRun[t] > 0
                PROVE  Cardinality({r \in Req : Reserved(r) /\ chosen[r] = t /\ Young(r)}) <= MaxRun[t]
    BY DEF HardCap
  <2>. DEFINE Running == {r \in Req : Reserved(r) /\ chosen[r] = t /\ Young(r)}
  <2>1. Running \subseteq inflight[t]
    BY DEF IInv, SlotHeld
  <2>2. inflight[t] \subseteq Req
    BY DEF IInv, TypeOK
  <2>3. Cardinality(Running) \in Nat /\ Cardinality(inflight[t]) \in Nat
        /\ Cardinality(Running) <= Cardinality(inflight[t])
    BY <2>1, <2>2, ConstantTypes, FS_Subset, FS_CardinalityType
  <2>4. Cardinality(inflight[t]) <= MaxRun[t] /\ MaxRun[t] \in Nat
    BY ConstantTypes DEF IInv, StoreCapped
  <2>. QED BY <2>3, <2>4
<1>. QED BY <1>1, AlwaysIInv, PTL
-----------------------------------------------------------------------------
(***************************************************************************)
(* Accounted.  What it needs besides IInv is that a token is only ever     *)
(* given by the answer of a script that has run.                           *)
(***************************************************************************)
TokenAnswered ==
  \A r \in Req : token[r] => pc[r] \in {"running", "done"} /\ reserve[r] = "executed"

RejectedAnswered == \A r \in Req : pc[r] = "rejected" => reserve[r] # "sent"

AInv == IInv /\ TokenAnswered /\ RejectedAnswered /\ Accounted

\* Who an entry of r for t may belong to: Accounted, for one entry.
Owned(r, t) ==
  \/ pc[r] = "reserving" /\ reserve[r] = "executed" /\ pick[r] > 0 /\ order[r][pick[r]] = t
  \/ pc[r] \in {"running", "done"} /\ token[r] /\ chosen[r] = t /\ release[r] # "executed"
  \/ pc[r] \in {"running", "done"} /\ ~token[r]

LEMMA AccountedOwned == Accounted <=> \A t \in Target : \A r \in inflight[t] : Owned(r, t)
BY DEF Accounted, Owned

LEMMA InitAInv == Init => AInv
BY InitIInv DEF AInv, Init, TokenAnswered, RejectedAnswered, Accounted

\* A step of r changes nothing that the entries of the others depend on.
LEMMA OthersOwned ==
  ASSUME IInv, Accounted, NEW r \in Req, NEW t \in Target, NEW q \in inflight[t],
         q # r, OthersUntouched(r), release'[q] = release[q]
  PROVE  Owned(q, t)'
<1>1. Owned(q, t) /\ q \in Req
  BY AccountedOwned DEF IInv, TypeOK
<1>. QED BY <1>1 DEF Owned, OthersUntouched

LEMMA StreamAInv ==
  ASSUME AInv, NEW r \in Req,
         \/ Arrive(r) \/ Fallback(r) \/ LoadReply(r) \/ LoadFails(r) \/ RejectEmpty(r)
         \/ SendReserve(r) \/ StreamDone(r) \/ Disconnect(r)
  PROVE  TokenAnswered' /\ RejectedAnswered' /\ Accounted'
<1>. USE DEF AInv, IInv, redis, wire
<1>1. /\ UNCHANGED <<token, chosen, inflight>>
      /\ OthersUntouched(r)
      /\ \A q \in Req \ {r} : release'[q] = release[q]
  <2>. USE DEF OthersUntouched, TypeOK
  <2>1. CASE Arrive(r) \/ Fallback(r) \/ LoadReply(r) \/ LoadFails(r) \/ RejectEmpty(r)
    BY <2>1 DEF Arrive, Fallback, LoadReply, LoadFails, Publish, RejectEmpty
  <2>2. CASE SendReserve(r)
    <3>1. PICK o : order' = [order EXCEPT ![r] = o]
      BY <2>2 DEF SendReserve
    <3>. QED BY <2>2, <3>1 DEF SendReserve
  <2>3. CASE StreamDone(r)
    BY <2>3 DEF StreamDone
  <2>4. CASE Disconnect(r)
    BY <2>4, ForgetType DEF Disconnect
  <2>. QED BY <2>1, <2>2, <2>3, <2>4
<1>2. \/ /\ pc[r] \in {"idle", "loading", "published"} /\ reserve[r] = "none"
         /\ pc'[r] = "rejected" => reserve'[r] = "none"
      \/ /\ pc[r] = "running" /\ pc'[r] = "done" /\ release'[r] = "sent" /\ reserve'[r] = reserve[r]
      \/ /\ pc[r] = "reserving" /\ pc'[r] = "done" /\ release'[r] = release[r]
         /\ reserve'[r] = reserve[r]
  BY DEF Arrive, Fallback, LoadReply, LoadFails, Publish, RejectEmpty, SendReserve,
         StreamDone, Disconnect, TypeOK, Phases, Phase
<1>3. TokenAnswered' /\ RejectedAnswered'
  BY <1>1, <1>2 DEF RejectedAnswered, TokenAnswered, OthersUntouched
<1>4. Accounted'
  <2>. SUFFICES ASSUME NEW t \in Target, NEW q \in inflight[t]
                PROVE  Owned(q, t)'
    BY <1>1 DEF Accounted, Owned
  <2>1. CASE q # r
    <3>1. q \in Req \ {r}
      BY <2>1 DEF TypeOK
    <3>. QED BY <1>1, <2>1, <3>1, OthersOwned
  <2>2. CASE q = r
    <3>1. Owned(r, t) /\ reserve[r] # "none"
      BY <2>2, AccountedOwned DEF Phases, Phase
    <3>. QED BY <1>1, <1>2, <2>2, <3>1 DEF Owned, TokenAnswered
  <2>. QED BY <2>1, <2>2
<1>. QED BY <1>3, <1>4

LEMMA AnswerAInv ==
  ASSUME AInv, NEW r \in Req, ReserveReply(r) \/ ReserveFails(r)
  PROVE  TokenAnswered' /\ RejectedAnswered' /\ Accounted'
<1>. USE DEF AInv, IInv, redis, wire
<1>1. /\ UNCHANGED <<reserve, release, inflight>>
      /\ pc[r] = "reserving" /\ ~token[r]
      /\ OthersUntouched(r)
  <2>1. pc[r] = "reserving" /\ ~token[r]
    BY DEF ReserveReply, ReserveFails, TokenAnswered
  <2>2. order' = Forget(r) /\ UNCHANGED <<reserve, release, inflight>>
    BY DEF ReserveReply, ReserveFails
  <2>3. \A q \in Req \ {r} : /\ pc'[q] = pc[q] /\ chosen'[q] = chosen[q]
                             /\ token'[q] = token[q] /\ pick'[q] = pick[q]
    BY DEF ReserveReply, ReserveFails, Route, TypeOK
  <2>. QED BY <2>1, <2>2, <2>3, ForgetType DEF OthersUntouched
<1>2. \/ /\ pick[r] > 0 /\ reserve[r] = "executed"
         /\ pc'[r] = "running" /\ token'[r] /\ chosen'[r] = order[r][pick[r]]
      \/ /\ pick[r] = 0 /\ pc'[r] = "rejected" /\ ~token'[r] /\ reserve[r] = "executed"
      \/ /\ pc'[r] = "running" /\ ~token'[r]
  BY <1>1 DEF ReserveReply, ReserveFails, Route, TypeOK
<1>3. TokenAnswered' /\ RejectedAnswered'
  BY <1>1, <1>2 DEF RejectedAnswered, TokenAnswered, OthersUntouched
<1>4. Accounted'
  <2>. SUFFICES ASSUME NEW t \in Target, NEW q \in inflight[t]
                PROVE  Owned(q, t)'
    BY <1>1 DEF Accounted, Owned
  <2>1. CASE q # r
    BY <1>1, <2>1, OthersOwned
  <2>2. CASE q = r
    <3>1. pick[r] > 0 /\ order[r][pick[r]] = t
      BY <1>1, <2>2, AccountedOwned DEF Owned
    <3>2. release[r] = "none"
      BY <1>1 DEF Phases, Phase
    <3>. QED BY <1>1, <1>2, <2>2, <3>1, <3>2 DEF Owned
  <2>. QED BY <2>1, <2>2
<1>. QED BY <1>3, <1>4

\* reserveScript: it drops leaked entries only, and adds at most one, of its
\* own request, to the target of its pick, which had room.
LEMMA ScriptEffect ==
  ASSUME IInv, NEW r \in Req, ReserveScript(r)
  PROVE  /\ inflight' \in [Target -> SUBSET Req]
         /\ \A t \in Target : \A q \in inflight[t] \ inflight'[t] : start[q] + MaxAge <= start[r]
         /\ \/ /\ \A t \in Target : inflight'[t] \subseteq inflight[t]
               /\ UNCHANGED pick
            \/ \E n \in 1..Len(order[r]) :
                 /\ order[r][n] \in Target
                 /\ inflight'[order[r][n]] \subseteq inflight[order[r][n]] \union {r}
                 /\ r \in inflight'[order[r][n]]
                 /\ \A t \in Target \ {order[r][n]} : inflight'[t] \subseteq inflight[t]
                 /\ \/ MaxRun[order[r][n]] = 0
                    \/ Cardinality(inflight'[order[r][n]]) <= MaxRun[order[r][n]]
                 /\ pick' = [pick EXCEPT ![r] = IF pc[r] = "reserving" THEN n ELSE 0]
<1>. USE DEF IInv
<1>. DEFINE o == order[r]
            Visited(n) == {o[i] : i \in 1..n}
            Pruned(n) == [t \in Target |-> IF t \in Visited(n) THEN Live(t, start[r]) ELSE inflight[t]]
<1>1. o \in Seq(Target) /\ start[r] \in Nat /\ reserve[r] = "sent"
  BY DEF TypeOK, ReserveScript
<1>2. ASSUME NEW t \in Target, NEW q \in inflight[t] \ Live(t, start[r])
      PROVE  start[q] + MaxAge <= start[r]
  <2>1. start[q] \in Nat /\ ~(start[q] > start[r] - MaxAge)
    BY <1>2 DEF Live, Cutoff, TypeOK
  <2>. QED BY <1>1, <2>1, ConstantTypes
<1>3. \A t \in Target : Live(t, start[r]) \subseteq inflight[t] /\ r \notin inflight[t]
  BY <1>1 DEF Live, Phases, Phase
<1>4. CASE inflight' = Pruned(Len(o)) /\ UNCHANGED pick
  <2>1. inflight' \in [Target -> SUBSET Req]
    BY <1>3, <1>4 DEF TypeOK
  <2>2. \A t \in Target : inflight'[t] \subseteq inflight[t]
    BY <1>3, <1>4
  <2>3. \A t \in Target : \A q \in inflight[t] \ inflight'[t] : start[q] + MaxAge <= start[r]
    BY <1>2, <1>4
  <2>. QED BY <1>4, <2>1, <2>2, <2>3
<1>5. CASE \E n \in 1..Len(o) :
             /\ HasRoom(o[n], start[r])
             /\ inflight' = [Pruned(n) EXCEPT ![o[n]] = Pruned(n)[o[n]] \union {r}]
             /\ pick' = [pick EXCEPT ![r] = IF pc[r] = "reserving" THEN n ELSE 0]
  <2>1. PICK n \in 1..Len(o) :
             /\ HasRoom(o[n], start[r])
             /\ inflight' = [Pruned(n) EXCEPT ![o[n]] = Pruned(n)[o[n]] \union {r}]
             /\ pick' = [pick EXCEPT ![r] = IF pc[r] = "reserving" THEN n ELSE 0]
    BY <1>5
  <2>2. o[n] \in Target /\ o[n] \in Visited(n)
    BY <1>1
  <2>3. /\ inflight'[o[n]] = Live(o[n], start[r]) \union {r}
        /\ \A t \in Target \ {o[n]} : inflight'[t] \in {inflight[t], Live(t, start[r])}
        /\ inflight' \in [Target -> SUBSET Req]
    <3>1. Pruned(n) \in [Target -> SUBSET Req]
      BY <1>3 DEF TypeOK
    <3>2. Pruned(n)[o[n]] = Live(o[n], start[r])
      BY <2>2
    <3>3. \A t \in Target : Pruned(n)[t] \in {inflight[t], Live(t, start[r])}
      OBVIOUS
    <3>. HIDE DEF Pruned, o
    <3>. QED BY <2>1, <2>2, <3>1, <3>2, <3>3
  <2>4. MaxRun[o[n]] = 0 \/ Cardinality(inflight'[o[n]]) <= MaxRun[o[n]]
    <3>1. IsFiniteSet(Live(o[n], start[r])) /\ Cardinality(Live(o[n], start[r])) \in Nat
      BY <1>3, <2>2, ConstantTypes, FS_Subset, FS_CardinalityType DEF TypeOK
    <3>2. Cardinality(Live(o[n], start[r]) \union {r}) = Cardinality(Live(o[n], start[r])) + 1
      BY <1>3, <2>2, <3>1, FS_AddElement
    <3>3. MaxRun[o[n]] \in Nat
      BY <2>2, ConstantTypes
    <3>4. MaxRun[o[n]] = 0 \/ Cardinality(Live(o[n], start[r])) < MaxRun[o[n]]
      BY <2>1 DEF HasRoom
    <3>. HIDE DEF o
    <3>. QED BY <2>3, <3>1, <3>2, <3>3, <3>4
  <2>5. \A t \in Target : \A q \in inflight[t] \ inflight'[t] : start[q] + MaxAge <= start[r]
    <3>. SUFFICES ASSUME NEW t \in Target, NEW q \in inflight[t] \ inflight'[t]
                  PROVE  q \in inflight[t] \ Live(t, start[r])
      BY <1>2
    <3>. QED BY <2>3
  <2>6. /\ inflight'[o[n]] \subseteq inflight[o[n]] \union {r}
        /\ r \in inflight'[o[n]]
        /\ \A t \in Target \ {o[n]} : inflight'[t] \subseteq inflight[t]
    BY <1>3, <2>2, <2>3
  <2>. QED BY <2>1, <2>2, <2>3, <2>4, <2>5, <2>6
<1>. QED BY <1>4, <1>5 DEF ReserveScript

\* doneScript, and the expiry of keys, drop leaked entries only -- besides the
\* entry that a release gives back.
LEMMA DoneEffect ==
  ASSUME IInv, NEW r \in Req, DoneScript(r)
  PROVE  /\ inflight' \in [Target -> SUBSET Req]
         /\ \A t \in Target : inflight'[t] \subseteq inflight[t]
         /\ \A t \in Target : \A q \in inflight[t] \ inflight'[t] :
              q = r \/ start[q] + MaxAge <= doneAt[r]
         /\ token[r] => r \notin inflight'[chosen[r]]
<1>. USE DEF IInv
<1>1. /\ inflight' = [inflight EXCEPT ![chosen[r]] =
                        Live(chosen[r], doneAt[r]) \ (IF token[r] THEN {r} ELSE {})]
      /\ release[r] = "sent"
  BY DEF DoneScript
<1>2. chosen[r] \in Target /\ doneAt[r] \in Nat
  BY <1>1 DEF Phases, Phase, TypeOK
<1>3. \A t \in Target : \A q \in inflight[t] \ Live(t, doneAt[r]) : start[q] + MaxAge <= doneAt[r]
  <2>. SUFFICES ASSUME NEW t \in Target, NEW q \in inflight[t] \ Live(t, doneAt[r])
                PROVE  start[q] + MaxAge <= doneAt[r]
    OBVIOUS
  <2>1. start[q] \in Nat /\ ~(start[q] > doneAt[r] - MaxAge)
    BY DEF Live, Cutoff, TypeOK
  <2>. QED BY <1>2, <2>1, ConstantTypes
<1>4. \A t \in Target : inflight'[t] = IF t = chosen[r]
                          THEN Live(t, doneAt[r]) \ (IF token[r] THEN {r} ELSE {}) ELSE inflight[t]
  BY <1>1, <1>2 DEF TypeOK
<1>5. \A t \in Target : Live(t, doneAt[r]) \subseteq inflight[t]
  BY DEF Live
<1>6. inflight' \in [Target -> SUBSET Req]
  BY <1>1, <1>5 DEF TypeOK
<1>. QED BY <1>2, <1>3, <1>4, <1>5, <1>6

LEMMA TickEffect ==
  ASSUME IInv, Tick
  PROVE  /\ inflight' \in [Target -> SUBSET Req]
         /\ \A t \in Target : inflight'[t] \subseteq inflight[t]
         /\ \A t \in Target : \A q \in inflight[t] \ inflight'[t] : start[q] + MaxAge <= now'
         /\ now' \in Nat /\ now' >= now
<1>. USE DEF IInv
<1>1. /\ now' = now + TickMs
      /\ inflight' = [t \in Target |-> IF inflightExp[t] <= now' THEN {} ELSE inflight[t]]
  BY DEF Tick
<1>2. now' \in Nat /\ now' >= now
  BY <1>1, ConstantTypes DEF TypeOK
<1>3. ASSUME NEW t \in Target, NEW q \in inflight[t] \ inflight'[t]
      PROVE  start[q] + MaxAge <= now'
  <2>1. inflightExp[t] <= now' /\ start[q] + MaxAge <= inflightExp[t]
    BY <1>1, <1>3 DEF KeysOutlive
  <2>2. start[q] + MaxAge \in Nat /\ inflightExp[t] \in Nat
    BY <1>3, ConstantTypes DEF TypeOK
  <2>. QED BY <1>2, <2>1, <2>2
<1>. QED BY <1>1, <1>2, <1>3 DEF TypeOK

LEMMA ReserveScriptAInv ==
  ASSUME AInv, NEW r \in Req, ReserveScript(r)
  PROVE  TokenAnswered' /\ RejectedAnswered' /\ Accounted'
<1>. USE DEF AInv, IInv
<1>1. /\ reserve[r] = "sent" /\ reserve' = [reserve EXCEPT ![r] = "executed"]
      /\ order' = [order EXCEPT ![r] = IF pc[r] = "reserving" THEN order[r] ELSE <<>>]
      /\ UNCHANGED <<pc, chosen, token, release>>
  BY DEF ReserveScript
<1>2. TokenAnswered' /\ RejectedAnswered'
  BY <1>1 DEF RejectedAnswered, TokenAnswered, TypeOK
<1>3. OthersUntouched(r)
  BY <1>1 DEF ReserveScript, OthersUntouched, TypeOK
<1>4. ~token[r] /\ pc[r] \in {"reserving", "running", "done"} /\ reserve'[r] = "executed"
  <2>1. ~token[r] /\ reserve'[r] = "executed"
    BY <1>1 DEF TokenAnswered, TypeOK
  <2>2. reserve[r] # "none" => pc[r] \in {"reserving", "running", "done", "rejected"}
    BY DEF Phases, Phase, TypeOK
  <2>3. pc[r] # "rejected"
    BY <1>1 DEF RejectedAnswered
  <2>. QED BY <1>1, <2>1, <2>2, <2>3
<1>5. Accounted'
  <2>. SUFFICES ASSUME NEW t \in Target, NEW q \in inflight'[t]
                PROVE  Owned(q, t)'
    BY DEF Accounted, Owned
  <2>1. q \in Req
    BY ScriptEffect DEF TypeOK
  <2>2. CASE q # r
    <3>1. q \in inflight[t]
      BY <2>2, ScriptEffect
    <3>. QED BY <1>1, <1>3, <2>2, <3>1, OthersOwned
  <2>3. CASE q = r
    <3>1. r \notin inflight[t]
      BY <1>1 DEF Phases, Phase
    <3>2. PICK n \in 1..Len(order[r]) :
            /\ t = order[r][n]
            /\ pick' = [pick EXCEPT ![r] = IF pc[r] = "reserving" THEN n ELSE 0]
      BY <2>3, <3>1, ScriptEffect
    <3>3. pc[r] = "reserving" => pick'[r] = n /\ order'[r] = order[r]
      BY <1>1, <3>2 DEF TypeOK
    <3>. QED BY <1>1, <1>4, <2>3, <3>2, <3>3 DEF Owned
  <2>. QED BY <2>2, <2>3
<1>. QED BY <1>2, <1>5

\* ReserveLost: the answer will be a failure.
LEMMA ReserveLostAInv ==
  ASSUME AInv, NEW r \in Req, ReserveLost(r)
  PROVE  TokenAnswered' /\ RejectedAnswered' /\ Accounted'
<1>. USE DEF AInv, IInv, redis
<1>1. /\ reserve[r] = "sent" /\ reserve' = [reserve EXCEPT ![r] = "lost"]
      /\ UNCHANGED <<pc, chosen, token, release, inflight>>
      /\ OthersUntouched(r)
  BY DEF ReserveLost, OthersUntouched, TypeOK
<1>2. TokenAnswered' /\ RejectedAnswered'
  BY <1>1 DEF RejectedAnswered, TokenAnswered, TypeOK
<1>3. Accounted'
  <2>. SUFFICES ASSUME NEW t \in Target, NEW q \in inflight[t]
                PROVE  Owned(q, t)'
    BY <1>1 DEF Accounted, Owned
  <2>1. q # r
    BY <1>1 DEF Phases, Phase
  <2>. QED BY <1>1, <2>1, OthersOwned
<1>. QED BY <1>2, <1>3

LEMMA DoneAInv ==
  ASSUME AInv, NEW r \in Req, DoneScript(r) \/ DoneLost(r)
  PROVE  TokenAnswered' /\ RejectedAnswered' /\ Accounted'
<1>. USE DEF AInv, IInv, redis
<1>1. /\ release[r] = "sent" /\ pc[r] = "done"
      /\ UNCHANGED <<pc, chosen, token, reserve>>
      /\ OthersUntouched(r)
      /\ \A q \in Req \ {r} : release'[q] = release[q]
  BY DEF DoneScript, DoneLost, OthersUntouched, TypeOK, Phases, Phase
<1>2. TokenAnswered' /\ RejectedAnswered'
  BY <1>1 DEF RejectedAnswered, TokenAnswered
<1>3. \A t \in Target : inflight'[t] \subseteq inflight[t]
  BY DoneEffect DEF DoneLost
<1>4. \/ release'[r] = "lost"
      \/ release'[r] = "executed" /\ (token[r] => r \notin inflight'[chosen[r]])
  <2>1. CASE DoneScript(r)
    BY <2>1, DoneEffect DEF DoneScript, TypeOK
  <2>2. CASE DoneLost(r)
    BY <2>2 DEF DoneLost, TypeOK
  <2>. QED BY <2>1, <2>2
<1>5. Accounted'
  <2>. SUFFICES ASSUME NEW t \in Target, NEW q \in inflight'[t]
                PROVE  Owned(q, t)'
    BY DEF Accounted, Owned
  <2>1. q \in inflight[t] /\ q \in Req
    BY <1>3 DEF TypeOK
  <2>2. CASE q # r
    BY <1>1, <2>1, <2>2, OthersOwned
  <2>3. CASE q = r
    BY <1>1, <1>4, <2>1, <2>3, AccountedOwned DEF Owned
  <2>. QED BY <2>2, <2>3
<1>. QED BY <1>2, <1>5

LEMMA StepAInv == AInv /\ [Next]_vars => AInv'
<1>. SUFFICES ASSUME AInv, [Next]_vars PROVE TokenAnswered' /\ RejectedAnswered' /\ Accounted'
  BY StepIInv DEF AInv
<1>1. ASSUME NEW r \in Req,
             \/ Arrive(r) \/ Fallback(r) \/ LoadReply(r) \/ LoadFails(r)
             \/ RejectEmpty(r) \/ SendReserve(r) \/ ReserveReply(r) \/ ReserveFails(r)
             \/ StreamDone(r) \/ Disconnect(r)
             \/ ReserveScript(r) \/ ReserveLost(r) \/ DoneScript(r) \/ DoneLost(r)
      PROVE  TokenAnswered' /\ RejectedAnswered' /\ Accounted'
  BY <1>1, StreamAInv, AnswerAInv, ReserveScriptAInv, ReserveLostAInv, DoneAInv
<1>2. CASE Tick
  <2>1. \A t \in Target : inflight'[t] \subseteq inflight[t]
    BY <1>2, TickEffect DEF AInv
  <2>. QED BY <1>2, <2>1 DEF Tick, AInv, TokenAnswered, RejectedAnswered, Accounted, stream, wire
<1>3. CASE UNCHANGED vars
  BY <1>3 DEF AInv, TokenAnswered, RejectedAnswered, Accounted, vars, stream, wire, redis
<1>. QED BY <1>1, <1>2, <1>3 DEF Next, Stopped

\* Every entry in redis has an owner, whatever is delayed, lost or expires:
\* a release that arrives frees the slot (doneScript), and a request rejected
\* with 429 leaves none behind (reserveScript, onReserve).
THEOREM EntriesAccounted == Spec => []Accounted
<1>1. AInv => Accounted
  BY DEF AInv
<1>. QED BY <1>1, InitAInv, StepAInv, PTL DEF Spec

-----------------------------------------------------------------------------
(***************************************************************************)
(* The refinement: asking for a slot is SendReserve, being admitted is     *)
(* reserveScript, and whatever else drops entries is a release or the      *)
(* passing of time.                                                        *)
(***************************************************************************)
LEMMA BudgetInit == Init => Budget!Init
BY DEF Init, Budget!Init

\* The abstract budget counts like this one.
LEMMA SameCardinality == \A S : Budget!Cardinality(S) = Cardinality(S)
BY DEF Budget!Cardinality, Cardinality

LEMMA BudgetReserve ==
  ASSUME IInv, NEW r \in Req, ReserveScript(r)
  PROVE  Budget!Next
<1>. USE DEF IInv
<1>1. start[r] \in Nat /\ start[r] <= now /\ now \in Nat /\ UNCHANGED <<now, start>>
  BY DEF ReserveScript, TypeOK, ClocksPast
<1>2. \A t \in Target : \A q \in inflight[t] \ inflight'[t] : start[q] + MaxAge <= now
  <2>. SUFFICES ASSUME NEW t \in Target, NEW q \in inflight[t] \ inflight'[t]
                PROVE  start[q] + MaxAge <= now
    OBVIOUS
  <2>1. start[q] \in Nat /\ start[q] + MaxAge <= start[r]
    BY ScriptEffect DEF TypeOK
  <2>. QED BY <1>1, <2>1, ConstantTypes
<1>3. CASE \A t \in Target : inflight'[t] \subseteq inflight[t]
  <2>1. Budget!Release(r)
    BY <1>1, <1>2, <1>3, ScriptEffect DEF Budget!Release, Budget!Keeps
  <2>. QED BY <2>1 DEF Budget!Next
<1>4. ASSUME NEW t \in Target,
             inflight'[t] \subseteq inflight[t] \union {r}, r \in inflight'[t],
             \A u \in Target \ {t} : inflight'[u] \subseteq inflight[u],
             MaxRun[t] = 0 \/ Cardinality(inflight'[t]) <= MaxRun[t]
      PROVE  Budget!Next
  <2>1. ~Budget!Holds(r)
    BY DEF ReserveScript, Phases, Phase, Budget!Holds
  <2>2. Budget!Admit(r, t)
    <3>1. inflight' \in [Target -> SUBSET Req]
      BY ScriptEffect
    <3>2. Budget!Keeps({}, now)
      BY <1>2 DEF Budget!Keeps
    <3>. QED BY <1>1, <1>4, <2>1, <3>1, <3>2, SameCardinality DEF Budget!Admit
  <2>. QED BY <2>2 DEF Budget!Next
<1>. QED BY <1>3, <1>4, ScriptEffect

LEMMA BudgetStep == IInv /\ [Next]_vars => [Budget!Next]_(Budget!vars)
<1>. SUFFICES ASSUME IInv, [Next]_vars PROVE [Budget!Next]_(Budget!vars)
  OBVIOUS
<1>. USE DEF redis, wire, stream, Budget!vars
<1>1. ASSUME NEW r \in Req,
             \/ Arrive(r) \/ Fallback(r) \/ LoadReply(r) \/ LoadFails(r) \/ RejectEmpty(r)
             \/ ReserveReply(r) \/ ReserveFails(r) \/ StreamDone(r) \/ Disconnect(r)
             \/ ReserveLost(r) \/ DoneLost(r)
      PROVE  UNCHANGED <<now, start, inflight>>
  BY <1>1 DEF Arrive, Fallback, LoadReply, LoadFails, Publish, RejectEmpty, ReserveReply,
              ReserveFails, StreamDone, Disconnect, ReserveLost, DoneLost
<1>2. ASSUME NEW r \in Req, SendReserve(r)
      PROVE  Budget!Next
  <2>1. ~Budget!Holds(r)
    BY <1>2 DEF SendReserve, IInv, Phases, Phase, Budget!Holds
  <2>2. Budget!Ask(r)
    BY <1>2, <2>1 DEF SendReserve, Budget!Ask
  <2>. QED BY <2>2 DEF Budget!Next
<1>3. ASSUME NEW r \in Req, ReserveScript(r)
      PROVE  Budget!Next
  BY <1>3, BudgetReserve
<1>4. ASSUME NEW r \in Req, DoneScript(r)
      PROVE  Budget!Next
  <2>1. doneAt[r] \in Nat /\ doneAt[r] <= now /\ now \in Nat /\ UNCHANGED <<now, start>>
    BY <1>4 DEF DoneScript, IInv, TypeOK, ClocksPast
  <2>2. ASSUME NEW t \in Target, NEW q \in inflight[t] \ inflight'[t], q # r
        PROVE  start[q] + MaxAge <= now
    <3>1. start[q] \in Nat /\ start[q] + MaxAge <= doneAt[r]
      BY <1>4, <2>2, DoneEffect DEF IInv, TypeOK
    <3>. QED BY <2>1, <3>1, ConstantTypes
  <2>3. Budget!Release(r)
    BY <1>4, <2>1, <2>2, DoneEffect DEF Budget!Release, Budget!Keeps
  <2>. QED BY <2>3 DEF Budget!Next
<1>5. CASE Tick
  <2>1. Budget!Pass
    BY <1>5, TickEffect DEF Tick, Budget!Pass, Budget!Keeps
  <2>. QED BY <2>1 DEF Budget!Next
<1>6. CASE UNCHANGED vars
  BY <1>6 DEF vars
<1>. QED BY <1>1, <1>2, <1>3, <1>4, <1>5, <1>6 DEF Next, Stopped

\* The redis backend implements the abstract budget: a request is admitted to a
\* target only while it has room, holds one slot at most, and no script, expiry
\* or late message takes a slot away before it is given back or MaxAge old.
THEOREM ImplementsBudget == Spec => BudgetSpec
BY BudgetInit, BudgetStep, AlwaysIInv, PTL DEF Spec, BudgetSpec, Budget!Spec
-----------------------------------------------------------------------------
(***************************************************************************)
(* Theorems about passive health on the redis backend, for any number of   *)
(* requests, targets and clusters and any configuration.                   *)
(*                                                                         *)
(* EjectionSound is not inductive: the evidence for an ejection is spread  *)
(* over the failure count, which a script may have raised any number of    *)
(* times before, and over the requests in their recovery window, whose     *)
(* single strike is good only because the cluster was ejected once before. *)
(***************************************************************************)

\* The requests whose failure redis has recorded against c.
Evidence(c) == {r \in Req : release[r] = "executed" /\ outcome[r] = "fail" /\ ClusterOf[chosen[r]] = c}

Evident(c) == Cardinality(Evidence(c)) >= Threshold

\* The failure count has its evidence, and so has a cluster that is or was ejected.
CountsEvident ==
  \A c \in Cluster :
    /\ health[c].f <= Cardinality(Evidence(c))
    /\ health[c].e > 0 \/ health[c].r > 0 => Evident(c)

\* So does a request that counts for one strike.
ProbationEvident ==
  \A r \in Req : \A t \in probation[r] : t \in Target /\ Evident(ClusterOf[t])

\* The deadlines of one ejection, none of them further away than it may be.
Deadlines ==
  \A c \in Cluster :
    /\ health[c].e <= now + Cooldown
    /\ health[c].r <= now + Cooldown + Ramp
    /\ health[c].e > 0 => health[c].r = health[c].e + Ramp
    /\ health[c].r > 0 => health[c].e > 0

\* The key of a cluster is not to expire before its recovery is over.
HealthKeysOutlive == \A c \in Cluster : health[c].r <= healthExp[c]

HInv == CountsEvident /\ ProbationEvident /\ Deadlines /\ HealthKeysOutlive

LEMMA TTLCoversRecovery ==
  /\ HealthTTLSeconds \in Nat
  /\ HealthTTLSeconds * 1000 >= Cooldown + Ramp
<1>1. Cooldown \in Nat /\ Ramp \in Nat /\ MinHealthTTL \in Nat \ {0}
  BY ConfigAssumption
<1>2. PICK q \in Nat : q = ((Cooldown + Ramp) * 2) \div 1000 /\ 1000 * q > (Cooldown + Ramp) * 2 - 1000
  BY <1>1, SMTT(30)
<1>3. CASE q >= MinHealthTTL
  BY <1>1, <1>2, <1>3 DEF HealthTTLSeconds, Larger
<1>4. CASE q < MinHealthTTL
  BY <1>1, <1>2, <1>4 DEF HealthTTLSeconds, Larger
<1>. QED BY <1>1, <1>2, <1>3, <1>4

LEMMA EvidenceFinite ==
  \A c : IsFiniteSet(Evidence(c)) /\ Cardinality(Evidence(c)) \in Nat
BY ConstantTypes, FS_Subset, FS_CardinalityType DEF Evidence

\* Evidence is never taken back.
LEMMA EvidenceGrows ==
  ASSUME NEW c, Evidence(c) \subseteq Evidence(c)'
  PROVE  /\ Cardinality(Evidence(c)) <= Cardinality(Evidence(c)')
         /\ Evident(c) => Evident(c)'
<1>1. IsFiniteSet(Evidence(c)') /\ Cardinality(Evidence(c)') \in Nat
  BY ConstantTypes, FS_Subset, FS_CardinalityType DEF Evidence
<1>2. Cardinality(Evidence(c)) <= Cardinality(Evidence(c)') /\ Cardinality(Evidence(c)) \in Nat
  BY <1>1, FS_Subset, EvidenceFinite
<1>. QED BY <1>1, <1>2, ConstantTypes DEF Evident

LEMMA InitHInv == Init => HInv
<1>. SUFFICES ASSUME Init PROVE HInv
  OBVIOUS
<1>1. \A c \in Cluster : health[c].f = 0 /\ health[c].e = 0 /\ health[c].r = 0 /\ healthExp[c] = 0 /\ now = 0
  BY DEF Init, Clean
<1>2. CountsEvident
  BY <1>1, EvidenceFinite DEF CountsEvident
<1>. QED BY <1>1, <1>2, ConstantTypes DEF Init, HInv, ProbationEvident, Deadlines, HealthKeysOutlive

-----------------------------------------------------------------------------
\* What redis has recorded stays recorded: neither outcome nor candidate of a
\* request changes once its release has been carried out.
RecordKept ==
  \A q \in Req : release[q] = "executed" =>
    release'[q] = "executed" /\ outcome'[q] = outcome[q] /\ chosen'[q] = chosen[q]

LEMMA KeptEvidence ==
  ASSUME RecordKept, NEW c
  PROVE  Evidence(c) \subseteq Evidence(c)'
BY DEF RecordKept, Evidence

LEMMA StepKeepsRecord ==
  ASSUME IInv, [Next]_vars
  PROVE  RecordKept
<1>. USE DEF IInv, RecordKept
<1>1. ASSUME NEW r \in Req,
             \/ Arrive(r) \/ Fallback(r) \/ LoadReply(r) \/ LoadFails(r) \/ RejectEmpty(r)
             \/ SendReserve(r) \/ Disconnect(r) \/ ReserveScript(r) \/ ReserveLost(r)
      PROVE  RecordKept
  BY <1>1 DEF Arrive, Fallback, LoadReply, LoadFails, Publish, RejectEmpty, SendReserve,
              Disconnect, ReserveScript, ReserveLost, wire
<1>2. ASSUME NEW r \in Req, ReserveReply(r) \/ ReserveFails(r) \/ StreamDone(r)
      PROVE  RecordKept
  <2>1. release[r] = "none"
    BY <1>2 DEF ReserveReply, ReserveFails, StreamDone, Phases, Phase
  <2>2. \A q \in Req \ {r} : /\ release'[q] = release[q] /\ outcome'[q] = outcome[q]
                             /\ chosen'[q] = chosen[q]
    <3>1. CASE ReserveReply(r) \/ ReserveFails(r)
      BY <3>1 DEF ReserveReply, ReserveFails, Route, TypeOK
    <3>2. CASE StreamDone(r)
      BY <3>2 DEF StreamDone, TypeOK
    <3>. QED BY <1>2, <3>1, <3>2
  <2>. QED BY <2>1, <2>2
<1>3. ASSUME NEW r \in Req, DoneScript(r) \/ DoneLost(r)
      PROVE  RecordKept
  BY <1>3 DEF DoneScript, DoneLost, TypeOK
<1>4. CASE Tick
  BY <1>4 DEF Tick, stream, wire
<1>5. CASE UNCHANGED vars
  BY <1>5 DEF vars, stream, wire
<1>. QED BY <1>1, <1>2, <1>3, <1>4, <1>5 DEF Next, Stopped

\* A step that leaves the health record alone.
LEMMA HealthUntouched ==
  ASSUME TypeOK, HInv, RecordKept, UNCHANGED <<now, health, healthExp>>,
         \A r \in Req : \A t \in probation'[r] : t \in Target /\ Evident(ClusterOf[t])
  PROVE  HInv'
<1>. USE DEF HInv
<1>1. \A c : /\ Cardinality(Evidence(c)) <= Cardinality(Evidence(c)')
             /\ Evident(c) => Evident(c)'
  BY KeptEvidence, EvidenceGrows
<1>2. CountsEvident'
  <2>. SUFFICES ASSUME NEW c \in Cluster
                PROVE  /\ health[c].f <= Cardinality(Evidence(c)')
                       /\ health[c].e > 0 \/ health[c].r > 0 => Evident(c)'
    BY DEF CountsEvident
  <2>1. Cardinality(Evidence(c)) \in Nat /\ Cardinality(Evidence(c)') \in Nat /\ health[c].f \in Nat
    BY EvidenceFinite, ConstantTypes, FS_Subset, FS_CardinalityType DEF Evidence, TypeOK
  <2>. QED BY <1>1, <2>1 DEF CountsEvident
<1>3. ProbationEvident'
  BY <1>1 DEF ProbationEvident
<1>4. Deadlines' /\ HealthKeysOutlive'
  BY DEF Deadlines, HealthKeysOutlive
<1>. QED BY <1>2, <1>3, <1>4

\* buildCandidateSet: a request is on probation only for what was ejected.
LEMMA PublishHInv ==
  ASSUME IInv, HInv, RecordKept, NEW r \in Req, LoadReply(r) \/ LoadFails(r)
  PROVE  HInv'
<1>1. UNCHANGED <<now, health, healthExp>>
  BY DEF LoadReply, LoadFails, Publish, redis
<1>2. loadAt[r] \in Nat
  BY DEF IInv, TypeOK
<1>3. ASSUME NEW q \in Req, NEW t \in probation'[q]
      PROVE  t \in Target /\ Evident(ClusterOf[t])
  <2>1. CASE q # r
    BY <1>3, <2>1 DEF LoadReply, LoadFails, Publish, HInv, ProbationEvident, IInv, TypeOK
  <2>2. CASE q = r /\ LoadReply(r)
    <3>1. t \in Target /\ Recovering(t, health, loadAt[r])
      BY <1>3, <2>2 DEF LoadReply, Publish, IInv, TypeOK
    <3>2. ClusterOf[t] \in Cluster
      BY <3>1, ConstantTypes
    <3>3. health[ClusterOf[t]].r \in Nat /\ loadAt[r] < health[ClusterOf[t]].r
      BY <3>1, <3>2 DEF Recovering, IInv, TypeOK
    <3>. QED BY <1>2, <3>1, <3>2, <3>3 DEF HInv, CountsEvident
  <2>3. CASE q = r /\ LoadFails(r)
    <3>1. t \in Target /\ Recovering(t, [c \in Cluster |-> Clean], loadAt[r])
      BY <1>3, <2>3 DEF LoadFails, Publish, IInv, TypeOK
    <3>2. ClusterOf[t] \in Cluster
      BY <3>1, ConstantTypes
    <3>. QED BY <1>2, <3>1, <3>2 DEF Recovering, Clean
  <2>. QED BY <2>1, <2>2, <2>3
<1>. QED BY <1>1, <1>3, HealthUntouched DEF IInv

-----------------------------------------------------------------------------
\* The health script.
LEMMA DoneHInv ==
  ASSUME IInv, HInv, RecordKept, NEW r \in Req, DoneScript(r)
  PROVE  HInv'
<1>. USE DEF IInv, HInv
<1>. SUFFICES ASSUME NEW c \in Cluster, c = ClusterOf[chosen[r]], chosen[r] \in Target
              PROVE  HInv'
  <2>1. chosen[r] \in Target
    BY DEF DoneScript, Phases, Phase
  <2>. QED BY <2>1, ConstantTypes
<1>. DEFINE h == health[c]
            touched == outcome[r] = "fail" \/ (outcome[r] = "ok" /\ h.f # 0)
<1>1. /\ release[r] = "sent" /\ release' = [release EXCEPT ![r] = "executed"]
      /\ health' = [health EXCEPT ![c] = AfterOutcome(h, r)]
      /\ healthExp' = [healthExp EXCEPT ![c] =
                         IF touched THEN now + HealthTTLSeconds * 1000 ELSE healthExp[c]]
      /\ probation' = [probation EXCEPT ![r] = {}]
      /\ UNCHANGED <<now, chosen, outcome>>
  BY DEF DoneScript
<1>3. /\ h.f \in Nat /\ h.e \in Nat /\ h.r \in Nat /\ healthExp[c] \in Nat
      /\ now \in Nat /\ doneAt[r] \in Nat /\ doneAt[r] <= now
      /\ h = [f |-> h.f, e |-> h.e, r |-> h.r]
  BY DEF TypeOK, ClocksPast
<1>4. \A d \in Cluster \ {c} : health'[d] = health[d] /\ healthExp'[d] = healthExp[d]
  BY <1>1 DEF TypeOK
<1>5. \A d : /\ Cardinality(Evidence(d)) <= Cardinality(Evidence(d)')
             /\ Evident(d) => Evident(d)'
             /\ Cardinality(Evidence(d)) \in Nat /\ Cardinality(Evidence(d)') \in Nat
  BY KeptEvidence, EvidenceGrows, EvidenceFinite, ConstantTypes, FS_Subset, FS_CardinalityType
     DEF Evidence
<1>6. ProbationEvident'
  <2>1. \A q \in Req : probation'[q] \subseteq probation[q]
    BY <1>1 DEF TypeOK
  <2>. QED BY <1>5, <2>1 DEF ProbationEvident
\* The three outcomes, each with what it leaves of the record.
<1>7. CASE outcome[r] # "fail"
  <2>1. health'[c].f \in {h.f, 0} /\ health'[c].e = h.e /\ health'[c].r = h.r
    <3>1. health'[c] = AfterOutcome(h, r)
      BY <1>1 DEF TypeOK
    <3>2. AfterOutcome(h, r) = IF outcome[r] = "ok" THEN [h EXCEPT !.f = 0] ELSE h
      BY <1>7 DEF AfterOutcome
    <3>. HIDE DEF h
    <3>. QED BY <1>3, <3>1, <3>2
  <2>2. healthExp'[c] \in {healthExp[c], now + HealthTTLSeconds * 1000}
    BY <1>1 DEF TypeOK
  <2>3. CountsEvident'
    <3>. SUFFICES ASSUME NEW d \in Cluster
                  PROVE  /\ health'[d].f <= Cardinality(Evidence(d)')
                         /\ health'[d].e > 0 \/ health'[d].r > 0 => Evident(d)'
      BY DEF CountsEvident
    <3>1. health[d].f \in Nat /\ health[d].f <= Cardinality(Evidence(d))
      BY DEF CountsEvident, TypeOK
    <3>. QED BY <1>4, <1>5, <2>1, <3>1 DEF CountsEvident
  <2>4. Deadlines'
    BY <1>1, <1>4, <2>1 DEF Deadlines
  <2>5. HealthKeysOutlive'
    <3>1. h.r <= healthExp[c] /\ h.r <= now + HealthTTLSeconds * 1000
      BY <1>3, TTLCoversRecovery, ConstantTypes DEF HealthKeysOutlive, Deadlines
    <3>. QED BY <1>4, <2>1, <2>2, <3>1 DEF HealthKeysOutlive
  <2>. QED BY <1>6, <2>3, <2>4, <2>5
<1>8. CASE outcome[r] = "fail"
  <2>1. /\ Cardinality(Evidence(c)') = Cardinality(Evidence(c)) + 1
        /\ Strikes(r) \in {1, Threshold}
        /\ Strikes(r) = 1 => Evident(c) \/ Threshold = 1
    <3>1. Evidence(c)' = Evidence(c) \union {r} /\ r \notin Evidence(c)
      BY <1>1, <1>8 DEF Evidence, TypeOK
    <3>2. Cardinality(Evidence(c) \union {r}) = Cardinality(Evidence(c)) + 1
      BY <3>1, EvidenceFinite, FS_AddElement
    <3>3. chosen[r] \in probation[r] => Evident(c)
      BY DEF ProbationEvident
    <3>. QED BY <3>1, <3>2, <3>3 DEF Strikes
  <2>2. CASE h.f + 1 >= Strikes(r)
    <3>1. /\ health'[c].f = 0 /\ health'[c].e = doneAt[r] + Cooldown
          /\ health'[c].r = doneAt[r] + Cooldown + Ramp
      BY <1>1, <1>8, <2>2 DEF AfterOutcome, TypeOK
    <3>2. Evident(c)'
      <4>1. h.f <= Cardinality(Evidence(c))
        BY DEF CountsEvident
      <4>2. CASE Evident(c)
        BY <1>5, <4>2
      <4>3. CASE Strikes(r) = Threshold
        <5>1. Cardinality(Evidence(c)') >= Threshold
          BY <1>3, <1>5, <2>1, <2>2, <4>1, <4>3, ConstantTypes
        <5>. QED BY <5>1 DEF Evident
      <4>. QED BY <2>1, <4>2, <4>3
    <3>3. CountsEvident'
      <4>. SUFFICES ASSUME NEW d \in Cluster
                    PROVE  /\ health'[d].f <= Cardinality(Evidence(d)')
                           /\ health'[d].e > 0 \/ health'[d].r > 0 => Evident(d)'
        BY DEF CountsEvident
      <4>1. health[d].f \in Nat /\ health[d].f <= Cardinality(Evidence(d))
        BY DEF CountsEvident, TypeOK
      <4>2. CASE d = c
        BY <1>5, <3>1, <3>2, <4>2
      <4>3. CASE d # c
        BY <1>4, <1>5, <4>1, <4>3 DEF CountsEvident
      <4>. QED BY <4>2, <4>3
    <3>4. Deadlines'
      BY <1>1, <1>3, <1>4, <3>1, ConstantTypes DEF Deadlines
    <3>5. HealthKeysOutlive'
      <4>1. healthExp'[c] = now + HealthTTLSeconds * 1000
        BY <1>1, <1>8 DEF TypeOK
      <4>2. doneAt[r] + Cooldown + Ramp <= now + HealthTTLSeconds * 1000
        BY <1>3, TTLCoversRecovery, ConstantTypes
      <4>. QED BY <1>4, <3>1, <4>1, <4>2 DEF HealthKeysOutlive
    <3>. QED BY <1>6, <3>3, <3>4, <3>5
  <2>3. CASE ~(h.f + 1 >= Strikes(r))
    <3>1. health'[c].f = h.f + 1 /\ health'[c].e = h.e /\ health'[c].r = h.r
      <4>1. health'[c] = [h EXCEPT !.f = h.f + 1]
        BY <1>1, <1>8, <2>3 DEF AfterOutcome, TypeOK
      <4>. HIDE DEF h
      <4>. QED BY <1>3, <4>1
    <3>2. CountsEvident'
      <4>. SUFFICES ASSUME NEW d \in Cluster
                    PROVE  /\ health'[d].f <= Cardinality(Evidence(d)')
                           /\ health'[d].e > 0 \/ health'[d].r > 0 => Evident(d)'
        BY DEF CountsEvident
      <4>1. health[d].f \in Nat /\ health[d].f <= Cardinality(Evidence(d))
        BY DEF CountsEvident, TypeOK
      <4>2. CASE d = c
        <5>1. health'[d].f <= Cardinality(Evidence(d)')
          BY <1>5, <2>1, <3>1, <4>1, <4>2
        <5>2. h.e > 0 \/ h.r > 0 => Evident(c)
          BY DEF CountsEvident
        <5>. QED BY <1>5, <3>1, <4>2, <5>1, <5>2
      <4>3. CASE d # c
        BY <1>4, <1>5, <4>1, <4>3 DEF CountsEvident
      <4>. QED BY <4>2, <4>3
    <3>3. Deadlines'
      BY <1>1, <1>4, <3>1 DEF Deadlines
    <3>4. HealthKeysOutlive'
      <4>1. healthExp'[c] = now + HealthTTLSeconds * 1000
        BY <1>1, <1>8 DEF TypeOK
      <4>2. h.r <= now + HealthTTLSeconds * 1000
        BY <1>3, TTLCoversRecovery, ConstantTypes DEF Deadlines
      <4>. QED BY <1>4, <3>1, <4>1, <4>2 DEF HealthKeysOutlive
    <3>. QED BY <1>6, <3>2, <3>3, <3>4
  <2>. QED BY <2>2, <2>3
<1>. QED BY <1>7, <1>8

\* Time takes a record away as a whole, and only when its key expires.
LEMMA TickHInv ==
  ASSUME IInv, HInv, RecordKept, Tick
  PROVE  HInv'
<1>. USE DEF IInv, HInv
<1>1. now \in Nat /\ now' \in Nat /\ now <= now' /\ UNCHANGED probation
  BY ConstantTypes DEF Tick, stream, TypeOK
<1>2. ASSUME NEW c \in Cluster
      PROVE  \/ health'[c] = health[c] /\ healthExp'[c] = healthExp[c]
             \/ health'[c] = Clean /\ healthExp'[c] = 0
  BY DEF Tick
<1>3. \A d : /\ Cardinality(Evidence(d)) <= Cardinality(Evidence(d)')
             /\ Evident(d) => Evident(d)'
             /\ Cardinality(Evidence(d)) \in Nat /\ Cardinality(Evidence(d)') \in Nat
  BY KeptEvidence, EvidenceGrows, EvidenceFinite, ConstantTypes, FS_Subset, FS_CardinalityType
     DEF Evidence
<1>4. ASSUME NEW c \in Cluster
      PROVE  /\ health'[c].f <= Cardinality(Evidence(c)')
             /\ health'[c].e > 0 \/ health'[c].r > 0 => Evident(c)'
  <2>1. health[c].f \in Nat /\ health[c].f <= Cardinality(Evidence(c))
    BY DEF CountsEvident, TypeOK
  <2>. QED BY <1>2, <1>3, <2>1 DEF CountsEvident, Clean
<1>5. ASSUME NEW c \in Cluster
      PROVE  /\ health'[c].e <= now' + Cooldown
             /\ health'[c].r <= now' + Cooldown + Ramp
             /\ health'[c].e > 0 => health'[c].r = health'[c].e + Ramp
             /\ health'[c].r > 0 => health'[c].e > 0
             /\ health'[c].r <= healthExp'[c]
  <2>1. health[c].e \in Nat /\ health[c].r \in Nat
    BY DEF TypeOK
  <2>. QED BY <1>1, <1>2, <2>1, ConstantTypes DEF Deadlines, HealthKeysOutlive, Clean
<1>. QED BY <1>1, <1>3, <1>4, <1>5 DEF CountsEvident, ProbationEvident, Deadlines, HealthKeysOutlive

LEMMA StepHInv ==
  ASSUME IInv, HInv, [Next]_vars
  PROVE  HInv'
<1>1. RecordKept
  BY StepKeepsRecord
<1>2. ASSUME NEW r \in Req, LoadReply(r) \/ LoadFails(r)
      PROVE  HInv'
  BY <1>1, <1>2, PublishHInv
<1>3. ASSUME NEW r \in Req, DoneScript(r)
      PROVE  HInv'
  BY <1>1, <1>3, DoneHInv
<1>4. CASE Tick
  BY <1>1, <1>4, TickHInv
<1>5. ASSUME UNCHANGED <<now, health, healthExp>>, \A q \in Req : probation'[q] \subseteq probation[q]
      PROVE  HInv'
  BY <1>1, <1>5, HealthUntouched DEF IInv, HInv, ProbationEvident
<1>6. ASSUME NEW r \in Req,
             \/ Arrive(r) \/ Fallback(r) \/ SendReserve(r) \/ ReserveReply(r) \/ ReserveFails(r)
             \/ StreamDone(r) \/ ReserveScript(r) \/ ReserveLost(r)
      PROVE  HInv'
  <2>1. UNCHANGED <<now, health, healthExp, probation>>
    BY <1>6 DEF Arrive, Fallback, SendReserve, ReserveReply, ReserveFails, StreamDone,
                ReserveScript, ReserveLost, redis
  <2>. QED BY <1>5, <2>1
<1>7. ASSUME NEW r \in Req, RejectEmpty(r) \/ Disconnect(r) \/ DoneLost(r)
      PROVE  HInv'
  <2>1. UNCHANGED <<now, health, healthExp>> /\ probation' = [probation EXCEPT ![r] = {}]
    BY <1>7 DEF RejectEmpty, Disconnect, DoneLost, redis
  <2>2. \A q \in Req : probation'[q] \subseteq probation[q]
    BY <2>1 DEF IInv, TypeOK
  <2>. QED BY <1>5, <2>1, <2>2
<1>8. CASE UNCHANGED vars
  BY <1>5, <1>8 DEF vars, stream, redis
<1>. QED BY <1>2, <1>3, <1>4, <1>6, <1>7, <1>8 DEF Next, Stopped

LEMMA AlwaysHInv == Spec => [](IInv /\ HInv)
<1>1. Init => IInv /\ HInv
  BY InitIInv, InitHInv
<1>2. IInv /\ HInv /\ [Next]_vars => (IInv /\ HInv)'
  BY StepIInv, StepHInv
<1>. QED BY <1>1, <1>2, PTL DEF Spec

-----------------------------------------------------------------------------
(***************************************************************************)
(* recordOutcome and the health script: whatever scripts redis delays or   *)
(* loses and whatever keys expire, a cluster is ejected only after that    *)
(* many requests failed to reach it, for one cooldown at most, and its     *)
(* recovery window follows at once.                                        *)
(***************************************************************************)
THEOREM EjectionDeserved == Spec => []EjectionSound
<1>1. IInv /\ HInv => EjectionSound
  BY DEF HInv, CountsEvident, Deadlines, Evident, Evidence,
         EjectionSound, EjectionNeedsEvidence, EjectionBounded
<1>. QED BY <1>1, AlwaysHInv, PTL

(***************************************************************************)
(* The time to live of the health key (redis_store.go): no expiry and no   *)
(* outcome readmits a cluster whose recovery is not over.                  *)
(***************************************************************************)
THEOREM EjectionLasts == Spec => EjectionOutlived
<1>1. ASSUME IInv, HInv, [Next]_vars, NEW c \in Cluster, health[c].r > now'
      PROVE  health'[c].e > 0
  <2>. USE DEF IInv, HInv
  <2>1. /\ now \in Nat /\ health[c] \in [f : Nat, e : Nat, r : Nat]
        /\ healthExp[c] \in Nat
    BY <1>1 DEF TypeOK
  <2>2. CASE Tick
    <3>1. now' \in Nat /\ health[c].r <= healthExp[c]
      BY <1>1, <2>1, <2>2, ConstantTypes DEF Tick, HealthKeysOutlive
    <3>. QED BY <1>1, <2>1, <2>2, <3>1 DEF Tick, Deadlines
  <2>3. health[c].e > 0 \/ Tick
    <3>1. now' = now \/ Tick
      BY <1>1 DEF Next, Arrive, Fallback, LoadReply, LoadFails, Publish, RejectEmpty, SendReserve,
                  ReserveReply, ReserveFails, StreamDone, Disconnect, ReserveScript, ReserveLost,
                  DoneScript, DoneLost, Stopped, vars
    <3>. QED BY <1>1, <2>1, <3>1 DEF Deadlines
  <2>4. ASSUME NEW r \in Req, DoneScript(r), health[c].e > 0
        PROVE  health'[c].e > 0
    <3>1. health'[c] \in {health[c], AfterOutcome(health[c], r)}
      BY <2>4 DEF DoneScript, TypeOK
    <3>2. AfterOutcome(health[c], r).e \in {health[c].e, doneAt[r] + Cooldown}
      BY <2>1 DEF AfterOutcome
    <3>3. doneAt[r] \in Nat
      BY <1>1 DEF TypeOK
    <3>. QED BY <2>1, <2>4, <3>1, <3>2, <3>3, ConstantTypes
  <2>5. \/ \E r \in Req : DoneScript(r)
        \/ Tick
        \/ UNCHANGED health
    BY <1>1 DEF Next, Arrive, Fallback, LoadReply, LoadFails, Publish, RejectEmpty, SendReserve,
                ReserveReply, ReserveFails, StreamDone, Disconnect, ReserveScript, ReserveLost,
                DoneLost, Stopped, vars, redis
  <2>. QED BY <1>1, <2>2, <2>3, <2>4, <2>5
<1>2. IInv /\ HInv /\ [Next]_vars => [\A c \in Cluster : health[c].r > now' => health'[c].e > 0]_vars
  BY <1>1
<1>. QED BY <1>2, AlwaysHInv, PTL DEF Spec, EjectionOutlived
=============================================================================
