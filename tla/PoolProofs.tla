----------------------------- MODULE PoolProofs -----------------------------
(***************************************************************************)
(* Proofs about Pool, for any number of Fns and of inputs: an Fn is used   *)
(* by one Invoke at a time, putting it back never blocks, none is lost as  *)
(* long as none panics, and the pool keeps the promise of an Fn.  And      *)
(* about PooledService: in a pool the Invokes of a cli service do not      *)
(* overlap, so that it keeps all that CliServiceProofs shows for that      *)
(* case, and its callers, who do overlap, get their own answers.           *)
(***************************************************************************)
EXTENDS PooledService, FiniteSetTheorems, TLAPS

-----------------------------------------------------------------------------
(* The free Fns as a set.                                                  *)

LEMMA CapacityType == Capacity \in Nat \ {0}
  BY PoolAssumption DEF Capacity

LEMMA FnsType == None \notin Fns
  BY PoolAssumption, CapacityType DEF Fns

\* Sending an Fn that is not in the channel.
LEMMA AppendFn ==
  ASSUME NEW s \in Seq(Fns), NEW f \in Fns
  PROVE  /\ Append(s, f) \in Seq(Fns)
         /\ Range(Append(s, f)) = Range(s) \cup {f}
         /\ IsInjective(s) /\ f \notin Range(s) => IsInjective(Append(s, f))
<1> DEFINE t == Append(s, f)
<1>1. /\ t \in Seq(Fns) /\ Len(t) = Len(s) + 1 /\ t[Len(t)] = f
      /\ \A k \in 1 .. Len(s) : t[k] = s[k]
  OBVIOUS
<1>2. DOMAIN t = 1 .. Len(s) + 1 /\ DOMAIN s = 1 .. Len(s) /\ Len(s) \in Nat
  BY <1>1
<1> HIDE DEF t
<1>3. Range(t) = Range(s) \cup {f}
  BY <1>1, <1>2 DEF Range
<1>4. IsInjective(s) /\ f \notin Range(s) => IsInjective(t)
  BY <1>1, <1>2 DEF Range, IsInjective
<1>. QED
  BY <1>1, <1>3, <1>4 DEF t

\* Receiving the Fn at the head of the channel.
LEMMA TakeFn ==
  ASSUME NEW s \in Seq(Fns), s # <<>>
  PROVE  /\ Head(s) \in Range(s) /\ Head(s) \in Fns
         /\ Tail(s) \in Seq(Fns)
         /\ Range(s) = Range(Tail(s)) \cup {Head(s)}
         /\ IsInjective(s) => IsInjective(Tail(s)) /\ Head(s) \notin Range(Tail(s))
<1> DEFINE t == Tail(s)
<1>1. /\ t \in Seq(Fns) /\ Len(t) = Len(s) - 1 /\ Head(s) = s[1] /\ s[1] \in Fns
      /\ \A k \in 1 .. Len(t) : t[k] = s[k + 1]
      /\ Len(s) \in Nat /\ Len(s) >= 1
  OBVIOUS
<1>2. DOMAIN t = 1 .. Len(s) - 1 /\ DOMAIN s = 1 .. Len(s)
  BY <1>1
<1> HIDE DEF t
<1>3. Head(s) \in Range(s)
  BY <1>1, <1>2 DEF Range
<1>4. Range(t) \subseteq Range(s)
  BY <1>1, <1>2 DEF Range
<1>5. ASSUME NEW k \in 1 .. Len(s), s[k] # Head(s)
      PROVE  s[k] \in Range(t)
  <2>1. k - 1 \in DOMAIN t /\ t[k - 1] = s[k]
    BY <1>1, <1>2, <1>5
  <2>. QED
    BY <2>1 DEF Range
<1>6. Range(s) = Range(t) \cup {Head(s)}
  BY <1>2, <1>3, <1>4, <1>5 DEF Range
<1>7. ASSUME IsInjective(s)
      PROVE  IsInjective(t) /\ Head(s) \notin Range(t)
  <2>1. IsInjective(t)
    <3> SUFFICES ASSUME NEW a \in 1 .. Len(t), NEW b \in 1 .. Len(t), t[a] = t[b]
                 PROVE  a = b
      BY <1>1, <1>2 DEF IsInjective
    <3>1. s[a + 1] = s[b + 1] /\ a + 1 \in DOMAIN s /\ b + 1 \in DOMAIN s
      BY <1>1, <1>2
    <3>2. a + 1 = b + 1
      BY <3>1, <1>7 DEF IsInjective
    <3>. QED
      BY <3>2
  <2>2. ASSUME NEW k \in 1 .. Len(t)
        PROVE  t[k] # Head(s)
    <3>1. t[k] = s[k + 1] /\ k + 1 \in DOMAIN s /\ 1 \in DOMAIN s /\ k + 1 # 1
      BY <1>1, <1>2
    <3>. QED
      BY <3>1, <1>1, <1>7 DEF IsInjective
  <2>. QED
    BY <1>1, <1>2, <2>1, <2>2 DEF Range
<1>. QED
  BY <1>1, <1>3, <1>6, <1>7 DEF t

\* A channel that holds each Fn at most once, and not all of them, has room.
LEMMA RoomFor ==
  ASSUME NEW s \in Seq(Fns), IsInjective(s), NEW f \in Fns, f \notin Range(s)
  PROVE  Len(s) < Capacity
<1>1. IsFiniteSet(Fns) /\ Cardinality(Fns) = Capacity
  BY CapacityType, FS_Interval DEF Fns
<1>2. Range(s) \subseteq Fns \ {f}
  BY DEF Range
<1>3. IsFiniteSet(Fns \ {f}) /\ Cardinality(Fns \ {f}) = Capacity - 1
  BY <1>1, FS_RemoveElement
<1>4. IsFiniteSet(Range(s)) /\ Cardinality(Range(s)) <= Capacity - 1
  BY <1>2, <1>3, FS_Subset
<1>5. Cardinality(Range(s)) = Len(s)
  <2>1. s \in Bijection(1 .. Len(s), Range(s))
    BY DEF IsInjective, Range, Bijection, Injection, Surjection
  <2>2. ExistsBijection(1 .. Len(s), Range(s))
    BY <2>1 DEF ExistsBijection
  <2>. QED
    BY <2>2, FS_CountingElements
<1>. QED
  BY <1>4, <1>5, CapacityType, FS_CardinalityType

-----------------------------------------------------------------------------
(* The inductive invariant.                                                *)

\* While the pool is configured nobody uses it.
NotStarted ==
  /\ config = "running" =>
       /\ Len(fnChan) < Capacity
       /\ \A k \in 1 .. Len(fnChan) : fnChan[k] = k
  /\ config # "done" =>
       \A i \in Inputs : pc[i] = "new" /\ held[i] = None

\* An Invoke holds an Fn exactly while it uses it and puts it back.
HoldsFn == \A i \in Inputs : held[i] # None <=> pc[i] \in {"invoke", "return"}

\* An Fn is in one place.
OnePlace ==
  /\ IsInjective(fnChan)
  /\ \A i \in Inputs :
       held[i] # None =>
         /\ held[i] \notin Range(fnChan)
         /\ \A j \in Inputs : held[j] = held[i] => j = i

PoolInv == TypeOK /\ NotStarted /\ HoldsFn /\ OnePlace

LEMMA PoolInit == Init => PoolInv
<1> SUFFICES ASSUME Init PROVE PoolInv
  OBVIOUS
<1>1. TypeOK
  BY DEF Init, TypeOK, Locations, Results
<1>2. NotStarted
  BY CapacityType DEF Init, NotStarted
<1>3. HoldsFn
  BY DEF Init, HoldsFn
<1>4. OnePlace
  BY DEF Init, OnePlace, IsInjective
<1>. QED
  BY <1>1, <1>2, <1>3, <1>4 DEF PoolInv

\* The loop of ConfigureMap sends an Fn that is not in the channel yet.
LEMMA CreateFnStep ==
  ASSUME PoolInv, CreateFn
  PROVE  PoolInv'
<1> DEFINE f == Len(fnChan) + 1
<1>1. TypeOK /\ NotStarted /\ HoldsFn /\ OnePlace
  BY DEF PoolInv
<1>2. f \in Fns /\ Len(fnChan) \in Nat /\ fnChan \in Seq(Fns)
  BY <1>1, CapacityType DEF CreateFn, TypeOK, Fns
<1>3. f \notin Range(fnChan)
  <2>1. DOMAIN fnChan = 1 .. Len(fnChan)
    BY <1>2
  <2>2. \A k \in DOMAIN fnChan : fnChan[k] = k
    BY <1>1, <2>1 DEF CreateFn, NotStarted
  <2>3. f \notin DOMAIN fnChan
    BY <1>2, <2>1
  <2>. QED
    BY <2>2, <2>3 DEF Range
<1>4. fnChan' = Append(fnChan, f)
  BY DEF CreateFn
<1> HIDE DEF f
<1>5. fnChan' \in Seq(Fns) /\ IsInjective(fnChan')
  BY <1>1, <1>2, <1>3, <1>4, AppendFn DEF OnePlace
<1>6. TypeOK'
  BY <1>1, <1>5 DEF CreateFn, TypeOK
<1>7. NotStarted'
  <2>1. Len(fnChan') = Len(fnChan) + 1
    BY <1>2, <1>4
  <2>2. ASSUME NEW k \in 1 .. Len(fnChan')
        PROVE  fnChan'[k] = k
    <3>1. CASE k \in 1 .. Len(fnChan)
      BY <1>1, <1>2, <1>4, <3>1 DEF CreateFn, NotStarted
    <3>2. CASE k = Len(fnChan) + 1
      BY <1>2, <1>4, <3>2 DEF f
    <3>. QED
      BY <1>2, <2>1, <3>1, <3>2
  <2>3. config' = "running" => Len(fnChan') < Capacity
    BY <1>2, <2>1, CapacityType DEF CreateFn
  <2>. QED
    BY <1>1, <2>2, <2>3 DEF CreateFn, NotStarted
<1>8. HoldsFn' /\ OnePlace'
  BY <1>1, <1>5 DEF CreateFn, NotStarted, HoldsFn, OnePlace
<1>. QED
  BY <1>6, <1>7, <1>8 DEF PoolInv

LEMMA AcquireStep ==
  ASSUME PoolInv, NEW i \in Inputs, Acquire(i)
  PROVE  PoolInv'
<1> DEFINE f == Head(fnChan)
<1>1. TypeOK /\ NotStarted /\ HoldsFn /\ OnePlace
  BY DEF PoolInv
<1>2. /\ f \in Fns /\ f \in Range(fnChan) /\ fnChan' \in Seq(Fns)
      /\ Range(fnChan) = Range(fnChan') \cup {f}
      /\ IsInjective(fnChan') /\ f \notin Range(fnChan')
  BY <1>1, TakeFn DEF Acquire, TypeOK, OnePlace
<1>3. held' = [held EXCEPT ![i] = f] /\ pc' = [pc EXCEPT ![i] = "invoke"]
  BY DEF Acquire, Goto
<1> HIDE DEF f
<1>4. TypeOK'
  BY <1>1, <1>2, <1>3 DEF Acquire, TypeOK, Locations
<1>5. NotStarted'
  BY <1>1 DEF Acquire, NotStarted
<1>6. HoldsFn'
  BY <1>1, <1>2, <1>3, FnsType DEF HoldsFn, TypeOK
<1>7. OnePlace'
  BY <1>1, <1>2, <1>3 DEF OnePlace, TypeOK
<1>. QED
  BY <1>4, <1>5, <1>6, <1>7 DEF PoolInv

LEMMA PutBackStep ==
  ASSUME PoolInv, NEW i \in Inputs, PutBack(i)
  PROVE  PoolInv'
<1> DEFINE f == held[i]
<1>1. TypeOK /\ NotStarted /\ HoldsFn /\ OnePlace
  BY DEF PoolInv
<1>2. f \in Fns /\ f # None /\ f \notin Range(fnChan) /\ fnChan' = Append(fnChan, f)
  BY <1>1 DEF PutBack, TypeOK, HoldsFn, OnePlace
<1>3. held' = [held EXCEPT ![i] = None] /\ pc' = [pc EXCEPT ![i] = "done"]
  BY DEF PutBack, Goto
<1>4. \A j \in Inputs \ {i} : held[j] # f
  BY <1>1, <1>2 DEF OnePlace
<1> HIDE DEF f
<1>5. /\ fnChan' \in Seq(Fns) /\ IsInjective(fnChan')
      /\ Range(fnChan') = Range(fnChan) \cup {f}
  BY <1>1, <1>2, AppendFn DEF TypeOK, OnePlace
<1>6. TypeOK'
  BY <1>1, <1>3, <1>5 DEF PutBack, TypeOK, Locations
<1>7. NotStarted'
  BY <1>1 DEF PutBack, NotStarted
<1>8. HoldsFn'
  BY <1>1, <1>3 DEF HoldsFn, TypeOK
<1>9. OnePlace'
  BY <1>1, <1>3, <1>4, <1>5 DEF OnePlace, TypeOK
<1>. QED
  BY <1>6, <1>7, <1>8, <1>9 DEF PoolInv

LEMMA PoolStep == PoolInv /\ [Next]_vars => PoolInv'
<1> SUFFICES ASSUME PoolInv, [Next]_vars PROVE PoolInv'
  OBVIOUS
<1> USE DEF PoolInv, TypeOK, NotStarted, HoldsFn, OnePlace, Locations, Results, Goto, Outcome
<1>1. CASE UNCHANGED vars
  BY <1>1 DEF vars
<1>2. CASE CreateFn
  BY <1>2, CreateFnStep
<1>3. CASE CreateFnFails
  BY <1>3 DEF CreateFnFails
<1>4. ASSUME NEW i \in Inputs, Invoke(i)
      PROVE  PoolInv'
  <2>1. CASE Call(i)
    BY <2>1 DEF Call
  <2>2. CASE Acquire(i)
    BY <2>2, AcquireStep
  <2>3. CASE AvailabilityTimeout(i)
    BY <2>3 DEF AvailabilityTimeout
  <2>4. CASE FnReturns(i)
    BY <2>4 DEF FnReturns
  <2>5. CASE FnPanics(i)
    BY <2>5 DEF FnPanics
  <2>6. CASE PutBack(i)
    BY <2>6, PutBackStep
  <2>. QED
    BY <1>4, <2>1, <2>2, <2>3, <2>4, <2>5, <2>6 DEF Invoke
<1>. QED
  BY <1>1, <1>2, <1>3, <1>4 DEF Next, Configure

LEMMA PoolInvariant == Spec => []PoolInv
  BY PoolInit, PoolStep, PTL DEF Spec

-----------------------------------------------------------------------------
(* What follows.                                                           *)

\* The variables keep their types.
THEOREM Typing == Spec => []TypeOK
<1>1. PoolInv => TypeOK
  BY DEF PoolInv
<1>. QED
  BY PoolInvariant, <1>1, PTL

\* For any concurrency and any number of callers: no Fn is used by two Invokes,
\* or used and free.
THEOREM Exclusive == Spec => []ExclusiveUse
<1>1. PoolInv => ExclusiveUse
  BY FnsType DEF PoolInv, OnePlace, ExclusiveUse, Users
<1>. QED
  BY PoolInvariant, <1>1, PTL

\* The send that puts an Fn back always finds room in the channel.
THEOREM PutBackHasRoom == Spec => []PutBackNeverBlocks
<1>1. PoolInv => PutBackNeverBlocks
  <2> SUFFICES ASSUME PoolInv, NEW i \in Inputs, pc[i] = "return"
               PROVE  Len(fnChan) < Capacity
    BY DEF PutBackNeverBlocks, PoolInv, OnePlace
  <2>1. held[i] \in Fns /\ held[i] \notin Range(fnChan)
    BY DEF PoolInv, TypeOK, HoldsFn, OnePlace
  <2>. QED
    BY <2>1, RoomFor DEF PoolInv, TypeOK, OnePlace
<1>. QED
  BY PoolInvariant, <1>1, PTL

\* An Invoke that has not returned has not panicked.
PanicIsLast ==
  \A i \in Inputs : pc[i] # "done" => result[i] # "panic"

LEMMA PanicIsLastStep ==
  ASSUME TypeOK, PanicIsLast, [Next]_vars
  PROVE  PanicIsLast'
BY DEF TypeOK, PanicIsLast, Next, vars, Configure, CreateFn, CreateFnFails, Invoke,
       Call, Acquire, AvailabilityTimeout, FnReturns, FnPanics, PutBack, Goto, Outcome

LEMMA FnsKeptStep ==
  ASSUME PoolInv, PanicIsLast, AllFnsKept, [Next]_vars,
         \A i \in Inputs : result'[i] # "panic"
  PROVE  AllFnsKept'
<1>1. TypeOK /\ NotStarted /\ HoldsFn /\ OnePlace
  BY DEF PoolInv
<1>2. CASE UNCHANGED vars
  BY <1>2 DEF vars, AllFnsKept, Users
<1>3. CASE CreateFn
  <2> SUFFICES ASSUME config' = "done", NEW f \in Fns
               PROVE  f \in Range(fnChan')
    BY DEF AllFnsKept
  <2>1. Len(fnChan) + 1 = Capacity /\ fnChan \in Seq(Fns) /\ Len(fnChan) + 1 \in Fns
    BY <1>1, <1>3, CapacityType DEF CreateFn, TypeOK, Fns
  <2>2. Range(fnChan') = Range(fnChan) \cup {Len(fnChan) + 1}
    BY <1>3, <2>1, AppendFn DEF CreateFn
  <2>3. CASE f = Capacity
    BY <2>1, <2>2, <2>3
  <2>4. CASE f # Capacity
    <3>1. f \in 1 .. Len(fnChan)
      BY <2>1, <2>4, CapacityType DEF Fns
    <3>2. fnChan[f] = f /\ f \in DOMAIN fnChan
      BY <1>1, <1>3, <2>1, <3>1 DEF CreateFn, NotStarted
    <3>. QED
      BY <2>2, <3>2 DEF Range
  <2>. QED
    BY <2>3, <2>4
<1>4. CASE CreateFnFails
  BY <1>4 DEF CreateFnFails, AllFnsKept
<1>5. ASSUME NEW i \in Inputs, Invoke(i)
      PROVE  AllFnsKept'
  <2>0. \A j \in Inputs : result[j] # "panic"
    <3>1. \A j \in Inputs \ {i} : result[j] = result'[j]
      BY <1>1, <1>5 DEF TypeOK, Invoke, Call, Acquire, AvailabilityTimeout, FnReturns,
                        FnPanics, PutBack, Outcome
    <3>2. pc[i] # "done"
      BY <1>5 DEF Invoke, Call, Acquire, AvailabilityTimeout, FnReturns, FnPanics, PutBack
    <3>. QED
      BY <3>1, <3>2 DEF PanicIsLast
  <2> USE <2>0
  <2>1. CASE Call(i)
    BY <2>1 DEF Call, AllFnsKept, Users
  <2>2. CASE Acquire(i)
    <3>1. /\ Range(fnChan) = Range(fnChan') \cup {Head(fnChan)}
          /\ held' = [held EXCEPT ![i] = Head(fnChan)] /\ config' = config
      BY <1>1, <2>2, TakeFn DEF Acquire, TypeOK
    <3>2. held[i] = None
      BY <1>1, <2>2 DEF Acquire, HoldsFn
    <3>3. ASSUME NEW f \in Fns, Users(f) # {}
          PROVE  Users(f)' # {}
      BY <1>1, <3>1, <3>2, <3>3, FnsType DEF Users, TypeOK
    <3>4. ASSUME NEW f \in Fns, f = Head(fnChan)
          PROVE  Users(f)' # {}
      BY <1>1, <3>1, <3>4 DEF Users, TypeOK
    <3>. QED
      BY <3>1, <3>3, <3>4 DEF AllFnsKept
  <2>3. CASE AvailabilityTimeout(i)
    BY <2>3 DEF AvailabilityTimeout, AllFnsKept, Users
  <2>4. CASE FnReturns(i)
    BY <2>4 DEF FnReturns, AllFnsKept, Users
  <2>5. CASE FnPanics(i)
    <3>1. result'[i] = "panic"
      BY <1>1, <2>5 DEF FnPanics, Outcome, TypeOK
    <3>. QED
      BY <3>1
  <2>6. CASE PutBack(i)
    <3>1. held[i] \in Fns /\ fnChan' = Append(fnChan, held[i])
      BY <1>1, <2>6 DEF PutBack, TypeOK, HoldsFn
    <3>2. Range(fnChan') = Range(fnChan) \cup {held[i]}
      BY <1>1, <3>1, AppendFn DEF TypeOK
    <3>3. ASSUME NEW f \in Fns, f # held[i], Users(f) # {}
          PROVE  Users(f)' # {}
      BY <1>1, <2>6, <3>3 DEF PutBack, Users, TypeOK
    <3>. QED
      BY <2>6, <3>2, <3>3 DEF PutBack, AllFnsKept
  <2>. QED
    BY <1>5, <2>1, <2>2, <2>3, <2>4, <2>5, <2>6 DEF Invoke
<1>. QED
  BY <1>2, <1>3, <1>4, <1>5 DEF Next, Configure

\* Until an Fn panics the pool keeps all its Fns, after errors and timeouts too.
THEOREM FnsAreKept == Spec => []AllFnsKept
<1> DEFINE Inv == PanicIsLast /\ AllFnsKept
<1>1. Init => Inv
  BY DEF Init, PanicIsLast, AllFnsKept
<1>2. PoolInv /\ Inv /\ [Next]_vars => Inv'
  <2> SUFFICES ASSUME PoolInv, Inv, [Next]_vars PROVE Inv'
    OBVIOUS
  <2>1. PanicIsLast'
    BY PanicIsLastStep DEF PoolInv
  <2>2. CASE \A i \in Inputs : result'[i] # "panic"
    BY <2>1, <2>2, FnsKeptStep
  <2>3. CASE ~(\A i \in Inputs : result'[i] # "panic")
    BY <2>1, <2>3 DEF AllFnsKept
  <2>. QED
    BY <2>2, <2>3
<1>. QED
  BY PoolInvariant, <1>1, <1>2, PTL DEF Spec

-----------------------------------------------------------------------------
(* The pool implements FnContract.                                         *)

LEMMA ContractStep ==
  ASSUME TypeOK, [Next]_vars
  PROVE  [Contract!Next]_contractStatus
<1> USE DEF TypeOK, Locations, Results
<1>1. ASSUME UNCHANGED <<pc, result>>
      PROVE  UNCHANGED contractStatus
  BY <1>1 DEF contractStatus, ContractStatus
<1>2. ASSUME NEW i \in Inputs, NEW s,
             \A j \in Inputs \ {i} : pc'[j] = pc[j] /\ result'[j] = result[j],
             ContractStatus(i)' = s
      PROVE  contractStatus' = [contractStatus EXCEPT ![i] = s]
  <2>1. \A j \in Inputs \ {i} : ContractStatus(j)' = ContractStatus(j)
    BY <1>2 DEF ContractStatus
  <2>. QED
    BY <1>2, <2>1 DEF contractStatus
<1>3. ASSUME NEW i \in Inputs, Call(i)
      PROVE  Contract!Call(i)
  <2>1. ContractStatus(i) = "idle" /\ ContractStatus(i)' = "running"
    BY <1>3 DEF Call, Goto, ContractStatus
  <2>2. \A j \in Inputs \ {i} : pc'[j] = pc[j] /\ result'[j] = result[j]
    BY <1>3 DEF Call, Goto
  <2>. QED
    BY <1>2, <2>1, <2>2 DEF Contract!Call, contractStatus
<1>4. ASSUME NEW i \in Inputs, AvailabilityTimeout(i) \/ FnPanics(i)
      PROVE  Contract!Fail(i)
  <2>1. ContractStatus(i) = "running" /\ ContractStatus(i)' = "failed"
    BY <1>4 DEF AvailabilityTimeout, FnPanics, Goto, Outcome, ContractStatus
  <2>2. \A j \in Inputs \ {i} : pc'[j] = pc[j] /\ result'[j] = result[j]
    BY <1>4 DEF AvailabilityTimeout, FnPanics, Goto, Outcome
  <2>. QED
    BY <1>2, <2>1, <2>2 DEF Contract!Fail, contractStatus
<1>5. ASSUME NEW i \in Inputs, PutBack(i)
      PROVE  Contract!Reply(i) \/ Contract!Fail(i)
  <2>1. /\ ContractStatus(i) = "running"
        /\ ContractStatus(i)' \in {"replied", "failed"}
    BY <1>5 DEF PutBack, Goto, ContractStatus
  <2>2. \A j \in Inputs \ {i} : pc'[j] = pc[j] /\ result'[j] = result[j]
    BY <1>5 DEF PutBack, Goto
  <2>. QED
    BY <1>2, <2>1, <2>2 DEF Contract!Reply, Contract!Fail, contractStatus
<1>6. ASSUME NEW i \in Inputs, Acquire(i) \/ FnReturns(i)
      PROVE  UNCHANGED contractStatus
  <2>1. ContractStatus(i) = "running" /\ ContractStatus(i)' = "running"
    BY <1>6 DEF Acquire, FnReturns, Goto, Outcome, ContractStatus
  <2>2. \A j \in Inputs \ {i} : pc'[j] = pc[j] /\ result'[j] = result[j]
    BY <1>6 DEF Acquire, FnReturns, Goto, Outcome
  <2>. QED
    BY <1>2, <2>1, <2>2 DEF contractStatus
<1>7. CASE UNCHANGED vars \/ Configure
  BY <1>1, <1>7 DEF vars, Configure, CreateFn, CreateFnFails
<1>. QED
  BY <1>3, <1>4, <1>5, <1>6, <1>7 DEF Next, Invoke, Contract!Next

\* A pool is an Fn, whatever its Fns do: an Invoke that has begun is answered
\* once, by a result or by an error.
THEOREM Refinement == Spec => ImplementsContract
<1>1. Init => Contract!Init
  BY DEF Init, Contract!Init, contractStatus, ContractStatus
<1>2. TypeOK /\ [Next]_vars => [Contract!Next]_contractStatus
  BY ContractStep
<1>. QED
  BY Typing, <1>1, <1>2, PTL DEF Spec, ImplementsContract, Contract!Spec

-----------------------------------------------------------------------------
(* A pool of services.  C is the service with what CliServiceProofs shows   *)
(* for Invokes one after the other.                                        *)

C == INSTANCE CliServiceProofs WITH Serial <- TRUE, pc <- at, result <- answer

\* An Invoke is in the service only while it uses the Fn, and was there only if
\* it has used it.
InService ==
  \A i \in Inputs :
    /\ at[i] # "new" => Uses(i) \/ pc[i] \in {"return", "done"}
    /\ at[i] \notin {"new", "done"} => Uses(i)

\* What the pool returns for the service is what the service has returned.
Passed ==
  \A i \in Inputs :
    /\ pc[i] \in {"new", "wait", "invoke"} => result[i] = "none"
    /\ at[i] = "new" => answer[i].kind = "none"
    /\ result[i] = "output" => answer[i].kind \in {"none", "reply"}

PooledInv == PoolInv /\ C!TypeOK /\ InService /\ Passed

\* A step of an Invoke inside the service, of its child or of a goroutine.
Inside(i) ==
  \/ C!StartFails(i) \/ C!Spawn(i) \/ C!SetStdin(i) \/ C!SetAlive(i)
  \/ C!Submit(i) \/ C!Await(i) \/ C!ContextDone(i) \/ C!Kill(i)
  \/ C!ChildReplies(i) \/ C!ChildEnds(i) \/ C!Goroutines(i)

LEMMA InvokeServiceIsInside ==
  ASSUME NEW i \in Inputs, InvokeService(i)
  PROVE  Inside(i) /\ UNCHANGED poolVars
  BY DEF InvokeService, Inside, Service!StartFails, Service!Spawn, Service!SetStdin,
     Service!SetAlive, Service!Submit, Service!Await, Service!ContextDone,
     Service!Kill, Service!ChildReplies, Service!ChildEnds, Service!Goroutines,
     Service!Write, Service!WriteFails, Service!ReceiveOutput, Service!ReceiveError,
     Service!KillMark, Service!KillSignal, Service!KillFails, Service!Scan,
     Service!Reap, Service!SendError, Service!Goto, Service!Return, Service!Result,
     Service!Prefix, Service!shared, Service!channels, Service!children,
     C!StartFails, C!Spawn, C!SetStdin, C!SetAlive, C!Submit, C!Await,
     C!ContextDone, C!Kill, C!ChildReplies, C!ChildEnds, C!Goroutines, C!Write,
     C!WriteFails, C!ReceiveOutput, C!ReceiveError, C!KillMark, C!KillSignal,
     C!KillFails, C!Scan, C!Reap, C!SendError, C!Goto, C!Return, C!Result, C!Prefix,
     C!shared, C!channels, C!children

LEMMA CallServiceBegins ==
  ASSUME PoolInv, InService, NEW i \in Inputs, CallService(i)
  PROVE  C!Begin(i) /\ UNCHANGED poolVars
<1>1. \A j \in Inputs : ~C!Active(j)
  <2> SUFFICES ASSUME NEW j \in Inputs, at[j] \notin {"new", "done"}
               PROVE  FALSE
    BY DEF C!Active
  <2>1. Uses(i) /\ Uses(j) /\ Observed # None /\ at[i] = "new"
    BY PooledAssumption, FnsType DEF CallService, InService, Service!Begin
  <2>. QED
    BY <2>1 DEF Uses, PoolInv, OnePlace
<1>. QED
  BY <1>1 DEF CallService, Service!Begin, Service!Goto, Service!shared,
     Service!channels, Service!children, C!Begin, C!Goto, C!shared, C!channels,
     C!children

\* Where an Invoke is, and what it returns, are its own business.
LEMMA InsideMoves ==
  ASSUME C!TypeOK, NEW i \in Inputs, Inside(i)
  PROVE  /\ \A j \in Inputs \ {i} : at'[j] = at[j] /\ answer'[j] = answer[j]
         /\ \/ UNCHANGED <<at, answer>>
            \/ at[i] \notin {"new", "done"} /\ at'[i] # "new"
<1> USE DEF C!Goto, C!Return
<1>1. CASE C!StartFails(i)
  BY <1>1 DEF C!StartFails, C!TypeOK
<1>2. CASE C!Spawn(i) \/ C!SetStdin(i) \/ C!SetAlive(i)
  BY <1>2 DEF C!Spawn, C!SetStdin, C!SetAlive, C!TypeOK
<1>3. CASE C!Submit(i)
  BY <1>3 DEF C!Submit, C!Write, C!WriteFails, C!TypeOK
<1>4. CASE C!Await(i)
  BY <1>4 DEF C!Await, C!ReceiveOutput, C!ReceiveError, C!TypeOK
<1>5. CASE C!ContextDone(i)
  BY <1>5 DEF C!ContextDone, C!TypeOK
<1>6. CASE C!Kill(i)
  BY <1>6 DEF C!Kill, C!KillMark, C!KillSignal, C!KillFails, C!TypeOK
<1>7. CASE C!ChildReplies(i) \/ C!ChildEnds(i) \/ C!Goroutines(i)
  BY <1>7 DEF C!ChildReplies, C!ChildEnds, C!Goroutines, C!Scan, C!Reap, C!SendError
<1>. QED
  BY <1>1, <1>2, <1>3, <1>4, <1>5, <1>6, <1>7 DEF Inside

\* Each step of the composition is a step of the pool or leaves it alone ...
LEMMA StepOfPool == [PooledNext]_pooledVars => [Next]_vars
  BY DEF PooledNext, pooledVars, poolVars, InvokePool, ServiceReturns, CallService,
     InvokeService, Next, Invoke, vars

\* ... and a step of the service, called when nobody else is in it, or leaves it
\* alone.
LEMMA StepOfService ==
  PoolInv /\ InService /\ [PooledNext]_pooledVars => [C!Next]_(C!vars)
<1> SUFFICES ASSUME PoolInv, InService, [PooledNext]_pooledVars
             PROVE  [C!Next]_(C!vars)
  OBVIOUS
<1>1. CASE UNCHANGED serviceVars
  BY <1>1 DEF serviceVars, C!vars
<1>2. ASSUME NEW i \in Inputs, CallService(i)
      PROVE  C!Next
  BY <1>2, CallServiceBegins DEF C!Next, C!Start
<1>3. ASSUME NEW i \in Inputs, InvokeService(i)
      PROVE  C!Next
  BY <1>3, InvokeServiceIsInside DEF Inside, C!Next, C!Start
<1>. QED
  BY <1>1, <1>2, <1>3 DEF PooledNext, pooledVars, InvokePool, ServiceReturns

LEMMA ServiceAssumed ==
  /\ None \notin Inputs
  /\ TRUE \in BOOLEAN
  /\ Faults \subseteq C!FaultKinds
  BY PooledAssumption DEF C!FaultKinds, Service!FaultKinds

LEMMA ServiceTyping ==
  /\ C!Init => C!TypeOK
  /\ C!TypeOK /\ [C!Next]_(C!vars) => C!TypeOK'
  BY ServiceAssumed, C!TypingInit, C!TypingStep

LEMMA PooledInitially ==
  PooledInit => PooledInv /\ C!Init
<1> SUFFICES ASSUME PooledInit PROVE PooledInv /\ C!Init
  OBVIOUS
<1>1. C!Init
  BY DEF PooledInit, Service!Init, Service!Result, C!Init, C!Result
<1>2. PoolInv /\ C!TypeOK
  BY <1>1, PoolInit, ServiceTyping DEF PooledInit
<1>3. InService /\ Passed
  BY <1>1 DEF PooledInit, Init, C!Init, C!Result, InService, Passed
<1>. QED
  BY <1>1, <1>2, <1>3 DEF PooledInv

LEMMA PooledStep == PooledInv /\ [PooledNext]_pooledVars => PooledInv'
<1> SUFFICES ASSUME PooledInv, [PooledNext]_pooledVars PROVE PooledInv'
  OBVIOUS
<1>1. PoolInv /\ C!TypeOK /\ InService /\ Passed
  BY DEF PooledInv
<1>2. PoolInv' /\ C!TypeOK'
  BY <1>1, StepOfPool, PoolStep, StepOfService, ServiceTyping
<1>3. TypeOK
  BY <1>1 DEF PoolInv
<1> USE DEF InService, Passed, Uses
<1>4. CASE UNCHANGED pooledVars \/ (Configure /\ UNCHANGED serviceVars)
  BY <1>1, <1>2, <1>4 DEF PooledInv, pooledVars, poolVars, serviceVars, Configure,
     CreateFn, CreateFnFails
<1>5. ASSUME NEW i \in Inputs, InvokePool(i) \/ ServiceReturns(i)
      PROVE  InService' /\ Passed'
  <2>0. at' = at /\ answer' = answer
    BY <1>5 DEF InvokePool, ServiceReturns, serviceVars
  <2>1. CASE Call(i) \/ Acquire(i) \/ AvailabilityTimeout(i) \/ PutBack(i)
    BY <1>1, <1>3, <2>0, <2>1 DEF TypeOK, Call, Acquire, AvailabilityTimeout,
       PutBack, Goto, Outcome
  <2>2. CASE (FnReturns(i) \/ FnPanics(i)) /\ ~Uses(i)
    <3>1. pc[i] = "invoke"
      BY <2>2 DEF FnReturns, FnPanics
    <3>2. at[i] = "new"
      BY <1>1, <2>2, <3>1
    <3>. QED
      BY <1>1, <1>3, <2>0, <2>2, <3>1, <3>2
         DEF TypeOK, FnReturns, FnPanics, Goto, Outcome
  <2>3. CASE ServiceReturns(i)
    BY <1>1, <1>3, <2>0, <2>3 DEF TypeOK, ServiceReturns, FnReturns, Goto, Outcome
  <2>. QED
    BY <1>5, <2>1, <2>2, <2>3 DEF InvokePool
<1>6. ASSUME NEW i \in Inputs, CallService(i)
      PROVE  InService' /\ Passed'
  BY <1>1, <1>6, CallServiceBegins DEF CallService, poolVars, C!Begin, C!Goto,
     C!TypeOK
<1>7. ASSUME NEW i \in Inputs, InvokeService(i)
      PROVE  InService' /\ Passed'
  <2>1. Inside(i) /\ UNCHANGED poolVars
    BY <1>7, InvokeServiceIsInside
  <2>2. CASE UNCHANGED <<at, answer>>
    BY <1>1, <2>1, <2>2 DEF poolVars
  <2>3. CASE at[i] \notin {"new", "done"} /\ at'[i] # "new"
    BY <1>1, <2>1, <2>3, InsideMoves DEF poolVars
  <2>. QED
    BY <1>1, <2>1, <2>2, <2>3, InsideMoves
<1>. QED
  BY <1>2, <1>4, <1>5, <1>6, <1>7 DEF PooledInv, PooledNext

LEMMA PooledInvariant == PooledSpec => []PooledInv
  BY PooledInitially, PooledStep, PTL DEF PooledSpec

\* A pool of services is a pool: what is shown of Pool holds for it.
THEOREM PooledIsPool == PooledSpec => Spec
  BY StepOfPool, PTL DEF PooledSpec, PooledInit, Spec

LEMMA ServiceSpec == PooledSpec => C!Spec
<1>1. PooledInv /\ [PooledNext]_pooledVars => [C!Next]_(C!vars)
  BY StepOfService DEF PooledInv
<1>. QED
  BY <1>1, PooledInitially, PooledInvariant, PTL DEF PooledSpec, C!Spec

\* The pool discharges what CliServiceProofs assumes of the caller of a service:
\* however Invokes of the pool overlap, those of one of its services do not.
THEOREM InvokesAreApart == PooledSpec => KeepsInvokesApart
<1>1. C!Init => Apart!Init
  BY DEF C!Init, C!Result, Apart!Init, Apart!Result
<1>2. [C!Next]_(C!vars) => [Apart!Next]_(Apart!vars)
  <2>1. UNCHANGED C!vars => UNCHANGED Apart!vars
    BY DEF C!vars, Apart!vars
  <2>2. C!Next => Apart!Next
    BY DEF C!Next, C!Start, C!Begin, C!Active,
       C!StartFails, C!Spawn, C!SetStdin, C!SetAlive, C!Submit, C!Await,
       C!ContextDone, C!Kill, C!ChildReplies, C!ChildEnds, C!Goroutines, C!Write,
       C!WriteFails, C!ReceiveOutput, C!ReceiveError, C!KillMark, C!KillSignal,
       C!KillFails, C!Scan, C!Reap, C!SendError, C!Goto, C!Return, C!Result,
       C!Prefix, C!shared, C!channels, C!children,
       Apart!Next, Apart!Start, Apart!Begin, Apart!Active,
       Apart!StartFails, Apart!Spawn, Apart!SetStdin, Apart!SetAlive, Apart!Submit,
       Apart!Await, Apart!ContextDone, Apart!Kill, Apart!ChildReplies,
       Apart!ChildEnds, Apart!Goroutines, Apart!Write, Apart!WriteFails,
       Apart!ReceiveOutput, Apart!ReceiveError, Apart!KillMark, Apart!KillSignal,
       Apart!KillFails, Apart!Scan, Apart!Reap, Apart!SendError, Apart!Goto,
       Apart!Return, Apart!Result, Apart!Prefix, Apart!shared, Apart!channels,
       Apart!children
  <2>. QED
    BY <2>1, <2>2
<1>. QED
  BY <1>1, <1>2, ServiceSpec, PTL DEF C!Spec, Apart!Spec, KeepsInvokesApart

LEMMA OwnAnswers == PooledSpec => []C!OwnReplyUntilFailure
<1>1. C!Spec => []C!OwnReplyUntilFailure
  BY ServiceAssumed, C!RepliesAreOwn
<1>. QED
  BY <1>1, ServiceSpec, PTL

\* What CliService promises for Invokes one after the other it keeps in a pool: a
\* failed Invoke leaves its child dead, one that waits has something to wait for
\* and, until one has failed, there is one child, which has one input at a time
\* and whose answers reach their own callers.
THEOREM ServiceInPool ==
  PooledSpec => [](/\ Service!FailureKills
                   /\ Service!OwnReplyUntilFailure
                   /\ Service!OneProcessUntilFailure
                   /\ Service!OneInputAtATimeUntilFailure
                   /\ C!WaiterIsServed)
<1>1. C!Spec => []C!FailureKills
  BY ServiceAssumed, C!FailureKillsChild
<1>2. C!Spec => []C!OneProcessUntilFailure
  BY ServiceAssumed, C!ChildIsAlone
<1>3. C!Spec => []C!OneInputAtATimeUntilFailure
  BY ServiceAssumed, C!InputIsAlone
<1>4. C!Spec => []C!WaiterIsServed
  BY ServiceAssumed, C!NoneWaitsInVain
<1>5. C!FailureKills => Service!FailureKills
  BY DEF C!FailureKills, Service!FailureKills
<1>6. /\ C!OwnReplyUntilFailure => Service!OwnReplyUntilFailure
      /\ C!OneProcessUntilFailure => Service!OneProcessUntilFailure
      /\ C!OneInputAtATimeUntilFailure => Service!OneInputAtATimeUntilFailure
  BY DEF C!Failed, C!OwnReplyUntilFailure, C!OneProcessUntilFailure,
     C!OneInputAtATimeUntilFailure, Service!Failed, Service!OwnReplyUntilFailure,
     Service!OneProcessUntilFailure, Service!OneInputAtATimeUntilFailure
<1>. QED
  BY <1>1, <1>2, <1>3, <1>4, <1>5, <1>6, ServiceSpec, OwnAnswers, PTL

-----------------------------------------------------------------------------
(* A pool of services implements FnContract.                               *)

\* The status of an Invoke without the case that does not occur.
Status(i) ==
  CASE pc[i] = "new" -> "idle"
    [] pc[i] \in {"wait", "invoke", "return"} -> "running"
    [] OTHER -> IF /\ result[i] = "output"
                   /\ answer[i].kind = "none" \/ answer[i].of = i
                THEN "replied" ELSE "failed"

StatusOK == \A i \in Inputs : PooledStatus(i) = Status(i)

LEMMA StatusInPool ==
  ASSUME PooledInv, C!OwnReplyUntilFailure
  PROVE  StatusOK
<1> SUFFICES ASSUME NEW i \in Inputs PROVE PooledStatus(i) = Status(i)
  BY DEF StatusOK
<1> USE DEF Status
<1>1. CASE pc[i] \in {"new", "wait", "invoke", "return"}
  BY <1>1 DEF PooledStatus
<1>2. CASE pc[i] = "done" /\ result[i] # "output"
  BY <1>2 DEF PooledStatus
<1>3. CASE pc[i] = "done" /\ result[i] = "output"
  <2>1. answer[i].kind = "none" \/ answer[i].kind = "reply"
    BY <1>3 DEF PooledInv, Passed
  <2>2. answer[i].kind = "reply" /\ answer[i].of # i => Service!Failed
    BY DEF C!OwnReplyUntilFailure, C!Failed, Service!Failed
  <2>. QED
    BY <1>3, <2>1, <2>2 DEF PooledStatus, Service!Own
<1>. QED
  BY <1>1, <1>2, <1>3 DEF PooledInv, PoolInv, TypeOK, Locations

LEMMA PooledContractStep ==
  ASSUME PooledInv, StatusOK, StatusOK', [PooledNext]_pooledVars
  PROVE  [PooledContract!Next]_pooledStatus
<1>0. PoolInv /\ TypeOK /\ C!TypeOK /\ InService /\ Passed
  BY DEF PooledInv, PoolInv
<1>1. ASSUME \A j \in Inputs : Status(j)' = Status(j)
      PROVE  UNCHANGED pooledStatus
  BY <1>1 DEF StatusOK, pooledStatus
<1>2. ASSUME NEW i \in Inputs, NEW s, Status(i)' = s,
             \A j \in Inputs \ {i} : Status(j)' = Status(j)
      PROVE  pooledStatus' = [pooledStatus EXCEPT ![i] = s]
  BY <1>2 DEF StatusOK, pooledStatus
<1>3. ASSUME NEW i \in Inputs, Invoke(i), UNCHANGED serviceVars
      PROVE  [PooledContract!Next]_pooledStatus
  <2>1. \A j \in Inputs \ {i} : Status(j)' = Status(j)
    BY <1>0, <1>3 DEF TypeOK, Invoke, Call, Acquire, AvailabilityTimeout, FnReturns,
       FnPanics, PutBack, Goto, Outcome, serviceVars, Status
  <2>2. CASE Call(i)
    <3>1. Status(i) = "idle" /\ Status(i)' = "running"
      BY <1>0, <2>2 DEF Call, Goto, TypeOK, Status
    <3>. QED
      BY <1>2, <2>1, <3>1
         DEF StatusOK, PooledContract!Next, PooledContract!Call, pooledStatus
  <2>3. CASE Acquire(i) \/ FnReturns(i)
    <3>1. Status(i) = "running" /\ Status(i)' = "running"
      BY <1>0, <2>3 DEF Acquire, FnReturns, Goto, TypeOK, Status
    <3>. QED
      BY <1>1, <2>1, <3>1
  <2>4. CASE AvailabilityTimeout(i) \/ FnPanics(i) \/ PutBack(i)
    <3>1. Status(i) = "running" /\ Status(i)' \in {"replied", "failed"}
      BY <1>0, <2>4
         DEF AvailabilityTimeout, FnPanics, PutBack, Goto, TypeOK, Status
    <3>. QED
      BY <1>2, <2>1, <3>1
         DEF StatusOK, PooledContract!Next, PooledContract!Reply,
             PooledContract!Fail, pooledStatus
  <2>. QED
    BY <1>3, <2>2, <2>3, <2>4 DEF Invoke
<1>4. ASSUME NEW i \in Inputs, InvokeService(i)
      PROVE  UNCHANGED pooledStatus
  <2>1. Inside(i) /\ UNCHANGED poolVars
    BY <1>4, InvokeServiceIsInside
  <2>2. \A j \in Inputs : answer'[j] = answer[j] \/ (j = i /\ pc[i] = "invoke")
    BY <1>0, <2>1, InsideMoves DEF InService, Uses
  <2>. QED
    BY <1>1, <2>1, <2>2 DEF poolVars, Status
<1>5. ASSUME UNCHANGED <<pc, result, answer>>
      PROVE  UNCHANGED pooledStatus
  BY <1>1, <1>5 DEF Status
<1>6. CASE UNCHANGED pooledVars \/ (Configure /\ UNCHANGED serviceVars)
  BY <1>5, <1>6 DEF pooledVars, poolVars, serviceVars, Configure, CreateFn,
     CreateFnFails
<1>7. ASSUME NEW i \in Inputs, CallService(i)
      PROVE  UNCHANGED pooledStatus
  BY <1>0, <1>5, <1>7, CallServiceBegins DEF poolVars, C!Begin
<1>. QED
  BY <1>3, <1>4, <1>6, <1>7
     DEF PooledNext, InvokePool, ServiceReturns, Invoke

\* A pool of services is an Fn for callers that overlap: each gets the answer to
\* its own input, or an error, until an Invoke of the service has failed.
THEOREM PooledRefinement == PooledSpec => ImplementsPooledContract
<1>1. PooledInit => PooledContract!Init
  BY DEF PooledInit, Init, PooledContract!Init, pooledStatus, PooledStatus
<1>2. PooledInv /\ StatusOK /\ StatusOK' /\ [PooledNext]_pooledVars
        => [PooledContract!Next]_pooledStatus
  BY PooledContractStep
<1>3. PooledSpec => []StatusOK
  <2>1. PooledInv /\ C!OwnReplyUntilFailure => StatusOK
    BY StatusInPool
  <2>. QED
    BY <2>1, PooledInvariant, OwnAnswers, PTL
<1>. QED
  BY <1>1, <1>2, <1>3, PooledInvariant, PTL
     DEF PooledSpec, ImplementsPooledContract, PooledContract!Spec
=============================================================================
