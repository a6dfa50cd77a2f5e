-------------------------- MODULE FilterStateProofs --------------------------
(* Ownership of the filters, for every number of threads and identifiers,   *)
(* of calls and of resets.                                                   *)
EXTENDS FilterState, TLAPS

\* What Ownership needs to be inductive: the identifiers issued since the last
\* reset lie below the next one, and stolen ones were issued.
Below ==
  /\ \A h \in Mine : h.id < next_id
  /\ \A i \in stolen : i < next_id
  /\ \A h \in held : h.epoch <= resets
  /\ Mine # {} => initialized

IInv == TypeOK /\ Ownership /\ Below

LEMMA InvInit == Init => IInv
<1> SUFFICES ASSUME Init PROVE IInv
  OBVIOUS
<1> USE DEF Init
<1>1. TypeOK
  <2>1. initialized \in BOOLEAN /\ (initialized <=> next_id # 0) /\ filters = {}
    OBVIOUS
  <2>2. next_id \in 0..MaxId /\ resets \in Nat /\ issued \in Nat
    BY FilterAssumption
  <2>3. calling \in [Threads -> {"idle", "opened", "closed"}] /\ engines \subseteq Threads
    OBVIOUS
  <2> QED BY <2>1, <2>2, <2>3 DEF TypeOK
<1>2. Mine = {} /\ {h.id : h \in Mine} = {}
  BY DEF Mine
<1>3. {t \in Threads : calling[t] = "opened"} = {}
  OBVIOUS
<1>4. Ownership
  BY <1>2, <1>3 DEF Ownership
<1>5. Below
  BY <1>2 DEF Below
<1> QED BY <1>1, <1>4, <1>5 DEF IInv

\* The calls that touch the sessions and the flag, not the filters.
LEMMA SessionStep ==
  ASSUME IInv, NEW t \in Threads, OpenDynamic(t) \/ CloseEngine(t) \/ Initialize(t)
  PROVE  IInv'
<1> USE DEF OpenDynamic, CloseEngine, Initialize, InitializeState, IInv, TypeOK, stateVars, callerVars
<1>1. UNCHANGED <<filters, callerVars>> /\ (initialized => UNCHANGED <<initialized, next_id>>)
  OBVIOUS
<1>2. TypeOK'
  <2>1. /\ initialized' \in BOOLEAN /\ next_id' \in 0..MaxId
        /\ initialized' <=> next_id' # 0
    <3>1. CASE UNCHANGED <<initialized, next_id>>
      BY <3>1
    <3>2. CASE initialized' = TRUE /\ next_id' = 1
      <4>1. 1 \in 0..MaxId /\ 1 # 0
        BY FilterAssumption
      <4> QED BY <3>2, <4>1
    <3> QED BY <3>1, <3>2
  <2>2. calling' \in [Threads -> {"idle", "opened", "closed"}] /\ engines' \subseteq Threads
    OBVIOUS
  <2>3. filters' # {} => initialized'
    OBVIOUS
  <2> QED BY <1>1, <2>1, <2>2, <2>3
<1>3. Mine' = Mine
  BY <1>1 DEF Mine
<1>4. Ownership'
  <2>1. engines' = {u \in Threads : calling'[u] = "opened"}
    BY DEF Ownership
  <2> QED BY <1>1, <1>3, <2>1 DEF Ownership
<1>5. Below'
  <2>1. Mine = {} \/ UNCHANGED <<initialized, next_id>>
    BY <1>1 DEF Below
  <2>2. stolen = {} \/ UNCHANGED <<initialized, next_id>>
    BY <1>1 DEF Below
  <2> QED BY <1>1, <1>3, <2>1, <2>2 DEF Below
<1> QED BY <1>2, <1>4, <1>5

LEMMA RegisterStep == IInv /\ Register => IInv'
<1> SUFFICES ASSUME IInv, Register PROVE IInv'
  OBVIOUS
<1> USE DEF IInv, initVars
<1> DEFINE new == [epoch |-> resets, number |-> issued + 1, id |-> next_id]
<1>1. /\ next_id \in 1..MaxId /\ next_id < MaxId /\ next_id' = next_id + 1
      /\ filters' = filters \cup {next_id} /\ held' = held \cup {new}
      /\ initialized /\ UNCHANGED <<initialized, calling, engines, resets, stolen>>
      /\ issued' = issued + 1
  BY FilterAssumption DEF Register, TypeOK
<1>2. new \in Handle /\ new.epoch = resets /\ new.id = next_id
  BY DEF TypeOK, Handle
<1>3. Mine' = Mine \cup {new}
  BY <1>1, <1>2 DEF Mine
<1> HIDE DEF new
<1>4. TypeOK'
  BY <1>1, <1>2, FilterAssumption DEF TypeOK
<1>5. \A h \in Mine : h.id < next_id /\ h.id \in Nat
  BY DEF Below, Mine, TypeOK, Handle
<1>6. Ownership'
  <2>1. next_id \notin stolen
    BY <1>1, FilterAssumption DEF Below, TypeOK
  <2>2. filters' = {h.id : h \in Mine'} \ stolen'
    BY <1>1, <1>2, <1>3, <2>1 DEF Ownership
  <2>3. \A g, h \in Mine' : g.id = h.id => g = h
    BY <1>1, <1>2, <1>3, <1>5 DEF Ownership
  <2> QED BY <1>1, <2>2, <2>3 DEF Ownership
<1>7. Below'
  <2>1. \A h \in Mine' : h.id < next_id'
    BY <1>1, <1>2, <1>3, <1>5
  <2>2. \A i \in stolen' : i < next_id'
    BY <1>1, FilterAssumption DEF Below, TypeOK
  <2>3. \A h \in held' : h.epoch <= resets'
    BY <1>1, <1>2 DEF Below, TypeOK
  <2> QED BY <1>1, <2>1, <2>2, <2>3 DEF Below
<1> QED BY <1>4, <1>6, <1>7

LEMMA RemoveStep ==
  ASSUME IInv, NEW h \in held, Remove(h)
  PROVE  IInv'
<1> USE DEF IInv, initVars
<1>1. /\ filters' = filters \ {h.id} /\ held' = held \ {h}
      /\ stolen' = IF h.epoch = resets THEN stolen ELSE stolen \cup (filters \cap {h.id})
      /\ UNCHANGED <<initialized, next_id, calling, engines, resets, issued>>
  BY DEF Remove
<1>2. Mine' = Mine \ {h}
  BY <1>1 DEF Mine
<1>3. \A i \in filters : i < next_id
  BY DEF Ownership, Below
<1>4. TypeOK'
  BY <1>1 DEF TypeOK
<1>5. Ownership'
  <2>1. CASE h.epoch = resets
    <3>1. h \in Mine
      BY <2>1 DEF Mine
    <3>2. \A g \in Mine : g.id = h.id => g = h
      BY <3>1 DEF Ownership
    <3>3. {g.id : g \in Mine \ {h}} = {g.id : g \in Mine} \ {h.id}
      BY <3>1, <3>2
    <3>4. stolen' = stolen
      BY <1>1, <2>1
    <3> QED BY <1>1, <1>2, <3>3, <3>4 DEF Ownership
  <2>2. CASE h.epoch # resets
    <3>1. Mine' = Mine
      BY <1>2, <2>2 DEF Mine
    <3>2. stolen' = stolen \cup (filters \cap {h.id})
      BY <1>1, <2>2
    <3> QED BY <1>1, <3>1, <3>2 DEF Ownership
  <2> QED BY <2>1, <2>2
<1>6. Below'
  BY <1>1, <1>2, <1>3 DEF Below
<1> QED BY <1>4, <1>5, <1>6

LEMMA ResetStep == IInv /\ Reset => IInv'
<1> SUFFICES ASSUME IInv, Reset PROVE IInv'
  OBVIOUS
<1> USE DEF IInv, initVars
<1>1. /\ initialized' = FALSE /\ filters' = {} /\ next_id' = 0 /\ resets' = resets + 1
      /\ issued' = 0 /\ stolen' = {} /\ UNCHANGED <<calling, engines, held>>
  BY DEF Reset, ResetState
<1>2. \A h \in held : h.epoch \in Nat /\ h.epoch <= resets
  BY DEF Below, TypeOK, Handle
<1>3. Mine' = {}
  BY <1>1, <1>2 DEF Mine, TypeOK
<1>4. TypeOK'
  <2>1. initialized' \in BOOLEAN /\ (initialized' <=> next_id' # 0)
    BY <1>1
  <2>2. next_id' \in 0..MaxId /\ resets' \in Nat /\ issued' \in Nat
    BY <1>1, FilterAssumption DEF TypeOK
  <2> QED BY <1>1, <2>1, <2>2 DEF TypeOK
<1>5. {h.id : h \in Mine'} = {}
  BY <1>3
<1>6. Ownership'
  BY <1>1, <1>3, <1>5 DEF Ownership
<1>7. Below'
  BY <1>1, <1>2, <1>3 DEF Below, TypeOK
<1> QED BY <1>4, <1>6, <1>7

LEMMA InvStep == IInv /\ [Next]_vars => IInv'
<1>1. IInv /\ UNCHANGED vars => IInv'
  BY DEF IInv, TypeOK, Ownership, Below, Mine, vars, stateVars, initVars, callerVars
<1> QED BY <1>1, SessionStep, RegisterStep, RemoveStep, ResetStep DEF Next

\* The state of WfpState, the sessions and the identifiers held keep their
\* types, and no filter outlives its reset.
THEOREM TypeCorrect == Spec => []TypeOK
<1>1. IInv => TypeOK
  BY DEF IInv
<1> QED BY <1>1, InvInit, InvStep, PTL DEF Spec

\* Every filter belongs to exactly one holder since the last reset, every
\* holder has its filter unless it was removed under an older identifier, and
\* sessions are open in calls in progress only.
THEOREM OwnershipCorrect == Spec => []Ownership
<1>1. IInv => Ownership
  BY DEF IInv
<1> QED BY <1>1, InvInit, InvStep, PTL DEF Spec
==============================================================================
