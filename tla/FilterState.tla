----------------------------- MODULE FilterState -----------------------------
(***************************************************************************)
(* The filters FlyDPI owns: WfpState behind its mutex, the calls of the    *)
(* C ABI that bring it up and down, and the callers that keep the          *)
(* identifiers they were given.  apply_tactic changes nothing, and an      *)
(* init_wfp_filter whose FwpmEngineOpen0 fails returns -20 before it has   *)
(* changed anything.                                                       *)
(***************************************************************************)
EXTENDS Naturals

CONSTANTS
  Threads,     \* the threads that call init_wfp_filter
  MaxId,       \* the largest FilterId, u64::MAX in the code
  MaxRegister, \* bound: registrations between two resets
  MaxReset     \* bound: resets

ASSUME FilterAssumption == MaxId \in Nat \ {0} /\ MaxRegister \in Nat /\ MaxReset \in Nat

VARIABLES
  initialized, filters, next_id, \* WfpState
  calling,  \* where each thread is in init_wfp_filter
  engines,  \* the threads whose dynamic session is open
  resets,   \* history: the number of resets
  issued,   \* history: registrations since the last reset
  held,     \* history: the identifiers callers hold, each with the reset after
            \* which and the registration by which it was issued
  stolen    \* history: the filters removed under an identifier from before a reset

stateVars == <<initialized, filters, next_id>>
initVars  == <<calling, engines>>
callerVars == <<resets, issued, held, stolen>>
vars == <<stateVars, initVars, callerVars>>

Handle == [epoch : Nat, number : Nat, id : Nat]

Init ==
  /\ initialized = FALSE /\ filters = {} /\ next_id = 0
  /\ calling = [t \in Threads |-> "idle"] /\ engines = {}
  /\ resets = 0 /\ issued = 0 /\ held = {} /\ stolen = {}

\* init_wfp_filter opens a dynamic session ...
OpenDynamic(t) ==
  /\ calling[t] = "idle"
  /\ calling' = [calling EXCEPT ![t] = "opened"]
  /\ engines' = engines \cup {t}
  /\ UNCHANGED <<stateVars, callerVars>>

\* ... which only lives as long as the test of its result: it is closed by Drop
\* before the state is locked.
CloseEngine(t) ==
  /\ calling[t] = "opened"
  /\ calling' = [calling EXCEPT ![t] = "closed"]
  /\ engines' = engines \ {t}
  /\ UNCHANGED <<stateVars, callerVars>>

\* Mutant: a second initialisation starts the identifiers again.
InitializeAgain == initialized' = TRUE /\ next_id' = 1 /\ UNCHANGED filters

\* WfpState::initialize is idempotent.
InitializeState ==
  /\ IF initialized THEN UNCHANGED <<initialized, next_id>>
                    ELSE initialized' = TRUE /\ next_id' = 1
  /\ UNCHANGED filters

Initialize(t) ==
  /\ calling[t] = "closed"
  /\ calling' = [calling EXCEPT ![t] = "idle"]
  /\ InitializeState
  /\ UNCHANGED <<engines, callerVars>>

\* Mutant: the identifiers wrap around.
RegisterWrapping ==
  /\ initialized /\ issued < MaxRegister
  /\ next_id' = (next_id + 1) % (MaxId + 1)
  /\ filters' = filters \cup {next_id}
  /\ issued' = issued + 1
  /\ held' = held \cup {[epoch |-> resets, number |-> issued', id |-> next_id]}
  /\ UNCHANGED <<initialized, initVars, resets, stolen>>

\* register_owned_filter.  Not initialised, or no identifier left to follow
\* this one: an error, and nothing changes.
Register ==
  /\ initialized /\ issued < MaxRegister
  /\ next_id < MaxId
  /\ next_id' = next_id + 1
  /\ filters' = filters \cup {next_id}
  /\ issued' = issued + 1
  /\ held' = held \cup {[epoch |-> resets, number |-> issued', id |-> next_id]}
  /\ UNCHANGED <<initialized, initVars, resets, stolen>>

\* remove_owned_filter takes an identifier at its value: it cannot tell one
\* from before a reset.
Remove(h) ==
  /\ h \in held
  /\ filters' = filters \ {h.id}
  /\ held' = held \ {h}
  /\ stolen' = IF h.epoch = resets THEN stolen ELSE stolen \cup (filters \cap {h.id})
  /\ UNCHANGED <<initialized, next_id, initVars, resets, issued>>

\* WfpState::reset.
ResetState == initialized' = FALSE /\ filters' = {} /\ next_id' = 0

\* reset_filters.  Nobody tells the holders of identifiers.
Reset ==
  /\ resets < MaxReset
  /\ ResetState
  /\ resets' = resets + 1 /\ issued' = 0 /\ stolen' = {}
  /\ UNCHANGED <<initVars, held>>

Next ==
  \/ \E t \in Threads : OpenDynamic(t) \/ CloseEngine(t) \/ Initialize(t)
  \/ Register \/ Reset
  \/ \E h \in held : Remove(h)

Spec == Init /\ [][Next]_vars

------------------------------------------------------------------------------
(* Properties                                                                *)

TypeOK ==
  /\ initialized \in BOOLEAN /\ next_id \in 0..MaxId /\ (initialized <=> next_id # 0)
  /\ filters \subseteq 1..MaxId /\ (filters # {} => initialized)
  /\ calling \in [Threads -> {"idle", "opened", "closed"}] /\ engines \subseteq Threads
  /\ resets \in Nat /\ issued \in Nat /\ held \subseteq Handle /\ stolen \subseteq 1..MaxId

\* What FlyDPI owns is what its callers were given since the last reset and
\* have not given back, one filter for each, whatever the order of calls and
\* also when the identifiers run out; the exception is a filter removed under
\* an identifier from before a reset.  Sessions belong to calls in progress.
\* (wfp.rs register_owned_filter, remove_owned_filter, reset; Drop of
\* NativeWfpEngine)
Mine == {h \in held : h.epoch = resets}
Ownership ==
  /\ filters = {h.id : h \in Mine} \ stolen
  /\ \A g, h \in Mine : g.id = h.id => g = h
  /\ engines = {t \in Threads : calling[t] = "opened"}
==============================================================================
