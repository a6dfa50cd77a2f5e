-------------------------- MODULE ProfileStoreProofs --------------------------
(***************************************************************************)
(* Machine-checked facts about ProfileStore that hold for any number of    *)
(* handlers, calls, blocks and crashes, and for any names.                 *)
(***************************************************************************)
EXTENDS ProfileStore, TLAPS

------------------------------------------------------------------------------
(* The inductive invariant                                                   *)

Save == [name : Names \cup {<<>>}, blocks : Nat, old : SUBSET Calls,
         state : {"none", "running", "done", "failed"}]
Types ==
  /\ saves \in [Calls -> Save]
  /\ pc \in [Handlers -> {"idle", "open", "write"}]
  /\ call \in [Handlers -> Calls \cup {0}]

\* A handler at work executes a running call of its own, and what a call found
\* ended when it began stays ended.
Working ==
  /\ \A h \in Handlers : pc[h] # "idle" => call[h] \in Running
  /\ \A h, g \in Handlers : pc[h] # "idle" /\ pc[g] # "idle" /\ h # g => call[h] # call[g]
  /\ \A n \in Started : /\ saves[n].blocks > 0
                        /\ saves[n].old \subseteq Started \ Running

\* The blocks of a call, all of them.
Whole(n) == [i \in 1..saves[n].blocks |-> n]
Holds(n, blocks) == Target(n) \in DOMAIN files /\ files[Target(n)] = blocks

\* A call that nobody disturbs finds its file as it truncated it, and leaves
\* its profile there.
Kept ==
  /\ \A h \in Handlers : pc[h] = "write" /\ LastWord(call[h]) => Holds(call[h], <<>>)
  /\ \A n \in Done : LastWord(n) => Holds(n, Whole(n))

\* The listing has read such a profile, or will.  If it is between the two
\* reads of the file, the first one has returned all of it.
Listing ==
  /\ reading = {} \/ \E f \in unread : reading = {f}
  /\ before \subseteq Done
  /\ listing \/ (before = {} /\ reading = {})
  /\ \A n \in before : LastWord(n) =>
        /\ n \in got \/ Target(n) \in unread
        /\ Target(n) \in reading => text = Whole(n)

IInv == Types /\ Working /\ Kept /\ Listing

------------------------------------------------------------------------------
(* Names and files                                                           *)

\* Two names share a file only if they are the same but for space around them,
\* case, and what is neither letter, digit, hyphen nor underscore.
LEMMA SameFile ==
  ASSUME NEW a, NEW b, FileOf(Sanitize(a)) = FileOf(Sanitize(b))
  PROVE  SameName(a, b)
<1> DEFINE s == TrimSpace(a)
           t == TrimSpace(b)
           fs == FileOf(Sanitize(a))
           ft == FileOf(Sanitize(b))
<1>1. ASSUME NEW n
      PROVE  /\ DOMAIN FileOf(Sanitize(n)) = DOMAIN TrimSpace(n)
             /\ \A i \in DOMAIN TrimSpace(n) : FileOf(Sanitize(n))[i] = Class(TrimSpace(n)[i])
  <2> DEFINE u == TrimSpace(n)
             p == Sanitize(n)
  <2>1. DOMAIN p = DOMAIN u /\ \A i \in DOMAIN u : p[i] = IF u[i] \in Letters THEN u[i] ELSE "_"
    BY DEF Sanitize
  <2>2. /\ DOMAIN FileOf(p) = DOMAIN p
        /\ \A i \in DOMAIN p : FileOf(p)[i] = IF p[i] \in DOMAIN Fold THEN Fold[p[i]] ELSE p[i]
    BY DEF FileOf
  <2>3. "_" \notin DOMAIN Fold /\ "_" \notin Letters
    BY ProfileAssumption DEF Letters
  <2> HIDE DEF u, p
  <2>4. ASSUME NEW i \in DOMAIN u PROVE FileOf(p)[i] = Class(u[i])
    BY <2>1, <2>2, <2>3 DEF Class, Letters
  <2> QED BY <2>1, <2>2, <2>4 DEF u, p
<1>2. DOMAIN s = DOMAIN t /\ \A i \in DOMAIN s : Class(s[i]) = Class(t[i])
  <2>1. fs = ft /\ DOMAIN fs = DOMAIN s /\ DOMAIN ft = DOMAIN t
    BY <1>1
  <2>2. ASSUME NEW i \in DOMAIN s PROVE Class(s[i]) = Class(t[i])
    <3>1. fs[i] = Class(s[i]) /\ ft[i] = Class(t[i])
      BY <1>1, <2>1
    <3> QED BY <2>1, <3>1
  <2> QED BY <2>1, <2>2
<1> QED BY <1>2 DEF SameName

\* What is written over an empty file is all that the file holds.
LEMMA WrittenOverNothing ==
  ASSUME NEW n, NEW w \in Nat
  PROVE  [i \in 1..w |-> n] \o SubSeq(<<>>, w + 1, Len(<<>>)) = [i \in 1..w |-> n]
<1>1. SubSeq(<<>>, w + 1, Len(<<>>)) = <<>>
  OBVIOUS
<1>2. [i \in 1..w |-> n] \in Seq({n})
  OBVIOUS
<1> QED BY <1>1, <1>2

\* A text that was read whole has no rest.
LEMMA NoRest ==
  ASSUME NEW n, NEW w \in Nat
  PROVE  LET t == [i \in 1..w |-> n] IN t \o SubSeq(t, Len(t) + 1, Len(t)) = t
<1> DEFINE t == [i \in 1..w |-> n]
<1>1. t \in Seq({n}) /\ Len(t) = w
  OBVIOUS
<1> HIDE DEF t
<1>2. SubSeq(t, w + 1, w) = <<>>
  BY <1>1
<1>3. t \o <<>> = t
  BY <1>1
<1> QED BY <1>1, <1>2, <1>3 DEF t

\* All the blocks of one call are its profile, and no other's.
LEMMA WholeIsProfile ==
  ASSUME Types, Working, NEW n \in Started
  PROVE  Unmarshal(Whole(n)) = {n} /\ Whole(n) # <<>>
<1>1. ASSUME NEW m \in Started PROVE saves[m].blocks \in Nat /\ 1 \in 1..saves[m].blocks
  BY DEF Types, Save, Working, Started
<1>2. ASSUME NEW m \in Started, Whole(n) = [i \in 1..saves[m].blocks |-> m] PROVE m = n
  BY <1>1, <1>2 DEF Whole
<1>3. Whole(n) # <<>>
  BY <1>1 DEF Whole
<1> QED BY <1>2, <1>3 DEF Unmarshal, Whole

------------------------------------------------------------------------------
(* One step                                                                  *)

\* What Save is called with stays, and a call that began has begun.
Fixed ==
  /\ Started \subseteq Started'
  /\ \A n \in Started : /\ saves'[n].name = saves[n].name
                        /\ saves'[n].blocks = saves[n].blocks
                        /\ saves'[n].old = saves[n].old

\* What a call of End does to the history.
LEMMA Ended ==
  ASSUME Types, NEW h \in Handlers, NEW state \in {"done", "failed"}, End(h, state),
         call[h] \in Calls
  PROVE  /\ saves' \in [Calls -> Save]
         /\ \A n \in Calls : /\ saves'[n].name = saves[n].name /\ saves'[n].blocks = saves[n].blocks
                             /\ saves'[n].old = saves[n].old
                             /\ saves'[n].state = IF n = call[h] THEN state ELSE saves[n].state
<1>1. saves' = [saves EXCEPT ![call[h]].state = state]
  BY DEF End
<1> DEFINE r == [saves[call[h]] EXCEPT !.state = state]
<1>2. /\ r \in Save /\ r.state = state /\ r.name = saves[call[h]].name
      /\ r.blocks = saves[call[h]].blocks /\ r.old = saves[call[h]].old
  <2>1. saves[call[h]] \in Save
    BY DEF Types
  <2> QED BY <2>1 DEF Save
<1>3. saves' = [saves EXCEPT ![call[h]] = r]
  BY <1>1
<1> HIDE DEF r
<1>4. \A n \in Calls : saves'[n] = IF n = call[h] THEN r ELSE saves[n]
  BY <1>3 DEF Types
<1>5. saves' \in [Calls -> Save]
  BY <1>2, <1>3 DEF Types
<1> QED BY <1>2, <1>4, <1>5

\* What BeginSave does.
LEMMA Begun ==
  ASSUME Types, NEW h \in Handlers, BeginSave(h)
  PROVE  \E n \in Calls \ Started :
           /\ saves' \in [Calls -> Save]
           /\ \A m \in Calls \ {n} : saves'[m] = saves[m]
           /\ saves'[n].blocks > 0 /\ saves'[n].old = Started \ Running
           /\ \/ saves'[n].state = "failed" /\ pc' = [pc EXCEPT ![h] = "idle"]
              \/ saves'[n].state = "running" /\ pc' = [pc EXCEPT ![h] = "open"]
           /\ call' = [call EXCEPT ![h] = n]
<1>1. PICK n \in Calls \ Started, name \in Names, blocks \in 1..MaxBlocks, ok \in BOOLEAN :
        LET begins == ok /\ TrimSpace(name) # <<>>
        IN  /\ saves' = [saves EXCEPT ![n] =
                           [name |-> name, blocks |-> blocks, old |-> Started \ Running,
                            state |-> IF begins THEN "running" ELSE "failed"]]
            /\ pc' = [pc EXCEPT ![h] = IF begins THEN "open" ELSE "idle"]
            /\ call' = [call EXCEPT ![h] = n]
  BY DEF BeginSave
<1>2. PICK state \in {"running", "failed"} :
        /\ saves' = [saves EXCEPT ![n] = [name |-> name, blocks |-> blocks,
                                          old |-> Started \ Running, state |-> state]]
        /\ pc' = [pc EXCEPT ![h] = IF state = "running" THEN "open" ELSE "idle"]
  BY <1>1
<1> DEFINE r == [name |-> name, blocks |-> blocks, old |-> Started \ Running, state |-> state]
<1>3. r \in Save /\ r.blocks > 0 /\ r.old = Started \ Running /\ r.state = state
  <2>0. MaxBlocks \in Nat
    BY ONLY ProfileAssumption
  <2>1. blocks \in Nat /\ blocks > 0
    BY ONLY <2>0, blocks \in 1..MaxBlocks
  <2>2. Started \ Running \in SUBSET Calls
    BY DEF Started
  <2> HIDE <1>1, <1>2
  <2> QED BY <2>1, <2>2 DEF Save
<1> HIDE DEF r
<1>4. saves' = [saves EXCEPT ![n] = r]
  BY <1>2 DEF r
<1>5. saves' \in [Calls -> Save] /\ \A m \in Calls : saves'[m] = IF m = n THEN r ELSE saves[m]
  BY <1>3, <1>4 DEF Types
<1>6. call' = [call EXCEPT ![h] = n]
  BY <1>1
<1>7. \/ state = "failed" /\ pc' = [pc EXCEPT ![h] = "idle"]
      \/ state = "running" /\ pc' = [pc EXCEPT ![h] = "open"]
  <2>1. CASE state = "failed"
    BY <1>2, <2>1
  <2>2. CASE state = "running"
    BY <1>2, <2>2
  <2> QED BY <2>1, <2>2
<1> QED BY <1>3, <1>5, <1>6, <1>7

\* What a crash does to the history.
LEMMA Crashed ==
  ASSUME Types, Crash
  PROVE  /\ saves' \in [Calls -> Save]
         /\ \A n \in Calls : /\ saves'[n].name = saves[n].name /\ saves'[n].blocks = saves[n].blocks
                             /\ saves'[n].old = saves[n].old
                             /\ saves'[n].state = IF saves[n].state = "running" THEN "failed"
                                                  ELSE saves[n].state
<1>1. saves' = [n \in Calls |-> IF n \in Running THEN [saves[n] EXCEPT !.state = "failed"] ELSE saves[n]]
  BY DEF Crash
<1>2. \A n \in Calls : n \in Running <=> saves[n].state = "running"
  BY DEF Running
<1>3. saves \in [Calls -> Save]
  BY DEF Types
<1>4. ASSUME NEW n \in Calls
      PROVE  /\ saves'[n] \in Save
             /\ saves'[n].name = saves[n].name /\ saves'[n].blocks = saves[n].blocks
             /\ saves'[n].old = saves[n].old
             /\ saves'[n].state = IF saves[n].state = "running" THEN "failed"
                                  ELSE saves[n].state
  <2>1. saves[n] \in Save
    BY <1>3
  <2>2. CASE saves[n].state = "running"
    <3>1. saves'[n] = [saves[n] EXCEPT !.state = "failed"]
      BY <1>1, <1>2, <2>2
    <3> QED BY ONLY <2>1, <2>2, <3>1 DEF Save
  <2>3. CASE saves[n].state # "running"
    <3>1. saves'[n] = saves[n]
      BY <1>1, <1>2, <2>3
    <3> QED BY ONLY <2>1, <2>3, <3>1
  <2> QED BY <2>2, <2>3
<1>5. saves' = [n \in Calls |-> saves'[n]]
  BY <1>1
<1> QED BY ONLY <1>4, <1>5

\* The steps that are not of Save leave its variables and the directory alone.
Other == ReadDir \/ ReadFile \/ ReadRest \/ ReadFails \/ EndList \/ UNCHANGED vars
LEMMA OthersRead == Other => UNCHANGED <<files, saves, pc, call>>
BY DEF Other, ReadDir, ReadFile, ReadRest, ReadFails, EndList, vars, saveVars

LEMMA Steps ==
  [Next]_vars => \/ \E h \in Handlers : BeginSave(h) \/ OpenFile(h) \/ WriteFile(h)
                 \/ Crash \/ Other
BY DEF Next, Other

\* A handler that opens or writes: its call, and what End does to it.
LEMMA AtWork ==
  ASSUME Types, Working, NEW h \in Handlers, OpenFile(h) \/ WriteFile(h)
  PROVE  call[h] \in Running /\ call[h] \in Started /\ call[h] \in Calls
BY DEF OpenFile, WriteFile, Working, Running, Started

LEMMA Wrote ==
  ASSUME Types, Working, NEW h \in Handlers, WriteFile(h)
  PROVE  \E written \in 0..saves[call[h]].blocks, state \in {"done", "failed"} :
           /\ files' = Put(Target(call[h]), [i \in 1..written |-> call[h]]
                             \o SubSeq(files[Target(call[h])], written + 1, Len(files[Target(call[h])])))
           /\ End(h, state)
           /\ state = "done" => written = saves[call[h]].blocks
BY DEF WriteFile

LEMMA WorkStep == Types /\ Working /\ [Next]_vars => Types' /\ Working' /\ Fixed
<1> SUFFICES ASSUME Types, Working, [Next]_vars PROVE Types' /\ Working' /\ Fixed
  OBVIOUS
<1>1. ASSUME NEW h \in Handlers, BeginSave(h) PROVE Types' /\ Working' /\ Fixed
  <2>1. PICK n \in Calls \ Started :
           /\ saves' \in [Calls -> Save]
           /\ \A m \in Calls \ {n} : saves'[m] = saves[m]
           /\ saves'[n].blocks > 0 /\ saves'[n].old = Started \ Running
           /\ \/ saves'[n].state = "failed" /\ pc' = [pc EXCEPT ![h] = "idle"]
              \/ saves'[n].state = "running" /\ pc' = [pc EXCEPT ![h] = "open"]
           /\ call' = [call EXCEPT ![h] = n]
    BY <1>1, Begun
  <2>2. /\ Started' = Started \cup {n} /\ n \notin Running /\ Running \subseteq Started
        /\ Running' \subseteq Running \cup {n} /\ Running \subseteq Running'
        /\ (saves'[n].state = "running" => n \in Running')
    BY <2>1 DEF Started, Running
  <2>3. Types'
    BY <2>1 DEF Types
  <2>4. Fixed
    BY <2>1, <2>2 DEF Fixed, Started
  <2>5. \A g \in Handlers : pc'[g] # "idle" =>
           \/ g = h /\ call'[g] = n /\ n \in Running'
           \/ g # h /\ pc[g] # "idle" /\ call'[g] = call[g] /\ call[g] \in Running
    BY <2>1, <2>2 DEF Types, Working
  <2>6. \A m \in Started' : saves'[m].blocks > 0 /\ saves'[m].old \subseteq Started' \ Running'
    BY <2>1, <2>2 DEF Working, Started
  <2>7. \A g, k \in Handlers : pc'[g] # "idle" /\ pc'[k] # "idle" /\ g # k => call'[g] # call'[k]
    BY <2>2, <2>5 DEF Working
  <2>8. \A g \in Handlers : pc'[g] # "idle" => call'[g] \in Running'
    BY <2>2, <2>5
  <2> QED BY <2>3, <2>4, <2>6, <2>7, <2>8 DEF Working
<1>2. ASSUME NEW h \in Handlers, OpenFile(h) PROVE Types' /\ Working' /\ Fixed
  <2>1. UNCHANGED <<saves, call>> /\ pc' = [pc EXCEPT ![h] = "write"] /\ pc[h] # "idle"
    BY <1>2 DEF OpenFile
  <2>2. \A g \in Handlers : pc'[g] # "idle" => pc[g] # "idle"
    BY <2>1 DEF Types
  <2>3. Types' /\ Fixed
    BY <2>1 DEF Types, Fixed, Started
  <2>4. Started' = Started /\ Running' = Running
    BY <2>1 DEF Started, Running
  <2> QED BY <2>1, <2>2, <2>3, <2>4 DEF Working
<1>3. ASSUME NEW h \in Handlers, WriteFile(h) PROVE Types' /\ Working' /\ Fixed
  <2>1. call[h] \in Running /\ call[h] \in Calls
    BY <1>3, AtWork
  <2>2. PICK state \in {"done", "failed"} : End(h, state)
    BY <1>3, Wrote
  <2>3. /\ saves' \in [Calls -> Save]
        /\ \A n \in Calls : /\ saves'[n].name = saves[n].name /\ saves'[n].blocks = saves[n].blocks
                            /\ saves'[n].old = saves[n].old
                            /\ saves'[n].state = IF n = call[h] THEN state ELSE saves[n].state
    BY <2>1, <2>2, Ended
  <2>4. pc' = [pc EXCEPT ![h] = "idle"] /\ call' = call
    BY <2>2 DEF End
  <2>5. Types'
    BY <2>3, <2>4 DEF Types
  <2>6. Started' = Started /\ Running' = Running \ {call[h]}
    BY <2>1, <2>3 DEF Started, Running
  <2>7. Fixed
    BY <2>3, <2>6 DEF Fixed, Started
  <2>8. \A g \in Handlers : pc'[g] # "idle" => pc[g] # "idle" /\ g # h
    BY <2>4 DEF Types
  <2>9. pc[h] # "idle"
    BY <1>3 DEF WriteFile
  <2>10. \A g \in Handlers : pc'[g] # "idle" => call'[g] \in Running'
    BY <2>4, <2>6, <2>8, <2>9 DEF Working
  <2>11. \A m \in Started' : saves'[m].blocks > 0 /\ saves'[m].old \subseteq Started' \ Running'
    BY <2>3, <2>6 DEF Working, Started
  <2> QED BY <2>4, <2>5, <2>7, <2>8, <2>10, <2>11 DEF Working
<1>4. CASE Crash
  <2>1. /\ saves' \in [Calls -> Save]
        /\ \A n \in Calls : /\ saves'[n].name = saves[n].name /\ saves'[n].blocks = saves[n].blocks
                            /\ saves'[n].old = saves[n].old
                            /\ saves'[n].state = IF saves[n].state = "running" THEN "failed"
                                                 ELSE saves[n].state
    BY <1>4, Crashed
  <2>2. pc' = [h \in Handlers |-> "idle"] /\ call' = [h \in Handlers |-> 0]
    BY <1>4 DEF Crash
  <2>3. Types'
    BY <2>1, <2>2 DEF Types
  <2>4. Started' = Started /\ Running' = {}
    BY <2>1 DEF Started, Running
  <2>5. Fixed
    BY <2>1, <2>4 DEF Fixed, Started
  <2>6. \A m \in Started' : saves'[m].blocks > 0 /\ saves'[m].old \subseteq Started' \ Running'
    BY <2>1, <2>4 DEF Working, Started
  <2> QED BY <2>2, <2>3, <2>5, <2>6 DEF Working
<1>5. CASE Other
  <2>1. UNCHANGED <<saves, pc, call>>
    BY <1>5, OthersRead
  <2>2. Started' = Started /\ Running' = Running
    BY <2>1 DEF Started, Running
  <2> QED BY <2>1, <2>2 DEF Types, Working, Fixed
<1> QED BY <1>1, <1>2, <1>3, <1>4, <1>5, Steps

\* Nobody who had the last word gets it back, and files keep their names.
LEMMA FixedCalls ==
  ASSUME Types, Fixed, NEW n \in Started
  PROVE  /\ LastWord(n)' => LastWord(n)
         /\ Target(n)' = Target(n)
         /\ Whole(n)' = Whole(n)
<1>1. /\ saves'[n].name = saves[n].name /\ saves'[n].blocks = saves[n].blocks
      /\ saves'[n].old = saves[n].old
  BY DEF Fixed
<1>2. ASSUME LastWord(n)', NEW m \in Started \ {n}, SameName(saves[m].name, saves[n].name)
      PROVE  m \in saves[n].old
  <2>1. m \in Started' /\ saves'[m].name = saves[m].name
    BY DEF Fixed
  <2> QED BY <1>1, <1>2, <2>1 DEF LastWord
<1> QED BY <1>1, <1>2 DEF LastWord, Target, Whole

\* A running call touches no file but its own: not that of another call that
\* has the last word.
LEMMA OwnFile ==
  ASSUME Working, NEW m \in Running, NEW n \in Started, m # n, LastWord(n)
  PROVE  Target(m) # Target(n)
<1> SUFFICES ASSUME Target(m) = Target(n) PROVE FALSE
  OBVIOUS
<1>1. SameName(saves[m].name, saves[n].name)
  BY SameFile DEF Target
<1>2. m \in Started
  BY DEF Running, Started
<1>3. m \in saves[n].old
  BY <1>1, <1>2 DEF LastWord
<1> QED BY <1>3 DEF Working

LEMMA PutKeeps ==
  ASSUME NEW f, NEW blocks, files' = Put(f, blocks)
  PROVE  /\ DOMAIN files \subseteq DOMAIN files' /\ f \in DOMAIN files' /\ files'[f] = blocks
         /\ \A g \in DOMAIN files : g # f => files'[g] = files[g]
BY DEF Put

\* A file that a call with the last word left stays as it is.
LEMMA FileStays ==
  ASSUME Types, Working, [Next]_vars, NEW n \in Started, LastWord(n),
         Target(n) \in DOMAIN files,
         \A h \in Handlers : OpenFile(h) \/ WriteFile(h) => call[h] # n
  PROVE  Target(n) \in DOMAIN files' /\ files'[Target(n)] = files[Target(n)]
<1>1. ASSUME NEW h \in Handlers, OpenFile(h) \/ WriteFile(h)
      PROVE  Target(n) \in DOMAIN files' /\ files'[Target(n)] = files[Target(n)]
  <2>1. PICK b : files' = Put(Target(call[h]), b)
    BY <1>1, Wrote DEF OpenFile
  <2>2. Target(call[h]) # Target(n)
    BY <1>1, AtWork, OwnFile
  <2> QED BY <2>1, <2>2, PutKeeps
<1>2. ASSUME NEW h \in Handlers, BeginSave(h) PROVE UNCHANGED files
  BY <1>2 DEF BeginSave
<1>3. Crash => UNCHANGED files
  BY DEF Crash
<1> QED BY <1>1, <1>2, <1>3, Steps, OthersRead

\* A handler that will write has just opened its file, or does nothing now.
LEMMA Writers ==
  ASSUME Types, [Next]_vars, NEW h \in Handlers, pc'[h] = "write"
  PROVE  /\ call'[h] = call[h]
         /\ OpenFile(h) \/ (pc[h] = "write" /\ ~OpenFile(h) /\ ~WriteFile(h))
<1>1. ASSUME NEW g \in Handlers, OpenFile(g)
      PROVE  call' = call /\ (g # h => pc'[h] = pc[h]) /\ pc'[g] = "write"
  BY <1>1 DEF OpenFile, Types
<1>2. ASSUME NEW g \in Handlers, WriteFile(g)
      PROVE  call' = call /\ (g # h => pc'[h] = pc[h]) /\ pc'[g] = "idle"
  BY <1>2 DEF WriteFile, End, Types
<1>3. ASSUME NEW g \in Handlers, BeginSave(g)
      PROVE  (g # h => pc'[h] = pc[h] /\ call'[h] = call[h]) /\ pc'[g] # "write"
  <2>1. PICK n \in Calls \ Started :
          /\ \/ pc' = [pc EXCEPT ![g] = "idle"]
             \/ pc' = [pc EXCEPT ![g] = "open"]
          /\ call' = [call EXCEPT ![g] = n]
    BY <1>3, Begun
  <2> QED BY <2>1 DEF Types
<1>4. ~Crash
  BY DEF Crash
<1>5. Other => pc' = pc /\ call' = call
  BY OthersRead
<1>6. OpenFile(h) => pc[h] = "open"
  BY DEF OpenFile
<1> QED BY <1>1, <1>2, <1>3, <1>4, <1>5, <1>6, Steps

\* Only the end of a call makes it done, and nothing undoes it.
LEMMA Dones ==
  ASSUME Types, Working, [Next]_vars, NEW n
  PROVE  /\ n \in Done => n \in Done'
         /\ n \in Done' => n \in Done \/ \E h \in Handlers : WriteFile(h) /\ call[h] = n
<1>1. ASSUME NEW h \in Handlers, BeginSave(h) PROVE Done' = Done
  <2>1. PICK m \in Calls \ Started :
          /\ \A k \in Calls \ {m} : saves'[k] = saves[k]
          /\ saves'[m].state \in {"failed", "running"}
    BY <1>1, Begun
  <2> QED BY <2>1 DEF Done, Started
<1>2. ASSUME NEW h \in Handlers, OpenFile(h) PROVE Done' = Done
  BY <1>2 DEF OpenFile, Done
<1>3. ASSUME NEW h \in Handlers, WriteFile(h)
      PROVE  Done \subseteq Done' /\ Done' \subseteq Done \cup {call[h]}
  <2>1. call[h] \in Running /\ call[h] \in Calls
    BY <1>3, AtWork
  <2>2. PICK state \in {"done", "failed"} : End(h, state)
    BY <1>3, Wrote
  <2>3. \A m \in Calls : saves'[m].state = IF m = call[h] THEN state ELSE saves[m].state
    BY <2>1, <2>2, Ended
  <2> QED BY <2>1, <2>3 DEF Done, Running
<1>4. CASE Crash
  <2>1. \A m \in Calls : saves'[m].state = IF saves[m].state = "running" THEN "failed"
                                           ELSE saves[m].state
    BY <1>4, Crashed
  <2> QED BY <2>1 DEF Done
<1>5. CASE Other
  BY <1>5, OthersRead DEF Done
<1> QED BY <1>1, <1>2, <1>3, <1>4, <1>5, Steps

LEMMA Begins == Done \subseteq Started /\ Running \subseteq Started /\ Done \cap Running = {}
BY DEF Done, Started, Running

LEMMA KeptStep == Types /\ Working /\ Fixed /\ Kept /\ [Next]_vars => Kept'
<1> SUFFICES ASSUME Types, Working, Fixed, Kept, [Next]_vars PROVE Kept'
  OBVIOUS
<1>1. ASSUME NEW h \in Handlers, NEW n, pc'[h] = "write", n = call'[h], LastWord(n)'
      PROVE  Target(n)' \in DOMAIN files' /\ files'[Target(n)'] = <<>>
  <2>1. n = call[h]
    BY <1>1, Writers
  <2>2. CASE OpenFile(h)
    <3>1. n \in Started
      BY <2>1, <2>2, AtWork
    <3>2. files' = Put(Target(n), <<>>) /\ Target(n)' = Target(n)
      BY <2>1, <2>2, <3>1, FixedCalls DEF OpenFile
    <3> QED BY <3>2, PutKeeps
  <2>3. CASE pc[h] = "write" /\ ~OpenFile(h) /\ ~WriteFile(h)
    <3>1. n \in Started
      BY <2>1, <2>3, Begins DEF Working
    <3>2. LastWord(n) /\ Target(n)' = Target(n)
      BY <1>1, <3>1, FixedCalls
    <3>3. Target(n) \in DOMAIN files /\ files[Target(n)] = <<>>
      BY <2>1, <2>3, <3>2 DEF Kept, Holds
    <3>4. ASSUME NEW g \in Handlers, OpenFile(g) \/ WriteFile(g) PROVE call[g] # n
      <4>1. pc[g] # "idle" /\ g # h
        BY <2>3, <3>4 DEF OpenFile, WriteFile
      <4> QED BY <2>1, <2>3, <4>1 DEF Working
    <3> QED BY <3>1, <3>2, <3>3, <3>4, FileStays
  <2> QED BY <1>1, <2>2, <2>3, Writers
<1>2. ASSUME NEW n \in Done', LastWord(n)'
      PROVE  Target(n)' \in DOMAIN files' /\ files'[Target(n)'] = Whole(n)'
  <2>1. CASE n \in Done
    <3>1. n \in Started /\ n \notin Running
      BY <2>1, Begins
    <3>2. LastWord(n) /\ Target(n)' = Target(n) /\ Whole(n)' = Whole(n)
      BY <1>2, <3>1, FixedCalls
    <3>3. Target(n) \in DOMAIN files /\ files[Target(n)] = Whole(n)
      BY <2>1, <3>2 DEF Kept, Holds
    <3>4. \A g \in Handlers : OpenFile(g) \/ WriteFile(g) => call[g] # n
      BY <3>1, AtWork
    <3> QED BY <3>1, <3>2, <3>3, <3>4, FileStays
  <2>2. ASSUME NEW h \in Handlers, WriteFile(h), call[h] = n, n \notin Done
        PROVE  Target(n)' \in DOMAIN files' /\ files'[Target(n)'] = Whole(n)'
    <3>1. n \in Running /\ n \in Started /\ n \in Calls /\ saves[n].blocks \in Nat
      BY <2>2, AtWork DEF Types, Save
    <3>2. LastWord(n) /\ Target(n)' = Target(n) /\ Whole(n)' = Whole(n)
      BY <1>2, <3>1, FixedCalls
    <3>3. files[Target(n)] = <<>>
      BY <2>2, <3>2 DEF Kept, Holds, WriteFile
    <3>4. PICK written \in 0..saves[n].blocks, state \in {"done", "failed"} :
             /\ files' = Put(Target(n), [i \in 1..written |-> n]
                               \o SubSeq(files[Target(n)], written + 1, Len(files[Target(n)])))
             /\ End(h, state)
             /\ state = "done" => written = saves[n].blocks
      BY <2>2, Wrote
    <3>5. state = "done"
      <4>1. saves'[n].state = state
        BY <2>2, <3>1, <3>4, Ended
      <4> QED BY <1>2, <4>1 DEF Done
    <3>6. files' = Put(Target(n), [i \in 1..saves[n].blocks |-> n]
                                    \o SubSeq(<<>>, saves[n].blocks + 1, Len(<<>>)))
      BY <3>3, <3>4, <3>5
    <3>7. files' = Put(Target(n), Whole(n))
      BY <3>1, <3>6, WrittenOverNothing DEF Whole
    <3> QED BY <3>2, <3>7, PutKeeps
  <2> QED BY <1>2, <2>1, <2>2, Dones
<1> QED BY <1>1, <1>2 DEF Kept, Holds

LEMMA ListingStep == Types /\ Working /\ Fixed /\ Kept /\ Listing /\ [Next]_vars => Listing'
<1> SUFFICES ASSUME Types, Working, Fixed, Kept, Listing, [Next]_vars PROVE Listing'
  OBVIOUS
<1>1. \A n \in before : /\ n \in Done /\ n \in Started /\ n \in Done'
                        /\ (LastWord(n)' => LastWord(n))
                        /\ Target(n)' = Target(n) /\ Whole(n)' = Whole(n)
  BY Begins, Dones, FixedCalls DEF Listing
<1>2. \A n \in Done : LastWord(n) => Target(n) \in DOMAIN files /\ files[Target(n)] = Whole(n)
  BY DEF Kept, Holds
<1>3. CASE UNCHANGED listVars
  <2>1. UNCHANGED <<listing, unread, reading, text, got, before>>
    BY <1>3 DEF listVars
  <2>2. before' \subseteq Done'
    BY <1>1, <2>1
  <2>3. \A n \in before' : LastWord(n)' => /\ n \in got' \/ Target(n)' \in unread'
                                           /\ Target(n)' \in reading' => text' = Whole(n)'
    BY <1>1, <2>1 DEF Listing
  <2> QED BY <2>1, <2>2, <2>3 DEF Listing
<1>4. ASSUME NEW h \in Handlers, BeginSave(h) \/ OpenFile(h) \/ WriteFile(h) PROVE Listing'
  BY <1>3, <1>4 DEF BeginSave, OpenFile, WriteFile
<1>5. CASE Crash
  BY <1>5 DEF Crash, Listing
<1>6. CASE ReadDir
  <2>1. /\ ~listing /\ listing' /\ unread' = DOMAIN files /\ before' = Done
        /\ UNCHANGED <<files, saves, reading>>
    BY <1>6 DEF ReadDir, saveVars
  <2>2. reading' = {}
    BY <2>1 DEF Listing
  <2>3. before' \subseteq Done'
    BY <2>1 DEF Done
  <2>4. \A n \in before' : LastWord(n)' => Target(n)' \in unread'
    <3> SUFFICES ASSUME NEW n \in Done, LastWord(n)' PROVE Target(n)' \in unread'
      BY <2>1
    <3>1. LastWord(n) /\ Target(n)' = Target(n)
      BY Begins, FixedCalls
    <3> QED BY <1>2, <2>1, <3>1
  <2> QED BY <2>1, <2>2, <2>3, <2>4 DEF Listing
<1>7. CASE ReadFile
  <2>1. PICK f \in unread : reading' = {f} /\ text' = files[f]
    BY <1>7 DEF ReadFile
  <2>2. listing /\ UNCHANGED <<listing, unread, got, before>>
    BY <1>7 DEF ReadFile
  <2>3. before' \subseteq Done'
    BY <1>1, <2>2
  <2>4. ASSUME NEW n \in before', LastWord(n)'
        PROVE  /\ n \in got' \/ Target(n)' \in unread'
               /\ Target(n)' \in reading' => text' = Whole(n)'
    BY <1>1, <1>2, <2>1, <2>2, <2>4 DEF Listing
  <2> QED BY <2>1, <2>2, <2>3, <2>4 DEF Listing
<1>8. CASE ReadRest
  <2> DEFINE rest(f) == IF text = <<>> THEN <<>> ELSE SubSeq(files[f], Len(text) + 1, Len(files[f]))
  <2>1. PICK f \in reading : /\ got' = got \cup Unmarshal(text \o rest(f))
                             /\ unread' = unread \ {f} /\ reading' = {} /\ text' = <<>>
                             /\ UNCHANGED <<listing, before>>
    BY <1>8 DEF ReadRest
  <2>2. before' \subseteq Done'
    BY <1>1, <2>1
  <2>3. ASSUME NEW n \in before', LastWord(n)' PROVE n \in got' \/ Target(n)' \in unread'
    <3>1. /\ n \in before /\ LastWord(n) /\ Target(n)' = Target(n)
          /\ n \in Done /\ n \in Started
      BY <1>1, <2>1, <2>3
    <3>2. CASE Target(n) # f
      BY <2>1, <3>1, <3>2 DEF Listing
    <3>3. CASE Target(n) = f
      <4>1. text = Whole(n) /\ files[f] = Whole(n)
        BY <1>2, <2>1, <3>1, <3>3 DEF Listing
      <4>2. Unmarshal(Whole(n)) = {n} /\ Whole(n) # <<>>
        BY <3>1, WholeIsProfile
      <4>3. text \o rest(f) = Whole(n) \o SubSeq(Whole(n), Len(Whole(n)) + 1, Len(Whole(n)))
        BY <4>1, <4>2
      <4>4. saves[n].blocks \in Nat
        BY <3>1 DEF Types, Save, Started
      <4>5. text \o rest(f) = Whole(n)
        BY <4>3, <4>4, NoRest DEF Whole
      <4> QED BY <2>1, <4>2, <4>5
    <3> QED BY <3>2, <3>3
  <2>4. listing \/ before' = {}
    BY <2>1 DEF Listing
  <2> QED BY <2>1, <2>2, <2>3, <2>4 DEF Listing
<1>9. CASE EndList
  <2>1. before' = {} /\ reading' = {}
    BY <1>9 DEF EndList, Listed
  <2> QED BY <2>1 DEF Listing
<1>10. CASE ReadFails
  <2>1. before' = {} /\ reading' = {}
    BY <1>10 DEF ReadFails
  <2> QED BY <2>1 DEF Listing
<1>11. CASE UNCHANGED vars
  BY <1>3, <1>11 DEF vars
<1> QED BY <1>4, <1>5, <1>6, <1>7, <1>8, <1>9, <1>10, <1>11, Steps DEF Other

------------------------------------------------------------------------------
(* The theorems                                                              *)

LEMMA Inductive == Spec => []IInv
<1>1. Init => IInv
  <2> SUFFICES ASSUME Init PROVE IInv
    OBVIOUS
  <2>1. Started = {} /\ Done = {} /\ Running = {}
    BY DEF Init, Started, Done, Running
  <2>2. Types
    <3>1. [name |-> <<>>, blocks |-> 0, state |-> "none", old |-> {}] \in Save
      BY DEF Save
    <3> QED BY <3>1 DEF Init, Types
  <2>3. Working /\ Kept
    BY <2>1 DEF Init, Working, Kept
  <2>4. Listing
    BY DEF Init, Listing
  <2> QED BY <2>2, <2>3, <2>4 DEF IInv
<1>2. IInv /\ [Next]_vars => IInv'
  BY WorkStep, KeptStep, ListingStep DEF IInv
<1> QED BY <1>1, <1>2, PTL DEF Spec

\* A profile that was saved, and that no other call of Save for a name with the
\* same file ran beside or followed, is what its file holds, however many
\* handlers, failed writes and crashes there were.
THEOREM SavedCorrect == Spec => []SavedIsKept
<1>1. IInv => SavedIsKept
  <2> SUFFICES ASSUME IInv, NEW n \in Done, LastWord(n)
               PROVE  Target(n) \in DOMAIN files /\ Unmarshal(files[Target(n)]) = {n}
    BY DEF SavedIsKept
  <2>1. Holds(n, Whole(n))
    BY DEF IInv, Kept
  <2>2. Unmarshal(Whole(n)) = {n}
    BY Begins, WholeIsProfile DEF IInv
  <2> QED BY <2>1, <2>2 DEF Holds
<1> QED BY <1>1, Inductive, PTL

\* A listing that ends without an error has every such profile that was there
\* when it began, whatever is written between its reads; the first file that
\* cannot be read ends it with one (profile/store.go List).
THEOREM ListCorrect == Spec => []ListComplete
<1>1. IInv => ListComplete
  BY DEF IInv, Listing, ListComplete, Listed
<1> QED BY <1>1, Inductive, PTL
================================================================================
