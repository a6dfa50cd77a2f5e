-------------------------- MODULE HistoryStoreProofs --------------------------
(***************************************************************************)
(* Machine-checked facts about HistoryStore that hold for any limit of     *)
(* files and any number of handlers, calls, timestamps and crashes.        *)
(***************************************************************************)
EXTENDS HistoryStore, TLAPS, FiniteSetTheorems

------------------------------------------------------------------------------
(* The inductive invariant                                                   *)

AddCall == [stamp : 0..MaxStamp, state : {"none", "running", "done", "failed"}, old : SUBSET Calls]
Places == {"idle", "open", "write", "read_dir", "prune", "listing"}
Types ==
  /\ DOMAIN files \subseteq 1..MaxStamp
  /\ \A f \in DOMAIN files : files[f].mtime \in 1..now /\ files[f].by \in 0..MaxAdds
  /\ now \in Nat /\ stamp \in 1..MaxStamp /\ reading \in 0..MaxStamp
  /\ adds \in [Calls -> AddCall]
  /\ pc \in [Handlers \cup {Lister} -> Places]
  /\ call \in [Handlers -> Calls \cup {0}]
  /\ doomed \in [Handlers -> SUBSET (1..MaxStamp)]
  /\ unread \subseteq 1..MaxStamp /\ spared \subseteq 1..MaxStamp

\* A handler at work executes a running call of its own, whose file exists once
\* it is open; what a call found ended when it began stays ended.
Busy(h) == pc[h] \in {"open", "write", "read_dir", "prune"}
Working ==
  /\ \A h \in Handlers : pc[h] \in {"idle", "open", "write", "read_dir", "prune"}
  /\ \A h \in Handlers : Busy(h) => call[h] \in Calls /\ adds[call[h]].state = "running"
  /\ \A h, g \in Handlers : Busy(h) /\ Busy(g) /\ h # g => call[h] # call[g]
  /\ \A n \in Started : adds[n].stamp \in 1..MaxStamp /\ adds[n].old \subseteq Ended
  /\ \A h \in Handlers : pc[h] = "write" => adds[call[h]].stamp \in DOMAIN files
  /\ reading # 0 => reading \in DOMAIN files

\* The calls that are at some place of Add, those that have opened their file,
\* and those that are writing it.
At(n, places) == \E h \in Handlers : call[h] = n /\ pc[h] \in places
Opened(n)  == n \in Completed \/ At(n, {"write", "read_dir", "prune"})
Writing(n) == At(n, {"write"})

\* Every file, there or about to be removed, is that of a call that opened it.
Named ==
  \A f : f \in DOMAIN files \/ (\E h \in Handlers : f \in doomed[h]) =>
     \E n \in Started : ~At(n, {"open"}) /\ adds[n].stamp = f

\* A recent entry is there, nobody means to remove it, and whatever was written
\* after it was written by a later call: there are too few of them to make it
\* excess.
Recent(n) == SameFile(n) = {} /\ Cardinality(Later(n)) < FileLimit
Safe(n) ==
  /\ adds[n].stamp \in DOMAIN files
  /\ files[adds[n].stamp].by = IF Writing(n) THEN 0 ELSE n
  /\ \A h \in Handlers : adds[n].stamp \notin doomed[h]
  /\ \A g \in Newer(adds[n].stamp) : \E m \in Later(n) : adds[m].stamp = g
Kept == \A n \in Started : Opened(n) /\ Recent(n) => Safe(n)

\* The listing has read it, or will.
Listing ==
  /\ before \subseteq Completed
  /\ pc[Lister] = "listing" =>
       \A n \in before : Recent(n) =>
          n \in got \/ adds[n].stamp \in unread \/ adds[n].stamp = reading

\* No two files are of the same time, so a listing leaves no more than the limit.
Distinct == \A f, g \in DOMAIN files : files[f].mtime = files[g].mtime => f = g

\* Calls that failed, or whose own pruning is still to come, may leave a file.
\* Those that have listed the directory are in the order of their listings.
Failed == {n \in Calls : adds[n].state = "failed"}
Unpruned == {n \in Calls : n \in Failed \/ At(n, {"write", "read_dir"})}
Pruning(h) == pc[h] = "prune"
Expected(rank, r) == Unpruned \cup {n \in Calls : \E h \in Handlers :
                                      Pruning(h) /\ rank[h] > r /\ call[h] = n}
Surplus(gone, calls) == DOMAIN files \ (spared \cup gone \cup {adds[n].stamp : n \in calls})

\* Beside the files of calls that come later in that order, no more than the
\* limit are left by the last pruning that was completed, or will be by one
\* that is under way.
Ranked(rank, base, top) ==
  /\ base <= top /\ \A h \in Handlers : rank[h] <= top
  /\ Cardinality(Surplus({}, Expected(rank, base))) <= FileLimit
  /\ \A h \in Handlers : Pruning(h) =>
        Cardinality(Surplus(doomed[h], Expected(rank, rank[h]))) <= FileLimit
Bounded == \E rank \in [Handlers -> Nat], base \in Nat, top \in Nat : Ranked(rank, base, top)

IInv == Types /\ Working /\ Named /\ Kept /\ Listing /\ Distinct /\ Bounded

------------------------------------------------------------------------------
(* The directory and the history                                             *)

LEMMA PutFacts ==
  ASSUME NEW f, NEW mtime, NEW by, files' = Put(f, mtime, by)
  PROVE  /\ DOMAIN files' = DOMAIN files \cup {f}
         /\ files'[f].mtime = mtime /\ files'[f].by = by
         /\ \A g \in DOMAIN files \ {f} : files'[g] = files[g]
BY DEF Put

LEMMA WithoutFacts ==
  ASSUME NEW f, files' = Without({f})
  PROVE  /\ DOMAIN files' = DOMAIN files \ {f}
         /\ \A g \in DOMAIN files \ {f} : files'[g] = files[g]
BY DEF Without

\* The state of one call changes, and nothing else of the history.
LEMMA StateSet ==
  ASSUME Types, NEW c \in Calls, NEW state \in {"done", "failed"},
         adds' = [adds EXCEPT ![c].state = state]
  PROVE  /\ adds' \in [Calls -> AddCall]
         /\ \A n \in Calls : /\ adds'[n].stamp = adds[n].stamp /\ adds'[n].old = adds[n].old
                             /\ adds'[n].state = IF n = c THEN state ELSE adds[n].state
<1> DEFINE r == [adds[c] EXCEPT !.state = state]
<1>1. r \in AddCall /\ r.state = state /\ r.stamp = adds[c].stamp /\ r.old = adds[c].old
  <2>1. adds[c] \in AddCall
    BY DEF Types
  <2> QED BY <2>1 DEF AddCall
<1>2. adds' = [adds EXCEPT ![c] = r]
  OBVIOUS
<1> HIDE DEF r
<1>3. adds' \in [Calls -> AddCall] /\ \A n \in Calls : adds'[n] = IF n = c THEN r ELSE adds[n]
  BY <1>1, <1>2 DEF Types
<1> QED BY <1>1, <1>3

\* What BeginAdd does.
LEMMA Begun ==
  ASSUME Types, NEW h \in Handlers, BeginAdd(h)
  PROVE  \E n \in Calls \ Started :
           /\ adds' \in [Calls -> AddCall] /\ \A m \in Calls \ {n} : adds'[m] = adds[m]
           /\ adds'[n].stamp \in 1..MaxStamp /\ adds'[n].state = "running" /\ adds'[n].old = Ended
           /\ call' = [call EXCEPT ![h] = n]
           /\ stamp' \in 1..MaxStamp
<1>1. PICK n \in Calls \ Started :
        /\ stamp' \in stamp..MaxStamp
        /\ adds' = [adds EXCEPT ![n] = [stamp |-> stamp', state |-> "running", old |-> Ended]]
        /\ call' = [call EXCEPT ![h] = n]
  BY DEF BeginAdd
<1>2. stamp' \in 1..MaxStamp /\ stamp' \in 0..MaxStamp
  BY <1>1, HistoryAssumption DEF Types
<1> DEFINE r == [stamp |-> stamp', state |-> "running", old |-> Ended]
<1>3. r \in AddCall /\ r.stamp = stamp' /\ r.state = "running" /\ r.old = Ended
  BY <1>2 DEF AddCall, Ended
<1>4. adds' = [adds EXCEPT ![n] = r]
  BY <1>1
<1> HIDE DEF r
<1>5. adds' \in [Calls -> AddCall] /\ \A m \in Calls : adds'[m] = IF m = n THEN r ELSE adds[m]
  BY <1>3, <1>4 DEF Types
<1> QED BY <1>1, <1>2, <1>3, <1>5

\* What a crash does to the history.
LEMMA Crashed ==
  ASSUME Types, Crash
  PROVE  /\ adds' \in [Calls -> AddCall]
         /\ \A n \in Calls : /\ adds'[n].stamp = adds[n].stamp /\ adds'[n].old = adds[n].old
                             /\ adds'[n].state = IF adds[n].state = "running" THEN "failed"
                                                 ELSE adds[n].state
<1>1. adds' = [n \in Calls |-> IF adds[n].state = "running"
                                 THEN [adds[n] EXCEPT !.state = "failed"] ELSE adds[n]]
  BY DEF Crash
<1> QED BY <1>1 DEF Types, AddCall

\* The two ways a write can go.
WriteOk(h, by) ==
  LET n == call[h]
      f == adds[n].stamp
  IN  /\ by = n \/ (by = 0 /\ files[f].by # 0)
      /\ files' = Put(f, now', by)
      /\ pc' = [pc EXCEPT ![h] = "read_dir"]
      /\ UNCHANGED adds
WriteFails(h) ==
  /\ adds' = [adds EXCEPT ![call[h]].state = "failed"]
  /\ pc' = [pc EXCEPT ![h] = "idle"]
  /\ UNCHANGED files
LEMMA Wrote ==
  ASSUME NEW h \in Handlers, WriteFile(h)
  PROVE  /\ pc[h] = "write" /\ now' = now + 1
         /\ UNCHANGED <<stamp, call, doomed, unread, reading, spared, before, got, crashes>>
         /\ WriteFails(h) \/ \E by : WriteOk(h, by)
BY DEF WriteFile, WriteOk, WriteFails

\* The steps that are none of Add leave the history and the directory alone,
\* unless they are a crash.
Reads == List \/ UNCHANGED vars
LEMMA ReadsKeep ==
  Reads => /\ UNCHANGED <<files, now, stamp, adds, call, doomed, spared>>
           /\ pc' = pc \/ \E p \in {"idle", "listing"} : pc' = [pc EXCEPT ![Lister] = p]
BY DEF Reads, List, BeginList, OpenEntry, ReadEntry, EndList, vars

LEMMA Steps ==
  [Next]_vars =>
     \/ \E h \in Handlers : BeginAdd(h) \/ OpenFile(h) \/ WriteFile(h) \/ ReadDir(h) \/ Prune(h)
     \/ Crash \/ Reads
BY DEF Next, Add, Reads

\* The places of the handlers after a step that moves one goroutine.
LEMMA Moved ==
  ASSUME Types, NEW g \in Handlers \cup {Lister}, NEW p \in Places, pc' = [pc EXCEPT ![g] = p]
  PROVE  /\ pc' \in [Handlers \cup {Lister} -> Places]
         /\ \A h \in Handlers \cup {Lister} : pc'[h] = IF h = g THEN p ELSE pc[h]
BY DEF Types

LEMMA NotLister == \A h \in Handlers : h # Lister
BY HistoryAssumption

\* What Add is called with stays, and a call that began has begun.
Fixed ==
  /\ Started \subseteq Started' /\ Ended \subseteq Ended'
  /\ \A n \in Started : adds'[n].stamp = adds[n].stamp /\ adds'[n].old = adds[n].old

------------------------------------------------------------------------------
(* One step                                                                  *)

LEMMA Sets == /\ Completed \subseteq Ended /\ Ended \subseteq Started /\ Started \subseteq Calls
              /\ \A n \in Calls : adds[n].state = "running" => n \in Started /\ n \notin Ended
BY DEF Completed, Ended, Started

LEMMA FixedIf ==
  ASSUME \A n \in Started : /\ adds'[n].stamp = adds[n].stamp /\ adds'[n].old = adds[n].old
                            /\ adds'[n].state # "none"
                            /\ n \in Ended => adds'[n].state \in {"done", "failed"}
  PROVE  Fixed
BY DEF Fixed, Started, Ended

\* A handler at work, and the file of its call.
LEMMA AtWork ==
  ASSUME Types, Working, NEW h \in Handlers, Busy(h)
  PROVE  /\ call[h] \in Calls /\ call[h] \in Started /\ call[h] \notin Ended
         /\ adds[call[h]].state = "running" /\ adds[call[h]].stamp \in 1..MaxStamp
BY Sets DEF Working

LEMMA FileTypes ==
  ASSUME Types, now' \in Nat, now' > now, NEW f \in 1..MaxStamp, NEW by \in 0..MaxAdds,
         files' = Put(f, now', by)
  PROVE  /\ DOMAIN files' \subseteq 1..MaxStamp
         /\ \A g \in DOMAIN files' : files'[g].mtime \in 1..now' /\ files'[g].by \in 0..MaxAdds
<1>1. \A g \in DOMAIN files \ {f} : files'[g] = files[g] /\ files[g].mtime \in 1..now
  BY PutFacts DEF Types
<1>2. now' \in 1..now' /\ \A t \in 1..now : t \in 1..now'
  BY DEF Types
<1>3. DOMAIN files' = DOMAIN files \cup {f} /\ files'[f].mtime = now' /\ files'[f].by = by
  BY PutFacts
<1>4. \A g \in DOMAIN files \ {f} : files'[g].mtime \in 1..now' /\ files'[g].by \in 0..MaxAdds
  BY <1>1, <1>2 DEF Types
<1>5. files'[f].mtime \in 1..now' /\ files'[f].by \in 0..MaxAdds
  BY <1>2, <1>3
<1>6. DOMAIN files \subseteq 1..MaxStamp
  BY DEF Types
<1> QED BY <1>3, <1>4, <1>5, <1>6

LEMMA WorkStep == Types /\ Working /\ [Next]_vars => Types' /\ Working' /\ Fixed
<1> SUFFICES ASSUME Types, Working, [Next]_vars PROVE Types' /\ Working' /\ Fixed
  OBVIOUS
<1>1. ASSUME NEW h \in Handlers, BeginAdd(h) PROVE Types' /\ Working' /\ Fixed
  <2>1. PICK n \in Calls \ Started :
          /\ adds' \in [Calls -> AddCall] /\ \A m \in Calls \ {n} : adds'[m] = adds[m]
          /\ adds'[n].stamp \in 1..MaxStamp /\ adds'[n].state = "running" /\ adds'[n].old = Ended
          /\ call' = [call EXCEPT ![h] = n]
          /\ stamp' \in 1..MaxStamp
    BY <1>1, Begun
  <2>2. /\ pc' \in [Handlers \cup {Lister} -> Places]
        /\ \A g \in Handlers \cup {Lister} : pc'[g] = IF g = h THEN "open" ELSE pc[g]
    BY <1>1, Moved DEF BeginAdd, Places
  <2>3. UNCHANGED <<files, now, doomed, unread, reading, spared>>
    BY <1>1 DEF BeginAdd
  <2>4. Types'
    BY <2>1, <2>2, <2>3 DEF Types
  <2>5. Fixed
    <3>1. \A m \in Started : adds'[m] = adds[m] /\ adds[m].state # "none"
      BY <2>1 DEF Started
    <3>2. \A m \in Ended : adds[m].state \in {"done", "failed"}
      BY DEF Ended
    <3> QED BY <3>1, <3>2, FixedIf
  <2>6. Started' = Started \cup {n} /\ Ended' = Ended /\ Ended \subseteq Started
    BY <2>1 DEF Started, Ended
  <2>7. \A g \in Handlers : \/ g = h /\ pc'[g] = "open" /\ call'[g] = n
                            \/ g # h /\ pc'[g] = pc[g] /\ call'[g] = call[g]
    BY <2>1, <2>2 DEF Types
  <2>8. \A g \in Handlers : Busy(g) => call[g] \in Started /\ call[g] # n
    BY <2>1, AtWork
  <2>9. \A g \in Handlers : Busy(g)' => call'[g] \in Calls /\ adds'[call'[g]].state = "running"
    BY <2>1, <2>7, <2>8 DEF Working, Busy
  <2>10. \A g, k \in Handlers : Busy(g)' /\ Busy(k)' /\ g # k => call'[g] # call'[k]
    BY <2>7, <2>8 DEF Working, Busy
  <2>11. \A m \in Started' : adds'[m].stamp \in 1..MaxStamp /\ adds'[m].old \subseteq Ended'
    BY <2>1, <2>6, Sets DEF Working
  <2>12. \A g \in Handlers : pc'[g] = "write" => adds'[call'[g]].stamp \in DOMAIN files'
    BY <2>1, <2>3, <2>7, <2>8, AtWork DEF Working, Busy
  <2>13. \A g \in Handlers : pc'[g] \in {"idle", "open", "write", "read_dir", "prune"}
    BY <2>7 DEF Working
  <2> QED BY <2>3, <2>4, <2>5, <2>9, <2>10, <2>11, <2>12, <2>13 DEF Working
\* Steps of Add and of the reader that leave the history alone.
<1>2. ASSUME UNCHANGED <<adds, call>>, Types',
             \A g \in Handlers : /\ pc'[g] \in {"idle", "open", "write", "read_dir", "prune"}
                                 /\ Busy(g)' => Busy(g)
                                 /\ pc'[g] = "write" => adds[call[g]].stamp \in DOMAIN files',
             reading' # 0 => reading' \in DOMAIN files'
      PROVE  Types' /\ Working' /\ Fixed
  <2>1. Started' = Started /\ Ended' = Ended
    BY <1>2 DEF Started, Ended
  <2>2. Fixed
    BY <1>2, <2>1 DEF Fixed
  <2>3. \A g \in Handlers : Busy(g)' => call'[g] \in Calls /\ adds'[call'[g]].state = "running"
    BY <1>2 DEF Working
  <2>4. \A g, k \in Handlers : Busy(g)' /\ Busy(k)' /\ g # k => call'[g] # call'[k]
    BY <1>2 DEF Working
  <2>5. \A m \in Started' : adds'[m].stamp \in 1..MaxStamp /\ adds'[m].old \subseteq Ended'
    BY <1>2, <2>1 DEF Working
  <2> QED BY <1>2, <2>2, <2>3, <2>4, <2>5 DEF Working
<1>3. ASSUME NEW h \in Handlers, OpenFile(h) PROVE Types' /\ Working' /\ Fixed
  <2> DEFINE f == adds[call[h]].stamp
  <2>1. /\ pc[h] = "open" /\ now' = now + 1 /\ files' = Put(f, now', 0)
        /\ pc' = [pc EXCEPT ![h] = "write"]
        /\ UNCHANGED <<stamp, adds, call, doomed, unread, reading, spared>>
    BY <1>3 DEF OpenFile
  <2>2. f \in 1..MaxStamp
    BY <2>1, AtWork DEF Busy
  <2>3. /\ pc' \in [Handlers \cup {Lister} -> Places]
        /\ \A g \in Handlers \cup {Lister} : pc'[g] = IF g = h THEN "write" ELSE pc[g]
    BY <2>1, Moved DEF Places
  <2>4. now' \in Nat /\ now' > now /\ 0 \in 0..MaxAdds
    BY <2>1, HistoryAssumption DEF Types
  <2> HIDE DEF f
  <2>5. Types'
    BY <2>1, <2>2, <2>3, <2>4, FileTypes DEF Types
  <2>6. DOMAIN files' = DOMAIN files \cup {f}
    BY <2>1, PutFacts
  <2>7. \A g \in Handlers : /\ pc'[g] \in {"idle", "open", "write", "read_dir", "prune"}
                            /\ Busy(g)' => Busy(g)
                            /\ pc'[g] = "write" => adds[call[g]].stamp \in DOMAIN files'
    BY <2>1, <2>3, <2>6 DEF Working, Busy, f
  <2>8. reading' # 0 => reading' \in DOMAIN files'
    BY <2>1, <2>6 DEF Working
  <2> QED BY <1>2, <2>1, <2>5, <2>7, <2>8
<1>4. ASSUME NEW h \in Handlers, WriteFile(h) PROVE Types' /\ Working' /\ Fixed
  <2> DEFINE f == adds[call[h]].stamp
  <2>1. /\ pc[h] = "write" /\ now' = now + 1
        /\ UNCHANGED <<stamp, call, doomed, unread, reading, spared>>
    BY <1>4, Wrote
  <2>2. /\ f \in 1..MaxStamp /\ call[h] \in Calls /\ call[h] \in Started /\ call[h] \notin Ended
        /\ call[h] \in 0..MaxAdds
    BY <2>1, AtWork DEF Busy, Calls
  <2>4. now' \in Nat /\ now' > now /\ 0 \in 0..MaxAdds
    BY <2>1, HistoryAssumption DEF Types
  <2>5. ASSUME NEW by, WriteOk(h, by) PROVE Types' /\ Working' /\ Fixed
    <3>1. /\ by \in 0..MaxAdds /\ files' = Put(f, now', by) /\ pc' = [pc EXCEPT ![h] = "read_dir"]
          /\ adds' = adds
      BY <2>2, <2>4, <2>5 DEF WriteOk
    <3>2. /\ pc' \in [Handlers \cup {Lister} -> Places]
          /\ \A g \in Handlers \cup {Lister} : pc'[g] = IF g = h THEN "read_dir" ELSE pc[g]
      BY <3>1, Moved DEF Places
    <3> HIDE DEF f
    <3>3. Types'
      BY <2>1, <2>2, <2>4, <3>1, <3>2, FileTypes DEF Types
    <3>4. DOMAIN files \subseteq DOMAIN files'
      BY <3>1, PutFacts
    <3>5. \A g \in Handlers : /\ pc'[g] \in {"idle", "open", "write", "read_dir", "prune"}
                              /\ Busy(g)' => Busy(g)
                              /\ pc'[g] = "write" => adds[call[g]].stamp \in DOMAIN files'
      BY <2>1, <3>2, <3>4 DEF Working, Busy
    <3>6. reading' # 0 => reading' \in DOMAIN files'
      BY <2>1, <3>4 DEF Working
    <3> QED BY <1>2, <2>1, <3>1, <3>3, <3>5, <3>6
  <2>6. CASE WriteFails(h)
    <3>1. /\ adds' \in [Calls -> AddCall]
          /\ \A n \in Calls : /\ adds'[n].stamp = adds[n].stamp /\ adds'[n].old = adds[n].old
                              /\ adds'[n].state = IF n = call[h] THEN "failed" ELSE adds[n].state
      BY <2>2, <2>6, StateSet DEF WriteFails
    <3>2. /\ pc' \in [Handlers \cup {Lister} -> Places]
          /\ \A g \in Handlers \cup {Lister} : pc'[g] = IF g = h THEN "idle" ELSE pc[g]
      BY <2>6, Moved DEF WriteFails, Places
    <3>3. UNCHANGED files /\ \A t \in 1..now : t \in 1..now'
      BY <2>1, <2>6 DEF WriteFails, Types
    <3>4. Types'
      BY <2>1, <2>4, <3>1, <3>2, <3>3 DEF Types
    <3>5. Started' = Started /\ Ended' = Ended \cup {call[h]}
      BY <2>2, <3>1 DEF Started, Ended
    <3>6. Fixed
      BY <3>1, <3>5, Sets DEF Fixed
    <3>7. \A g \in Handlers : Busy(g)' => g # h /\ Busy(g) /\ pc'[g] = pc[g] /\ call[g] # call[h]
      BY <2>1, <3>2 DEF Working, Busy
    <3>8. \A g \in Handlers : Busy(g)' => call'[g] \in Calls /\ adds'[call'[g]].state = "running"
      BY <2>1, <3>1, <3>7 DEF Working
    <3>9. \A g, k \in Handlers : Busy(g)' /\ Busy(k)' /\ g # k => call'[g] # call'[k]
      BY <2>1, <3>7 DEF Working
    <3>10. \A m \in Started' : adds'[m].stamp \in 1..MaxStamp /\ adds'[m].old \subseteq Ended'
      BY <3>1, <3>5, Sets DEF Working
    <3>11. \A g \in Handlers : pc'[g] = "write" => adds'[call'[g]].stamp \in DOMAIN files'
      <4> SUFFICES ASSUME NEW g \in Handlers, pc'[g] = "write"
                   PROVE  adds'[call'[g]].stamp \in DOMAIN files'
        OBVIOUS
      <4>1. pc[g] = "write" /\ Busy(g)
        BY <3>2 DEF Busy
      <4> QED BY <2>1, <3>1, <3>3, <4>1 DEF Working
    <3>12. \A g \in Handlers : pc'[g] \in {"idle", "open", "write", "read_dir", "prune"}
      BY <3>2 DEF Working
    <3> QED BY <2>1, <3>3, <3>4, <3>6, <3>8, <3>9, <3>10, <3>11, <3>12 DEF Working
  <2> QED BY <1>4, <2>5, <2>6, Wrote
<1>5. ASSUME NEW h \in Handlers, ReadDir(h) PROVE Types' /\ Working' /\ Fixed
  <2>1. /\ pc[h] = "read_dir" /\ doomed' = [doomed EXCEPT ![h] = Excess]
        /\ pc' = [pc EXCEPT ![h] = "prune"]
        /\ UNCHANGED <<files, now, stamp, adds, call, unread, reading, spared>>
    BY <1>5 DEF ReadDir
  <2>2. Excess \in SUBSET (1..MaxStamp)
    BY DEF Excess, Types
  <2>3. /\ pc' \in [Handlers \cup {Lister} -> Places]
        /\ \A g \in Handlers \cup {Lister} : pc'[g] = IF g = h THEN "prune" ELSE pc[g]
    BY <2>1, Moved DEF Places
  <2>4. Types'
    BY <2>1, <2>2, <2>3 DEF Types
  <2>5. \A g \in Handlers : /\ pc'[g] \in {"idle", "open", "write", "read_dir", "prune"}
                            /\ Busy(g)' => Busy(g)
                            /\ pc'[g] = "write" => adds[call[g]].stamp \in DOMAIN files'
    BY <2>1, <2>3 DEF Working, Busy
  <2> QED BY <1>2, <2>1, <2>4, <2>5 DEF Working
<1>6. ASSUME NEW h \in Handlers, RemoveOne(h, Open), pc[h] = "prune",
             UNCHANGED <<now, stamp, call, unread, reading>>
      PROVE  Types' /\ Working' /\ Fixed
  <2>1. PICK f \in doomed[h] : /\ files' = IF f \in Open THEN files ELSE Without({f})
                               /\ spared' = IF f = reading THEN spared \cup {f} ELSE spared \ {f}
                               /\ doomed' = [doomed EXCEPT ![h] = @ \ {f}]
                               /\ UNCHANGED <<adds, pc>>
    BY <1>6 DEF RemoveOne
  <2>2. f \in 1..MaxStamp
    BY DEF Types
  <2>3. /\ DOMAIN files' \subseteq DOMAIN files
        /\ \A g \in DOMAIN files : g # f \/ f \in Open => g \in DOMAIN files'
        /\ \A g \in DOMAIN files' : files'[g] = files[g]
    BY <2>1, WithoutFacts
  <2>4. Types'
    BY <1>6, <2>1, <2>2, <2>3 DEF Types
  <2>5. \A g \in Handlers : pc[g] = "write" => adds[call[g]].stamp \in Open
    BY DEF Open
  <2>6. reading \in Open
    BY DEF Open
  <2>7. \A g \in Handlers : pc'[g] = "write" => adds[call[g]].stamp \in DOMAIN files'
    BY <2>1, <2>3, <2>5 DEF Working
  <2>8. reading' # 0 => reading' \in DOMAIN files'
    BY <1>6, <2>3, <2>6 DEF Working
  <2>9. \A g \in Handlers : /\ pc'[g] \in {"idle", "open", "write", "read_dir", "prune"}
                            /\ Busy(g)' => Busy(g)
    BY <2>1 DEF Working, Busy
  <2> QED BY <1>2, <1>6, <2>1, <2>4, <2>7, <2>8, <2>9
<1>7. ASSUME NEW h \in Handlers, EndAdd(h), pc[h] = "prune",
             UNCHANGED <<now, stamp, call, unread, reading>>
      PROVE  Types' /\ Working' /\ Fixed
  <2>2. call[h] \in Calls /\ call[h] \in Started /\ call[h] \notin Ended
    BY <1>7, AtWork DEF Busy
  <2>3. /\ adds' \in [Calls -> AddCall]
        /\ \A n \in Calls : /\ adds'[n].stamp = adds[n].stamp /\ adds'[n].old = adds[n].old
                            /\ adds'[n].state = IF n = call[h] THEN "done" ELSE adds[n].state
    BY <1>7, <2>2, StateSet DEF EndAdd
  <2>4. /\ pc' \in [Handlers \cup {Lister} -> Places]
        /\ \A g \in Handlers \cup {Lister} : pc'[g] = IF g = h THEN "idle" ELSE pc[g]
    BY <1>7, Moved DEF EndAdd, Places
  <2>5. UNCHANGED <<files, doomed, spared>>
    BY <1>7 DEF EndAdd
  <2>6. Types'
    BY <1>7, <2>3, <2>4, <2>5 DEF Types
  <2>7. Started' = Started /\ Ended' = Ended \cup {call[h]}
    BY <2>2, <2>3 DEF Started, Ended
  <2>8. Fixed
    BY <2>3, <2>7, Sets DEF Fixed
  <2>9. \A g \in Handlers : Busy(g)' => g # h /\ Busy(g) /\ pc'[g] = pc[g] /\ call[g] # call[h]
    BY <1>7, <2>4 DEF Working, Busy
  <2>10. \A g \in Handlers : Busy(g)' => call'[g] \in Calls /\ adds'[call'[g]].state = "running"
    BY <1>7, <2>3, <2>9 DEF Working
  <2>11. \A g, k \in Handlers : Busy(g)' /\ Busy(k)' /\ g # k => call'[g] # call'[k]
    BY <1>7, <2>9 DEF Working
  <2>12. \A m \in Started' : adds'[m].stamp \in 1..MaxStamp /\ adds'[m].old \subseteq Ended'
    BY <2>3, <2>7, Sets DEF Working
  <2>13. \A g \in Handlers : pc'[g] = "write" => adds'[call'[g]].stamp \in DOMAIN files'
    <3> SUFFICES ASSUME NEW g \in Handlers, pc'[g] = "write"
                 PROVE  adds'[call'[g]].stamp \in DOMAIN files'
      OBVIOUS
    <3>1. pc[g] = "write" /\ Busy(g)
      BY <2>4 DEF Busy
    <3> QED BY <1>7, <2>3, <2>5, <3>1 DEF Working
  <2>14. \A g \in Handlers : pc'[g] \in {"idle", "open", "write", "read_dir", "prune"}
    BY <2>4 DEF Working
  <2> QED BY <1>7, <2>5, <2>6, <2>8, <2>10, <2>11, <2>12, <2>13, <2>14 DEF Working
<1>8. ASSUME NEW h \in Handlers, Prune(h) PROVE Types' /\ Working' /\ Fixed
  BY <1>6, <1>7, <1>8 DEF Prune
<1>9. CASE Crash
  <2>1. /\ adds' \in [Calls -> AddCall]
        /\ \A n \in Calls : /\ adds'[n].stamp = adds[n].stamp /\ adds'[n].old = adds[n].old
                            /\ adds'[n].state = IF adds[n].state = "running" THEN "failed"
                                                ELSE adds[n].state
    BY <1>9, Crashed
  <2>2. /\ pc' = [h \in Handlers \cup {Lister} |-> "idle"] /\ doomed' = [h \in Handlers |-> {}]
        /\ unread' = {} /\ reading' = 0
        /\ UNCHANGED <<files, now, stamp, call, spared>>
    BY <1>9 DEF Crash
  <2>3. Types'
    <3>1. 0 \in 0..MaxStamp
      BY HistoryAssumption
    <3> QED BY <2>1, <2>2, <3>1 DEF Types, Places
  <2>4. Started' = Started /\ Ended \subseteq Ended'
    BY <2>1 DEF Started, Ended
  <2>5. Fixed
    BY <2>1, <2>4, Sets DEF Fixed
  <2>6. \A m \in Started' : adds'[m].stamp \in 1..MaxStamp /\ adds'[m].old \subseteq Ended'
    BY <2>1, <2>4, Sets DEF Working
  <2> QED BY <2>2, <2>3, <2>5, <2>6 DEF Working, Busy
<1>10. CASE Reads
  <2>1. UNCHANGED <<files, now, stamp, adds, call, doomed, spared>>
    BY <1>10, ReadsKeep
  <2>2. /\ pc' \in [Handlers \cup {Lister} -> Places] /\ \A g \in Handlers : pc'[g] = pc[g]
    <3>1. CASE pc' = pc
      BY <3>1 DEF Types
    <3>2. CASE \E p \in {"idle", "listing"} : pc' = [pc EXCEPT ![Lister] = p]
      BY <3>2, NotLister DEF Types, Places
    <3> QED BY <1>10, <3>1, <3>2, ReadsKeep
  <2>3. /\ unread' \subseteq 1..MaxStamp /\ reading' \in 0..MaxStamp
        /\ reading' # 0 => reading' \in DOMAIN files
    <3>1. CASE UNCHANGED <<unread, reading>>
      BY <3>1 DEF Types, Working
    <3>2. CASE BeginList
      BY <3>2 DEF BeginList, Types, Working
    <3>3. CASE OpenEntry
      <4>1. 0 \in 0..MaxStamp
        BY HistoryAssumption
      <4> QED BY <3>3, <4>1 DEF OpenEntry, Types, Working
    <3>4. CASE ReadEntry
      <4>1. 0 \in 0..MaxStamp
        BY HistoryAssumption
      <4> QED BY <3>4, <4>1 DEF ReadEntry, Types
    <3>5. EndList \/ UNCHANGED vars => UNCHANGED <<unread, reading>>
      BY DEF EndList, vars
    <3> QED BY <1>10, <3>1, <3>2, <3>3, <3>4, <3>5 DEF Reads, List
  <2>4. Types'
    BY <2>1, <2>2, <2>3 DEF Types
  <2>5. \A g \in Handlers : /\ pc'[g] \in {"idle", "open", "write", "read_dir", "prune"}
                            /\ Busy(g)' => Busy(g)
                            /\ pc'[g] = "write" => adds[call[g]].stamp \in DOMAIN files'
    BY <2>1, <2>2 DEF Working, Busy
  <2> QED BY <1>2, <2>1, <2>3, <2>4, <2>5
<1> QED BY <1>1, <1>3, <1>4, <1>5, <1>8, <1>9, <1>10, Steps

------------------------------------------------------------------------------
(* Recent entries                                                            *)

LEMMA CallsFinite ==
  ASSUME NEW S, S \subseteq Calls
  PROVE  IsFiniteSet(S) /\ Cardinality(S) \in Nat
<1>1. IsFiniteSet(Calls)
  BY HistoryAssumption, FS_Interval DEF Calls
<1>2. IsFiniteSet(S)
  BY <1>1, FS_Subset
<1> QED BY <1>2, FS_CardinalityType

\* Calls only join those that share a file or come later, so a recent entry
\* was recent before.
LEMMA FixedCalls ==
  ASSUME Fixed, NEW n \in Started
  PROVE  /\ n \in Started' /\ adds'[n].stamp = adds[n].stamp
         /\ Later(n) \subseteq Later(n)'
         /\ \A m \in Later(n) : m \in Started /\ adds'[m].stamp = adds[m].stamp
         /\ Recent(n)' => Recent(n)
<1>1. n \in Started' /\ adds'[n].stamp = adds[n].stamp /\ adds'[n].old = adds[n].old
  BY DEF Fixed
<1>2. \A m \in Started : m \in Started' /\ adds'[m].stamp = adds[m].stamp
  BY DEF Fixed
<1>3. Later(n) \subseteq Started /\ Later(n) \subseteq Later(n)' /\ Later(n)' \subseteq Calls
  BY <1>1, <1>2 DEF Later, Started, Calls
<1>4. SameFile(n)' = {} => SameFile(n) = {}
  BY <1>1, <1>2 DEF SameFile
<1>5. Cardinality(Later(n)) <= Cardinality(Later(n)')
  BY <1>3, CallsFinite, FS_Subset
<1>6. Cardinality(Later(n)) \in Nat /\ Cardinality(Later(n)') \in Nat /\ FileLimit \in Nat
  BY <1>3, CallsFinite, HistoryAssumption
<1>8. Recent(n)' => SameFile(n)' = {} /\ Cardinality(Later(n)') < FileLimit
  BY DEF Recent
<1>9. Recent(n)' => Recent(n)
  BY <1>4, <1>5, <1>6, <1>8 DEF Recent
<1> QED BY <1>1, <1>2, <1>3, <1>9

\* There are too few later calls to push a recent entry out.
LEMMA NotExcess ==
  ASSUME NEW n \in Started, Recent(n), Safe(n)
  PROVE  adds[n].stamp \notin Excess
<1> DEFINE f == adds[n].stamp
           T == {adds[m].stamp : m \in Later(n)}
           s == [m \in Later(n) |-> adds[m].stamp]
<1>1. Later(n) \subseteq Calls
  BY DEF Later, Started
<1>2. IsFiniteSet(Later(n)) /\ Cardinality(Later(n)) \in Nat
  BY <1>1, CallsFinite
<1>3. s \in Surjection(Later(n), T)
  BY DEF Surjection
<1>4. IsFiniteSet(T) /\ Cardinality(T) <= Cardinality(Later(n))
  BY <1>2, <1>3, FS_Surjection
<1>5. Newer(f) \subseteq T
  BY DEF Safe
<1>6. IsFiniteSet(Newer(f)) /\ Cardinality(Newer(f)) <= Cardinality(T)
  BY <1>4, <1>5, FS_Subset
<1>7. Cardinality(Newer(f)) \in Nat /\ Cardinality(T) \in Nat
  BY <1>4, <1>6, FS_CardinalityType
<1>8. Cardinality(Newer(f)) < FileLimit
  BY <1>2, <1>4, <1>6, <1>7, HistoryAssumption DEF Recent
<1>9. ~(Cardinality(Newer(f)) >= FileLimit)
  BY <1>7, <1>8, HistoryAssumption
<1> QED BY <1>9 DEF Excess

\* Whoever is at work beside a call that has opened its file works for a later
\* call, and on another file if nothing else was given this one.
LEMMA Others ==
  ASSUME Types, Working, NEW n \in Started, SameFile(n) = {}, NEW h \in Handlers, Busy(h), call[h] # n
  PROVE  call[h] \in Later(n) /\ adds[call[h]].stamp # adds[n].stamp
<1>1. call[h] \in Started /\ call[h] \notin Ended
  BY AtWork
<1>2. adds[n].old \subseteq Ended
  BY DEF Working
<1> QED BY <1>1, <1>2 DEF Later, SameFile

\* An entry stays safe under any step that leaves its file alone and writes
\* only the files of later calls.
LEMMA SafeStep ==
  ASSUME Types, Fixed, NEW n \in Started, Safe(n),
         adds[n].stamp \in DOMAIN files', files'[adds[n].stamp] = files[adds[n].stamp],
         Writing(n)' <=> Writing(n),
         \A h \in Handlers : adds[n].stamp \notin doomed'[h],
         \A g \in DOMAIN files' : \/ g \in DOMAIN files /\ files'[g] = files[g]
                                  \/ \E m \in Later(n) : adds[m].stamp = g
  PROVE  Safe(n)'
<1> DEFINE f == adds[n].stamp
<1>1. adds'[n].stamp = f /\ Later(n) \subseteq Later(n)'
      /\ \A m \in Later(n) : adds'[m].stamp = adds[m].stamp
  BY FixedCalls
<1>2. \A g \in DOMAIN files' : files'[g].mtime > files'[f].mtime => \E m \in Later(n) : adds[m].stamp = g
  BY DEF Safe, Newer
<1>3. \A g \in DOMAIN files' : files'[g].mtime > files'[f].mtime =>
                                 \E m \in Later(n)' : adds'[m].stamp = g
  BY <1>1, <1>2
<1>4. \A g \in Newer(adds[n].stamp)' : \E m \in Later(n)' : adds'[m].stamp = g
  BY <1>1, <1>3 DEF Newer
<1>5. files'[f].by = IF Writing(n)' THEN 0 ELSE n
  BY DEF Safe
<1> QED BY <1>1, <1>4, <1>5 DEF Safe

\* One handler moves on: only the place of its own call changes.
AddPlaces == {"open", "write", "read_dir", "prune"}
LEMMA CallMoves ==
  ASSUME Types, Working, NEW h \in Handlers, Busy(h), NEW p \in Places,
         pc' = [pc EXCEPT ![h] = p], UNCHANGED call, NEW n, NEW places, places \subseteq AddPlaces
  PROVE  /\ n # call[h] => (At(n, places)' <=> At(n, places))
         /\ n = call[h] => (At(n, places)' <=> p \in places) /\ (At(n, places) <=> pc[h] \in places)
<1>1. \A g \in Handlers : pc'[g] = IF g = h THEN p ELSE pc[g]
  BY Moved
<1>2. \A g \in Handlers : g # h /\ pc[g] \in places => call[g] # call[h]
  BY DEF Working, Busy, AddPlaces
<1>3. ASSUME n # call[h] PROVE At(n, places)' <=> At(n, places)
  BY <1>1, <1>3 DEF At
<1>4. ASSUME n = call[h] PROVE (At(n, places)' <=> p \in places) /\ (At(n, places) <=> pc[h] \in places)
  BY <1>1, <1>2, <1>4 DEF At
<1> QED BY <1>3, <1>4

\* A call that a handler executes has not ended.
LEMMA AtRuns ==
  ASSUME Types, Working, NEW n, NEW places, places \subseteq AddPlaces, At(n, places)
  PROVE  n \in Calls /\ n \in Started /\ adds[n].state = "running"
<1>1. PICK h \in Handlers : call[h] = n /\ pc[h] \in places
  BY DEF At
<1>2. Busy(h)
  BY <1>1 DEF Busy, AddPlaces
<1> QED BY <1>1, <1>2, AtWork

\* What has been completed stays so.
LEMMA DoneStays == Types /\ Working /\ [Next]_vars => Completed \subseteq Completed'
<1> SUFFICES ASSUME Types, Working, [Next]_vars PROVE Completed \subseteq Completed'
  OBVIOUS
<1>1. UNCHANGED adds => Completed \subseteq Completed'
  BY DEF Completed
<1>2. ASSUME NEW h \in Handlers, BeginAdd(h) PROVE Completed \subseteq Completed'
  BY <1>2, Begun DEF Completed, Started
<1>3. ASSUME NEW h \in Handlers, Busy(h), NEW state \in {"done", "failed"},
             adds' = [adds EXCEPT ![call[h]].state = state]
      PROVE  Completed \subseteq Completed'
  <2>1. call[h] \in Calls /\ call[h] \notin Completed
    BY <1>3, AtWork, Sets
  <2>2. \A n \in Calls : n # call[h] => adds'[n].state = adds[n].state
    BY <1>3, <2>1, StateSet
  <2> QED BY <2>1, <2>2 DEF Completed
<1>4. ASSUME NEW h \in Handlers, WriteFile(h) PROVE Completed \subseteq Completed'
  BY <1>1, <1>3, <1>4, Wrote DEF WriteOk, WriteFails, Busy
<1>5. ASSUME NEW h \in Handlers, Prune(h) PROVE Completed \subseteq Completed'
  BY <1>1, <1>3, <1>5 DEF Prune, EndAdd, RemoveOne, Busy
<1>6. CASE Crash
  BY <1>6, Crashed DEF Completed
<1>7. ASSUME NEW h \in Handlers, OpenFile(h) \/ ReadDir(h) PROVE UNCHANGED adds
  BY <1>7 DEF OpenFile, ReadDir
<1>8. Reads => UNCHANGED adds
  BY ReadsKeep
<1> QED BY <1>1, <1>2, <1>4, <1>5, <1>6, <1>7, <1>8, Steps

------------------------------------------------------------------------------
(* Whose files there are                                                     *)

LEMMA NamedIf ==
  ASSUME Named, Fixed,
         \A f : f \in DOMAIN files' \/ (\E h \in Handlers : f \in doomed'[h])
                  => f \in DOMAIN files \/ (\E h \in Handlers : f \in doomed[h]),
         \A n \in Started : At(n, {"open"})' => At(n, {"open"})
  PROVE  Named'
<1> SUFFICES ASSUME NEW f, f \in DOMAIN files' \/ (\E h \in Handlers : f \in doomed'[h])
             PROVE  \E n \in Started' : ~At(n, {"open"})' /\ adds'[n].stamp = f
  BY DEF Named
<1>1. PICK n \in Started : ~At(n, {"open"}) /\ adds[n].stamp = f
  BY DEF Named
<1>2. n \in Started' /\ adds'[n].stamp = f
  BY <1>1 DEF Fixed
<1> QED BY <1>1, <1>2

LEMMA NamedStep == Types /\ Working /\ Named /\ [Next]_vars => Named'
<1> SUFFICES ASSUME Types, Working, Named, [Next]_vars PROVE Named'
  OBVIOUS
<1>1. Fixed
  BY WorkStep
<1>2. {"open"} \subseteq AddPlaces
  BY DEF AddPlaces
<1>3. ASSUME NEW h \in Handlers, BeginAdd(h) PROVE Named'
  <2>1. PICK n \in Calls \ Started : call' = [call EXCEPT ![h] = n]
    BY <1>3, Begun
  <2>2. pc' = [pc EXCEPT ![h] = "open"] /\ UNCHANGED <<files, doomed>>
    BY <1>3 DEF BeginAdd
  <2>3. \A g \in Handlers : /\ g = h => call'[g] = n
                            /\ g # h => pc'[g] = pc[g] /\ call'[g] = call[g]
    BY <2>1, <2>2 DEF Types
  <2>4. \A m \in Started : At(m, {"open"})' => At(m, {"open"})
    BY <2>3 DEF At
  <2> QED BY <1>1, <2>2, <2>4, NamedIf
\* A handler that moves on but does not come to open its file.
<1>4. ASSUME NEW h \in Handlers, Busy(h), NEW p \in Places, p # "open",
             pc' = [pc EXCEPT ![h] = p], UNCHANGED call, NEW n
      PROVE  At(n, {"open"})' => At(n, {"open"})
  BY <1>2, <1>4, CallMoves
<1>5. ASSUME NEW h \in Handlers, OpenFile(h) PROVE Named'
  <2>1. /\ pc[h] = "open" /\ pc' = [pc EXCEPT ![h] = "write"]
        /\ files' = Put(adds[call[h]].stamp, now', 0) /\ UNCHANGED <<adds, call, doomed>>
    BY <1>5 DEF OpenFile
  <2>2. Busy(h) /\ "write" \in Places /\ DOMAIN files' = DOMAIN files \cup {adds[call[h]].stamp}
    BY <2>1, PutFacts DEF Busy, Places
  <2>3. call[h] \in Started' /\ adds'[call[h]].stamp = adds[call[h]].stamp
    BY <1>1, <2>2, AtWork DEF Fixed
  <2>4. \A n : n = call[h] => ~At(n, {"open"})'
    <3> TAKE n
    <3> QED BY <1>2, <2>1, <2>2, CallMoves
  <2>5. \A n : At(n, {"open"})' => At(n, {"open"})
    BY <1>4, <2>1, <2>2
  <2>6. ASSUME NEW f, f \in DOMAIN files' \/ (\E k \in Handlers : f \in doomed'[k])
        PROVE  \E n \in Started' : ~At(n, {"open"})' /\ adds'[n].stamp = f
    <3>1. CASE f = adds[call[h]].stamp
      BY <2>3, <2>4, <3>1
    <3>2. CASE f # adds[call[h]].stamp
      <4>1. PICK n \in Started : ~At(n, {"open"}) /\ adds[n].stamp = f
        BY <2>1, <2>2, <2>6, <3>2 DEF Named
      <4>2. n \in Started' /\ adds'[n].stamp = f /\ ~At(n, {"open"})'
        BY <1>1, <2>5, <4>1 DEF Fixed
      <4> QED BY <4>2
    <3> QED BY <3>1, <3>2
  <2> QED BY <2>6 DEF Named
<1>6. ASSUME NEW h \in Handlers, WriteFile(h) PROVE Named'
  <2>1. pc[h] = "write" /\ UNCHANGED <<call, doomed>> /\ (WriteFails(h) \/ \E by : WriteOk(h, by))
    BY <1>6, Wrote
  <2>2. adds[call[h]].stamp \in DOMAIN files /\ Busy(h) /\ {"idle", "read_dir"} \subseteq Places
    BY <2>1 DEF Working, Busy, Places
  <2>3. \E p \in {"idle", "read_dir"} : pc' = [pc EXCEPT ![h] = p]
    BY <2>1 DEF WriteOk, WriteFails
  <2>4. \A n : At(n, {"open"})' => At(n, {"open"})
    BY <1>4, <2>1, <2>2, <2>3
  <2>5. DOMAIN files' = DOMAIN files
    <3>1. CASE WriteFails(h)
      BY <3>1 DEF WriteFails
    <3>2. ASSUME NEW by, WriteOk(h, by) PROVE DOMAIN files' = DOMAIN files
      <4>1. files' = Put(adds[call[h]].stamp, now', by)
        BY <3>2 DEF WriteOk
      <4>2. DOMAIN files' = DOMAIN files \cup {adds[call[h]].stamp}
        BY ONLY <4>1, PutFacts
      <4> QED BY <2>2, <4>2
    <3> QED BY <2>1, <3>1, <3>2
  <2> QED BY <1>1, <2>1, <2>4, <2>5, NamedIf
<1>7. ASSUME NEW h \in Handlers, ReadDir(h) PROVE Named'
  <2>1. /\ pc[h] = "read_dir" /\ pc' = [pc EXCEPT ![h] = "prune"]
        /\ doomed' = [doomed EXCEPT ![h] = Excess] /\ UNCHANGED <<files, call>>
    BY <1>7 DEF ReadDir
  <2>2. \A n : At(n, {"open"})' => At(n, {"open"})
    BY <1>4, <2>1 DEF Busy, Places
  <2>3. \A k \in Handlers : doomed'[k] \subseteq doomed[k] \cup DOMAIN files
    BY <2>1 DEF Excess, Types
  <2> QED BY <1>1, <2>1, <2>2, <2>3, NamedIf
<1>8. ASSUME NEW h \in Handlers, Prune(h) PROVE Named'
  <2>1. pc[h] = "prune" /\ Busy(h) /\ "idle" \in Places /\ UNCHANGED call
    BY <1>8 DEF Prune, Busy, Places
  <2>2. CASE EndAdd(h)
    <3>1. UNCHANGED <<files, doomed>> /\ pc' = [pc EXCEPT ![h] = "idle"]
      BY <2>2 DEF EndAdd
    <3>2. \A n : At(n, {"open"})' => At(n, {"open"})
      BY <1>4, <2>1, <3>1
    <3> QED BY <1>1, <3>1, <3>2, NamedIf
  <2>3. CASE RemoveOne(h, Open)
    <3>1. PICK f \in doomed[h] : /\ files' = IF f \in Open THEN files ELSE Without({f})
                                 /\ doomed' = [doomed EXCEPT ![h] = @ \ {f}] /\ UNCHANGED pc
      BY <2>3 DEF RemoveOne
    <3>2. \A n : At(n, {"open"})' => At(n, {"open"})
      BY <2>1, <3>1 DEF At
    <3>3. DOMAIN files' \subseteq DOMAIN files /\ \A k \in Handlers : doomed'[k] \subseteq doomed[k]
      BY <3>1, WithoutFacts DEF Types
    <3> QED BY <1>1, <3>2, <3>3, NamedIf
  <2> QED BY <1>8, <2>2, <2>3 DEF Prune
<1>9. CASE Crash
  <2>1. \A n : ~At(n, {"open"})'
    BY <1>9 DEF Crash, At
  <2>2. UNCHANGED files /\ \A k \in Handlers : doomed'[k] = {}
    BY <1>9 DEF Crash
  <2> QED BY <1>1, <2>1, <2>2, NamedIf
<1>10. CASE Reads
  <2>1. UNCHANGED <<files, doomed, call>> /\ \A k \in Handlers : pc'[k] = pc[k]
    BY <1>10, ReadsKeep, NotLister DEF Types
  <2>2. \A n : At(n, {"open"})' => At(n, {"open"})
    BY <2>1 DEF At
  <2> QED BY <1>1, <2>1, <2>2, NamedIf
<1> QED BY <1>3, <1>5, <1>6, <1>7, <1>8, <1>9, <1>10, Steps

------------------------------------------------------------------------------
(* Recent entries stay                                                       *)

LEMMA PlacesOfAdd ==
  /\ {"write"} \subseteq AddPlaces /\ {"write", "read_dir", "prune"} \subseteq AddPlaces
  /\ \A p \in AddPlaces : p \in Places
  /\ "idle" \in Places
BY DEF AddPlaces, Places

\* A step of a handler keeps the entries of all other calls, and that of its
\* own unless it opens or writes it.
LEMMA KeptIf ==
  ASSUME Types, Fixed, Kept,
         \A n \in Started' : Opened(n)' => n \in Started /\ Opened(n),
         \A n \in Started : Opened(n)' /\ Recent(n) /\ Safe(n) =>
            /\ Writing(n)' <=> Writing(n)
            /\ adds[n].stamp \in DOMAIN files' /\ files'[adds[n].stamp] = files[adds[n].stamp]
            /\ \A h \in Handlers : adds[n].stamp \notin doomed'[h]
            /\ \A g \in DOMAIN files' : \/ g \in DOMAIN files /\ files'[g] = files[g]
                                        \/ \E m \in Later(n) : adds[m].stamp = g
  PROVE  Kept'
<1> SUFFICES ASSUME NEW n \in Started', Opened(n)', Recent(n)' PROVE Safe(n)'
  BY DEF Kept
<1>1. n \in Started /\ Opened(n) /\ Recent(n)
  BY FixedCalls
<1>2. Safe(n)
  BY <1>1 DEF Kept
<1> QED BY <1>1, <1>2, SafeStep

\* An entry that has just been opened or written is the newest.
LEMMA SafeFresh ==
  ASSUME Types, Fixed, NEW n \in Started, now' \in Nat, now' > now, NEW by,
         files' = Put(adds[n].stamp, now', by), by = IF Writing(n)' THEN 0 ELSE n,
         \A h \in Handlers : adds[n].stamp \notin doomed'[h]
  PROVE  Safe(n)'
<1> DEFINE f == adds[n].stamp
<1>1. adds'[n].stamp = f
  BY DEF Fixed
<1>p. files' = Put(f, now', by)
  OBVIOUS
<1> HIDE DEF f
<1>2. /\ DOMAIN files' = DOMAIN files \cup {f} /\ files'[f].mtime = now' /\ files'[f].by = by
      /\ \A g \in DOMAIN files \ {f} : files'[g] = files[g]
  BY ONLY <1>p, PutFacts
<1>3. \A g \in DOMAIN files : files[g].mtime \in Nat /\ files[g].mtime <= now
  BY DEF Types
<1>4. now \in Nat
  BY DEF Types
<1>5. \A g \in DOMAIN files' : ~(files'[g].mtime > files'[f].mtime)
  <2> TAKE g \in DOMAIN files'
  <2>1. CASE g = f
    BY <1>2, <2>1
  <2>2. CASE g # f
    BY <1>2, <1>3, <1>4, <2>2
  <2> QED BY <2>1, <2>2
<1>6. Newer(adds[n].stamp)' = {}
  BY <1>1, <1>5 DEF Newer
<1>7. \A h \in Handlers : f \notin doomed'[h]
  BY DEF f
<1> QED BY <1>1, <1>2, <1>6, <1>7 DEF Safe

LEMMA OpenKeeps ==
  ASSUME Types, Working, Named, Kept, Fixed, NEW h \in Handlers, OpenFile(h), NEW c, c = call[h]
  PROVE  Kept'
<1>1. /\ pc[h] = "open" /\ pc' = [pc EXCEPT ![h] = "write"] /\ now' = now + 1
      /\ files' = Put(adds[c].stamp, now', 0) /\ UNCHANGED <<adds, call, doomed>>
  BY DEF OpenFile
<1>2. Busy(h) /\ "write" \in Places /\ now' \in Nat /\ now' > now
  BY <1>1 DEF Busy, Places, Types
<1>3. c \in Started /\ Started' = Started /\ Completed' = Completed
  BY <1>1, <1>2, AtWork DEF Started, Completed
<1>4. \A n : n # c => (Writing(n)' <=> Writing(n)) /\ (Opened(n)' <=> Opened(n))
  BY <1>1, <1>2, <1>3, CallMoves, PlacesOfAdd DEF Writing, Opened
<1>5. Writing(c)' /\ At(c, {"open"})
  <2>1. Writing(c)'
    BY <1>1, <1>2, CallMoves, PlacesOfAdd DEF Writing
  <2>2. At(c, {"open"})
    BY <1>1 DEF At
  <2> QED BY <2>1, <2>2
<1>6. ASSUME NEW n \in Started', Opened(n)', Recent(n)' PROVE Safe(n)'
  <2>1. n \in Started /\ Recent(n)
    BY <1>3, <1>6, FixedCalls
  <2>2. CASE n = c
    <3>1. \A k \in Handlers : adds[n].stamp \notin doomed[k]
      <4> SUFFICES ASSUME NEW k \in Handlers, adds[n].stamp \in doomed[k] PROVE FALSE
        OBVIOUS
      <4>1. PICK m \in Started : ~At(m, {"open"}) /\ adds[m].stamp = adds[n].stamp
        BY DEF Named
      <4>2. m \in SameFile(n)
        BY <1>5, <2>2, <4>1 DEF SameFile
      <4> QED BY <2>1, <4>2 DEF Recent
    <3>2. /\ files' = Put(adds[n].stamp, now', 0) /\ Writing(n)'
          /\ \A k \in Handlers : adds[n].stamp \notin doomed'[k]
      BY <1>1, <1>5, <2>2, <3>1
    <3>3. 0 = IF Writing(n)' THEN 0 ELSE n
      BY <3>2
    <3> QED BY <1>2, <2>1, <3>2, <3>3, SafeFresh
  <2>3. CASE n # c
    <3>1. Opened(n) /\ (Writing(n)' <=> Writing(n))
      BY <1>4, <1>6, <2>3
    <3>2. Safe(n)
      BY <2>1, <3>1 DEF Kept
    <3>3. c \in Later(n) /\ adds[c].stamp # adds[n].stamp
      BY <1>2, <2>1, <2>3, Others DEF Recent
    <3>4. /\ DOMAIN files' = DOMAIN files \cup {adds[c].stamp}
          /\ \A g \in DOMAIN files \ {adds[c].stamp} : files'[g] = files[g]
      BY <1>1, PutFacts
    <3>5. adds[n].stamp \in DOMAIN files /\ \A k \in Handlers : adds[n].stamp \notin doomed'[k]
      BY <1>1, <3>2 DEF Safe
    <3> QED BY <2>1, <3>1, <3>2, <3>3, <3>4, <3>5, SafeStep
  <2> QED BY <2>2, <2>3
<1> QED BY <1>6 DEF Kept

LEMMA WriteKeeps ==
  ASSUME Types, Working, Kept, Fixed, NEW h \in Handlers, pc[h] = "write", now' = now + 1,
         UNCHANGED <<call, doomed>>, NEW by, WriteOk(h, by), NEW c, c = call[h]
  PROVE  Kept'
<1>1. /\ by = c \/ (by = 0 /\ files[adds[c].stamp].by # 0)
      /\ files' = Put(adds[c].stamp, now', by) /\ pc' = [pc EXCEPT ![h] = "read_dir"] /\ UNCHANGED adds
  BY DEF WriteOk
<1>2. Busy(h) /\ "read_dir" \in Places /\ now' \in Nat /\ now' > now
  BY DEF Busy, Places, Types
<1>3. c \in Started /\ Started' = Started /\ Completed' = Completed
  BY <1>1, <1>2, AtWork DEF Started, Completed
<1>m. \A n, places : places \subseteq AddPlaces =>
         /\ n # c => (At(n, places)' <=> At(n, places))
         /\ n = c => (At(n, places)' <=> "read_dir" \in places) /\ (At(n, places) <=> "write" \in places)
  BY <1>1, <1>2, CallMoves
<1>4. \A n : n # c => (Writing(n)' <=> Writing(n)) /\ (Opened(n)' <=> Opened(n))
  BY <1>3, <1>m, PlacesOfAdd DEF Writing, Opened
<1>5. Writing(c) /\ ~Writing(c)' /\ Opened(c)
  <2>1. /\ At(c, {"write"}) /\ ~At(c, {"write"})'
        /\ At(c, {"write", "read_dir", "prune"})
    BY <1>m, PlacesOfAdd
  <2> QED BY <2>1 DEF Writing, Opened
<1>6. ASSUME NEW n \in Started', Opened(n)', Recent(n)' PROVE Safe(n)'
  <2>1. n \in Started /\ Recent(n)
    BY <1>3, <1>6, FixedCalls
  <2>2. Opened(n)
    BY <1>4, <1>5, <1>6
  <2>3. Safe(n)
    BY <2>1, <2>2 DEF Kept
  <2>4. CASE n = c
    <3>1. by = n /\ \A k \in Handlers : adds[n].stamp \notin doomed'[k]
      BY <1>1, <1>5, <2>3, <2>4 DEF Safe
    <3>2. files' = Put(adds[n].stamp, now', by) /\ ~Writing(n)'
      BY <1>1, <1>5, <2>4
    <3>3. by = IF Writing(n)' THEN 0 ELSE n
      BY <3>1, <3>2
    <3> QED BY <1>2, <2>1, <3>1, <3>2, <3>3, SafeFresh
  <2>5. CASE n # c
    <3>1. c \in Later(n) /\ adds[c].stamp # adds[n].stamp
      BY <1>2, <2>1, <2>5, Others DEF Recent
    <3>2. /\ DOMAIN files' = DOMAIN files \cup {adds[c].stamp}
          /\ \A g \in DOMAIN files \ {adds[c].stamp} : files'[g] = files[g]
      BY <1>1, PutFacts
    <3>3. adds[n].stamp \in DOMAIN files /\ \A k \in Handlers : adds[n].stamp \notin doomed'[k]
      BY <2>3 DEF Safe
    <3> QED BY <1>4, <2>1, <2>3, <2>5, <3>1, <3>2, <3>3, SafeStep
  <2> QED BY <2>4, <2>5
<1> QED BY <1>6 DEF Kept

LEMMA KeptStep == Types /\ Working /\ Named /\ Kept /\ [Next]_vars => Kept'
<1> SUFFICES ASSUME Types, Working, Named, Kept, [Next]_vars PROVE Kept'
  OBVIOUS
<1>1. Fixed
  BY WorkStep
<1>2. ASSUME NEW n \in Started, Safe(n), UNCHANGED files
      PROVE  /\ adds[n].stamp \in DOMAIN files' /\ files'[adds[n].stamp] = files[adds[n].stamp]
             /\ \A g \in DOMAIN files' : g \in DOMAIN files /\ files'[g] = files[g]
  BY <1>2 DEF Safe
<1>3. \A n \in Started : Safe(n) => \A k \in Handlers : adds[n].stamp \notin doomed[k]
  BY DEF Safe
<1>4. ASSUME NEW h \in Handlers, BeginAdd(h) PROVE Kept'
  <2>1. PICK c \in Calls \ Started :
          /\ adds' \in [Calls -> AddCall] /\ \A m \in Calls \ {c} : adds'[m] = adds[m]
          /\ adds'[c].state = "running" /\ call' = [call EXCEPT ![h] = c]
    BY <1>4, Begun
  <2>2. pc' = [pc EXCEPT ![h] = "open"] /\ pc[h] = "idle" /\ UNCHANGED <<files, doomed>>
    BY <1>4 DEF BeginAdd
  <2>3. \A g \in Handlers : /\ g = h => call'[g] = c /\ pc'[g] = "open"
                            /\ g # h => pc'[g] = pc[g] /\ call'[g] = call[g]
    BY <2>1, <2>2 DEF Types
  <2>4. Started' = Started \cup {c} /\ Completed' = Completed
    BY <2>1 DEF Started, Completed
  <2>5. \A n : (Writing(n)' <=> Writing(n)) /\ (At(n, {"write", "read_dir", "prune"})'
                                                <=> At(n, {"write", "read_dir", "prune"}))
    BY <2>2, <2>3 DEF Writing, At
  <2>6. \A n : Opened(n)' => Opened(n) /\ n \in Started
    BY <2>4, <2>5, AtRuns, Sets, PlacesOfAdd DEF Opened
  <2> QED BY <1>1, <1>2, <1>3, <2>2, <2>5, <2>6, KeptIf
<1>5. ASSUME NEW h \in Handlers, WriteFile(h) PROVE Kept'
  <2>1. pc[h] = "write" /\ now' = now + 1 /\ UNCHANGED <<call, doomed>>
        /\ (WriteFails(h) \/ \E by : WriteOk(h, by))
    BY <1>5, Wrote
  <2>2. ASSUME NEW by, WriteOk(h, by) PROVE Kept'
    BY <1>1, <2>1, <2>2, WriteKeeps
  <2>3. CASE WriteFails(h)
    <3>1. PICK c : c = call[h]
      OBVIOUS
    <3>2. c \in Calls /\ c \in Started /\ Busy(h)
      BY <2>1, <3>1, AtWork DEF Busy
    <3>3. /\ pc' = [pc EXCEPT ![h] = "idle"] /\ UNCHANGED files
          /\ adds' = [adds EXCEPT ![c].state = "failed"]
      BY <2>3, <3>1 DEF WriteFails
    <3>4. \A n \in Calls : adds'[n].state = IF n = c THEN "failed" ELSE adds[n].state
      BY <3>2, <3>3, StateSet
    <3>5. Started' = Started /\ c \notin Completed' /\ Completed' \subseteq Completed
      BY <3>2, <3>4 DEF Started, Completed
    <3>6. \A n, places : places \subseteq AddPlaces =>
             /\ n # c => (At(n, places)' <=> At(n, places))
             /\ n = c => ~At(n, places)'
      BY <2>1, <3>1, <3>2, <3>3, CallMoves, PlacesOfAdd DEF AddPlaces
    <3>7. \A n : Opened(n)' => n # c /\ Opened(n) /\ (Writing(n)' <=> Writing(n))
      BY <3>5, <3>6, PlacesOfAdd DEF Opened, Writing
    <3> QED BY <1>1, <1>2, <1>3, <2>1, <3>3, <3>5, <3>7, KeptIf
  <2> QED BY <2>1, <2>2, <2>3
<1>6. ASSUME NEW h \in Handlers, ReadDir(h) PROVE Kept'
  <2>1. /\ pc[h] = "read_dir" /\ doomed' = [doomed EXCEPT ![h] = Excess]
        /\ pc' = [pc EXCEPT ![h] = "prune"] /\ UNCHANGED <<files, adds, call>>
    BY <1>6 DEF ReadDir
  <2>2. Busy(h) /\ Started' = Started /\ Completed' = Completed
    BY <2>1 DEF Busy, Started, Completed
  <2>m. \A n, places : places \subseteq AddPlaces =>
           /\ n # call[h] => (At(n, places)' <=> At(n, places))
           /\ n = call[h] => (At(n, places)' <=> "prune" \in places)
                          /\ (At(n, places) <=> "read_dir" \in places)
    <3>1. "prune" \in Places
      BY DEF Places
    <3> QED BY <2>1, <2>2, <3>1, CallMoves
  <2>3. \A n, places : places \in {{"write"}, {"write", "read_dir", "prune"}} =>
           (At(n, places)' <=> At(n, places))
    <3> TAKE n, places
    <3>1. places \in {{"write"}, {"write", "read_dir", "prune"}} =>
            places \subseteq AddPlaces /\ ("prune" \in places <=> "read_dir" \in places)
      BY PlacesOfAdd
    <3> QED BY <2>m, <3>1
  <2>4. \A n : (Opened(n)' <=> Opened(n)) /\ (Writing(n)' <=> Writing(n))
    BY <2>2, <2>3 DEF Opened, Writing
  <2>5. \A n \in Started : Recent(n) /\ Safe(n) => \A k \in Handlers : adds[n].stamp \notin doomed'[k]
    BY <1>3, <2>1, NotExcess DEF Types
  <2> QED BY <1>1, <1>2, <2>1, <2>2, <2>4, <2>5, KeptIf
<1>7. ASSUME NEW h \in Handlers, Prune(h) PROVE Kept'
  <2>1. pc[h] = "prune" /\ Busy(h) /\ UNCHANGED call
    BY <1>7 DEF Prune, Busy
  <2>2. CASE EndAdd(h)
    <3>1. PICK c : c = call[h]
      OBVIOUS
    <3>2. c \in Calls /\ c \in Started
      BY <2>1, <3>1, AtWork
    <3>3. /\ pc' = [pc EXCEPT ![h] = "idle"] /\ UNCHANGED <<files, doomed>>
          /\ adds' = [adds EXCEPT ![c].state = "done"]
      BY <2>2, <3>1 DEF EndAdd
    <3>4. \A n \in Calls : adds'[n].state = IF n = c THEN "done" ELSE adds[n].state
      BY <3>2, <3>3, StateSet
    <3>5. Started' = Started /\ Completed' = Completed \cup {c}
      BY <3>2, <3>4 DEF Started, Completed
    <3>6. \A n, places : places \subseteq AddPlaces =>
             /\ n # c => (At(n, places)' <=> At(n, places))
             /\ n = c => ~At(n, places)' /\ (At(n, places) <=> "prune" \in places)
      <4>1. \A places : places \subseteq AddPlaces => "idle" \notin places
        BY DEF AddPlaces
      <4> TAKE n, places
      <4>2. ASSUME places \subseteq AddPlaces
            PROVE  /\ n # c => (At(n, places)' <=> At(n, places))
                   /\ n = c => (At(n, places)' <=> "idle" \in places)
                               /\ (At(n, places) <=> pc[h] \in places)
        BY <2>1, <3>1, <3>3, <4>2, CallMoves, PlacesOfAdd
      <4> QED BY <2>1, <4>1, <4>2
    <3>7. \A n : (Opened(n)' => Opened(n)) /\ (Writing(n)' <=> Writing(n))
      BY <3>5, <3>6, PlacesOfAdd DEF Opened, Writing
    <3> QED BY <1>1, <1>2, <1>3, <3>3, <3>5, <3>7, KeptIf
  <2>3. CASE RemoveOne(h, Open)
    <3>1. PICK f \in doomed[h] : /\ files' = IF f \in Open THEN files ELSE Without({f})
                                 /\ doomed' = [doomed EXCEPT ![h] = @ \ {f}] /\ UNCHANGED <<adds, pc>>
      BY <2>3 DEF RemoveOne
    <3>2. Started' = Started /\ \A n : (Opened(n)' <=> Opened(n)) /\ (Writing(n)' <=> Writing(n))
      BY <2>1, <3>1 DEF Started, Opened, Completed, Writing, At
    <3>3. /\ \A g \in DOMAIN files : g # f => g \in DOMAIN files'
          /\ \A g \in DOMAIN files' : g \in DOMAIN files /\ files'[g] = files[g]
      BY <3>1, WithoutFacts
    <3>4. \A n \in Started : Safe(n) =>
            /\ adds[n].stamp \in DOMAIN files' /\ files'[adds[n].stamp] = files[adds[n].stamp]
      BY <3>1, <3>3 DEF Safe
    <3>5. \A k \in Handlers : doomed'[k] \subseteq doomed[k]
      BY <3>1 DEF Types
    <3> QED BY <1>1, <1>3, <3>2, <3>3, <3>4, <3>5, KeptIf
  <2> QED BY <1>7, <2>2, <2>3 DEF Prune
<1>8. CASE Crash
  <2>1. \A n \in Calls : adds'[n].state = IF adds[n].state = "running" THEN "failed" ELSE adds[n].state
    BY <1>8, Crashed
  <2>2. Started' = Started /\ Completed' = Completed
    BY <2>1 DEF Started, Completed
  <2>3. \A n, places : places \subseteq AddPlaces => ~At(n, places)'
    BY <1>8 DEF Crash, At, AddPlaces
  <2>4. \A n : Opened(n)' => n \in Completed /\ Opened(n) /\ ~Writing(n)'
    BY <2>2, <2>3, PlacesOfAdd DEF Opened, Writing
  <2>5. \A n \in Completed : ~Writing(n)
    BY AtRuns, PlacesOfAdd DEF Writing, Completed
  <2>6. UNCHANGED files /\ \A k \in Handlers : doomed'[k] = {}
    BY <1>8 DEF Crash
  <2> QED BY <1>1, <1>2, <2>2, <2>4, <2>5, <2>6, KeptIf
<1>9. CASE Reads
  <2>1. UNCHANGED <<files, doomed, adds, call>> /\ \A k \in Handlers : pc'[k] = pc[k]
    BY <1>9, ReadsKeep, NotLister DEF Types
  <2>2. Started' = Started /\ \A n : (Opened(n)' <=> Opened(n)) /\ (Writing(n)' <=> Writing(n))
    BY <2>1 DEF Started, Opened, Completed, Writing, At
  <2> QED BY <1>1, <1>2, <1>3, <2>1, <2>2, KeptIf
<1>10. ASSUME NEW h \in Handlers, OpenFile(h) PROVE Kept'
  BY <1>1, <1>10, OpenKeeps
<1> QED BY <1>4, <1>5, <1>6, <1>7, <1>8, <1>9, <1>10, Steps

------------------------------------------------------------------------------
(* The listing                                                               *)

LEMMA ListingStep == Types /\ Working /\ Kept /\ Listing /\ [Next]_vars => Listing'
<1> SUFFICES ASSUME Types, Working, Kept, Listing, [Next]_vars PROVE Listing'
  OBVIOUS
<1>1. Fixed /\ Completed \subseteq Completed' /\ Completed \subseteq Started
  BY WorkStep, DoneStays, Sets
<1>2. \A n \in Completed : Recent(n)' => Recent(n) /\ adds'[n].stamp = adds[n].stamp
  BY <1>1, FixedCalls
\* What the listing will meet.
<1>3. ASSUME NEW n \in Completed, Recent(n)
      PROVE  adds[n].stamp \in DOMAIN files /\ adds[n].stamp # 0 /\ files[adds[n].stamp].by = n /\ n # 0
  <2>1. Safe(n) /\ ~Writing(n)
    BY <1>1, <1>3, AtRuns, PlacesOfAdd DEF Kept, Opened, Writing, Completed
  <2>2. n # 0 /\ adds[n].stamp \in 1..MaxStamp
    BY <1>1 DEF Working, Completed, Calls
  <2> QED BY <2>1, <2>2 DEF Safe
\* A step that leaves the listing alone.
<1>4. ASSUME UNCHANGED <<before, got, unread, reading>>, pc'[Lister] = pc[Lister] PROVE Listing'
  <2>1. before' \subseteq Completed'
    BY <1>1, <1>4 DEF Listing
  <2>2. pc'[Lister] = "listing" =>
          \A n \in before' : Recent(n)' =>
             n \in got' \/ adds'[n].stamp \in unread' \/ adds'[n].stamp = reading'
    BY <1>2, <1>4 DEF Listing
  <2> QED BY <2>1, <2>2 DEF Listing
<1>5. ASSUME NEW h \in Handlers,
             BeginAdd(h) \/ OpenFile(h) \/ WriteFile(h) \/ ReadDir(h) \/ Prune(h)
      PROVE  Listing'
  <2>1. UNCHANGED <<before, got, unread, reading>>
    BY <1>5 DEF BeginAdd, OpenFile, WriteFile, ReadDir, Prune
  <2>2. pc' = pc \/ \E p \in Places : pc' = [pc EXCEPT ![h] = p]
    BY <1>5 DEF BeginAdd, OpenFile, WriteFile, ReadDir, Prune, EndAdd, RemoveOne, Places
  <2>3. pc'[Lister] = pc[Lister]
    BY <2>2, NotLister DEF Types
  <2> QED BY <1>4, <2>1, <2>3
<1>6. CASE Crash
  <2>1. before' = {} /\ pc'[Lister] = "idle"
    BY <1>6 DEF Crash
  <2> QED BY <2>1 DEF Listing
<1>7. CASE BeginList
  <2>1. unread' = DOMAIN files /\ before' = Completed /\ UNCHANGED adds
    BY <1>7 DEF BeginList
  <2>2. \A n \in before' : Recent(n)' => adds'[n].stamp \in unread'
    BY <1>2, <1>3, <2>1
  <2> QED BY <1>1, <2>1, <2>2 DEF Listing
<1>8. CASE OpenEntry
  <2>1. PICK f \in unread : reading' = (IF f \in DOMAIN files THEN f ELSE 0) /\ unread' = unread \ {f}
    BY <1>8 DEF OpenEntry
  <2>2. reading = 0 /\ pc[Lister] = "listing" /\ UNCHANGED <<adds, pc, before, got>>
    BY <1>8 DEF OpenEntry
  <2>3. before' \subseteq Completed' /\ before' \subseteq Completed
    BY <1>1, <2>2 DEF Listing
  <2>4. ASSUME NEW n \in before', Recent(n)'
        PROVE  n \in got' \/ adds'[n].stamp \in unread' \/ adds'[n].stamp = reading'
    <3>1. n \in before /\ n \in Completed /\ Recent(n) /\ adds'[n].stamp = adds[n].stamp
      BY <1>2, <2>2, <2>3, <2>4
    <3>2. adds[n].stamp \in DOMAIN files /\ adds[n].stamp # reading
      BY <1>3, <2>2, <3>1
    <3>3. n \in got \/ adds[n].stamp \in unread
      BY <2>2, <3>1, <3>2 DEF Listing
    <3> QED BY <2>1, <2>2, <3>1, <3>2, <3>3
  <2> QED BY <2>3, <2>4 DEF Listing
<1>9. CASE ReadEntry
  <2>1. got' = (IF Readable THEN got \cup {files[reading].by} ELSE got)
        /\ UNCHANGED <<adds, pc, before, unread>>
    BY <1>9 DEF ReadEntry
  <2>2. before' \subseteq Completed' /\ before' \subseteq Completed
    BY <1>1, <2>1 DEF Listing
  <2>3. ASSUME NEW n \in before', Recent(n)', pc'[Lister] = "listing"
        PROVE  n \in got' \/ adds'[n].stamp \in unread' \/ adds'[n].stamp = reading'
    <3>1. n \in before /\ n \in Completed /\ Recent(n) /\ adds'[n].stamp = adds[n].stamp
      BY <1>2, <2>1, <2>2, <2>3
    <3>2. n \in got \/ adds[n].stamp \in unread \/ adds[n].stamp = reading
      BY <2>1, <2>3, <3>1 DEF Listing
    <3>3. CASE adds[n].stamp = reading
      BY <1>3, <2>1, <3>1, <3>3 DEF Readable
    <3> QED BY <2>1, <3>1, <3>2, <3>3
  <2> QED BY <2>2, <2>3 DEF Listing
<1>10. CASE EndList
  <2>1. pc' = [pc EXCEPT ![Lister] = "idle"] /\ UNCHANGED <<adds, before>>
    BY <1>10 DEF EndList
  <2>2. pc'[Lister] = "idle" /\ before' \subseteq Completed'
    BY <1>1, <2>1 DEF Types, Listing
  <2> QED BY <2>2 DEF Listing
<1>11. CASE UNCHANGED vars
  BY <1>4, <1>11 DEF vars
<1> QED BY <1>5, <1>6, <1>7, <1>8, <1>9, <1>10, <1>11, Steps DEF Reads, List

------------------------------------------------------------------------------
(* The size of the directory                                                 *)

\* The earliest of some times.
LEMMA Earliest ==
  ASSUME NEW T, T \subseteq Nat, T # {}
  PROVE  \E x \in T : \A y \in T : x <= y
<1>1. PICK x \in T : \A y \in T : ~(<<y, x>> \in OpToRel(<, Nat))
  BY NatLessThanWellFounded, WFMin
<1>2. ASSUME NEW y \in T, y < x PROVE FALSE
  <2>1. <<y, x>> \in OpToRel(<, Nat)
    BY <1>2 DEF OpToRel
  <2> QED BY <1>1, <2>1
<1>3. \A y \in T : x <= y
  BY <1>2
<1> QED BY <1>3

\* Names of files are few enough to count.
LEMMA FilesFinite ==
  ASSUME NEW S, S \subseteq 1..MaxStamp
  PROVE  IsFiniteSet(S) /\ Cardinality(S) \in Nat
<1>1. IsFiniteSet(1..MaxStamp)
  BY HistoryAssumption, FS_Interval
<1>2. IsFiniteSet(S)
  BY <1>1, FS_Subset
<1> QED BY <1>2, FS_CardinalityType

LEMMA FewFiles ==
  ASSUME NEW T, T \subseteq 1..MaxStamp, Cardinality(T) <= FileLimit, NEW S, S \subseteq T
  PROVE  Cardinality(S) <= FileLimit
<1>1. IsFiniteSet(T) /\ Cardinality(T) \in Nat /\ Cardinality(S) \in Nat
  BY FilesFinite
<1>2. Cardinality(S) <= Cardinality(T)
  BY <1>1, FS_Subset
<1> QED BY <1>1, <1>2, HistoryAssumption

\* What a listing does not give up for removal is within the limit: all of it
\* but the earliest file is newer than that file.
LEMMA ExcessLeaves ==
  ASSUME Types, Distinct
  PROVE  Cardinality(DOMAIN files \ Excess) <= FileLimit
<1> DEFINE S == DOMAIN files \ Excess
<1>1. S \subseteq DOMAIN files /\ S \subseteq 1..MaxStamp
  BY DEF Types
<1>2. \A f \in S : Cardinality(Newer(f)) \in Nat /\ Cardinality(Newer(f)) < FileLimit
  <2> SUFFICES ASSUME NEW f \in S
               PROVE  Cardinality(Newer(f)) \in Nat /\ Cardinality(Newer(f)) < FileLimit
    OBVIOUS
  <2>1. Cardinality(Newer(f)) \in Nat
    BY FilesFinite DEF Newer, Types
  <2>2. ~(Cardinality(Newer(f)) >= FileLimit)
    BY DEF Excess
  <2> QED BY <2>1, <2>2, HistoryAssumption
<1>3. FileLimit \in Nat /\ FileLimit > 0
  BY HistoryAssumption
<1>4. CASE S = {}
  BY <1>3, <1>4, FS_EmptySet
<1>5. CASE S # {}
  <2> DEFINE T == {files[f].mtime : f \in S}
  <2>1. \A f \in S : files[f].mtime \in Nat
    BY DEF Types
  <2>2. T \subseteq Nat /\ T # {}
    BY <1>5, <2>1
  <2>3. PICK t \in T : \A u \in T : t <= u
    BY <2>2, Earliest
  <2>4. PICK f \in S : \A g \in S : files[f].mtime <= files[g].mtime
    BY <2>3
  <2> HIDE DEF T
  <2>5. ASSUME NEW g \in S, g # f PROVE g \in Newer(f)
    <3>1. files[g].mtime # files[f].mtime
      BY <1>1, <2>5 DEF Distinct
    <3>2. files[g].mtime > files[f].mtime
      BY <2>1, <2>4, <3>1
    <3> QED BY <1>1, <3>2 DEF Newer
  <2> HIDE DEF S
  <2>6. S \ {f} \subseteq Newer(f)
    BY <2>5
  <2>7. IsFiniteSet(Newer(f)) /\ IsFiniteSet(S) /\ Cardinality(S) \in Nat /\ Cardinality(S \ {f}) \in Nat
    BY <1>1, FilesFinite DEF Newer, Types
  <2>8. Cardinality(S \ {f}) <= Cardinality(Newer(f))
    BY <2>6, <2>7, FS_Subset
  <2>9. Cardinality(S \ {f}) = Cardinality(S) - 1
    BY <2>7, FS_RemoveElement
  <2>10. Cardinality(Newer(f)) \in Nat /\ Cardinality(Newer(f)) < FileLimit
    BY <1>2
  <2>11. Cardinality(S) <= FileLimit
    BY <1>3, <2>7, <2>8, <2>9, <2>10
  <2> QED BY <2>11 DEF S
<1> QED BY <1>4, <1>5

LEMMA DistinctStep == Types /\ Working /\ Distinct /\ [Next]_vars => Distinct'
<1> SUFFICES ASSUME Types, Working, Distinct, [Next]_vars PROVE Distinct'
  OBVIOUS
<1>1. ASSUME NEW f, NEW by, now' = now + 1, files' = Put(f, now', by) PROVE Distinct'
  <2>1. /\ DOMAIN files' = DOMAIN files \cup {f} /\ files'[f].mtime = now'
        /\ \A g \in DOMAIN files \ {f} : files'[g] = files[g]
    BY ONLY <1>1, PutFacts
  <2>2. \A g \in DOMAIN files :
           files[g].mtime \in Nat /\ files[g].mtime <= now /\ files[g].mtime # now + 1
    BY DEF Types
  <2>3. \A g \in DOMAIN files' : g # f => /\ files'[g].mtime = files[g].mtime
                                          /\ files'[g].mtime # files'[f].mtime
    BY <1>1, <2>1, <2>2
  <2>4. \A g, k \in DOMAIN files' : files'[g].mtime = files'[k].mtime => g = k
    BY <2>1, <2>3 DEF Distinct
  <2> QED BY <2>4 DEF Distinct
<1>2. UNCHANGED files => Distinct'
  BY DEF Distinct
<1>3. ASSUME NEW h \in Handlers, OpenFile(h) PROVE Distinct'
  BY <1>1, <1>3 DEF OpenFile
<1>4. ASSUME NEW h \in Handlers, WriteFile(h) PROVE Distinct'
  BY <1>1, <1>2, <1>4, Wrote DEF WriteOk, WriteFails
<1>5. ASSUME NEW h \in Handlers, Prune(h) PROVE Distinct'
  <2>1. UNCHANGED files \/ \E f : files' = Without({f})
    BY <1>5 DEF Prune, EndAdd, RemoveOne
  <2>2. ASSUME NEW f, files' = Without({f}) PROVE Distinct'
    <3>1. DOMAIN files' = DOMAIN files \ {f} /\ \A g \in DOMAIN files \ {f} : files'[g] = files[g]
      BY ONLY <2>2, WithoutFacts
    <3> QED BY <3>1 DEF Distinct
  <2> QED BY <1>2, <2>1, <2>2
<1>6. ASSUME NEW h \in Handlers, BeginAdd(h) \/ ReadDir(h) PROVE UNCHANGED files
  BY <1>6 DEF BeginAdd, ReadDir
<1>7. Crash \/ Reads => UNCHANGED files
  BY ReadsKeep DEF Crash
<1> QED BY <1>2, <1>3, <1>4, <1>5, <1>6, <1>7, Steps

LEMMA ExpectedBegan ==
  ASSUME Types, Working, NEW rank, NEW r
  PROVE  Expected(rank, r) \subseteq Started
<1>1. \A n : At(n, {"write", "read_dir"}) => n \in Started
  BY AtRuns DEF AddPlaces
<1>2. \A h \in Handlers : Pruning(h) => call[h] \in Started
  BY AtWork DEF Pruning, Busy
<1>3. Failed \subseteq Started
  BY DEF Failed, Started
<1> QED BY <1>1, <1>2, <1>3 DEF Expected, Unpruned

\* Fewer files and more calls to expect them of leave a smaller surplus.
LEMMA SurplusShrinks ==
  ASSUME Types, Working, Fixed,
         NEW gone, NEW calls, calls \subseteq Started, Cardinality(Surplus(gone, calls)) <= FileLimit,
         NEW gone2, NEW calls2, calls \subseteq calls2,
         \A f \in DOMAIN files' \ (spared' \cup gone2) :
            \/ f \in DOMAIN files \ (spared \cup gone)
            \/ \E n \in calls2 : adds'[n].stamp = f
  PROVE  Cardinality(Surplus(gone2, calls2)') <= FileLimit
<1>1. \A n \in calls : adds'[n].stamp = adds[n].stamp
  BY DEF Fixed
<1>2. Surplus(gone2, calls2)' \subseteq Surplus(gone, calls)
  BY <1>1 DEF Surplus
<1>3. Surplus(gone, calls) \subseteq 1..MaxStamp
  BY DEF Surplus, Types
<1> QED BY <1>2, <1>3, FewFiles

\* A step that leaves the order of the listings alone.
LEMMA RankedIf ==
  ASSUME Types, Working, Fixed, NEW rank \in [Handlers -> Nat], NEW base \in Nat, NEW top \in Nat,
         Ranked(rank, base, top),
         \A h \in Handlers : Pruning(h)' => Pruning(h),
         \A r \in Nat : Expected(rank, r) \subseteq Expected(rank, r)',
         \A f \in DOMAIN files' \ spared' :
            f \in DOMAIN files \ spared \/ \E n \in Unpruned' : adds'[n].stamp = f,
         \A h \in Handlers : Pruning(h)' => \A f \in DOMAIN files' \ spared' :
            f \in doomed[h] => f \in doomed'[h] \/ \E n \in Unpruned' : adds'[n].stamp = f
  PROVE  Ranked(rank, base, top)'
<1>1. \A r : Unpruned' \subseteq Expected(rank, r)'
  BY DEF Expected
<1>2. \A r : Expected(rank, r) \subseteq Started
  BY ExpectedBegan
<1>3. Cardinality(Surplus({}, Expected(rank, base))') <= FileLimit
  <2>1. PICK L, M : L = Expected(rank, base) /\ M = Expected(rank, base)'
    OBVIOUS
  <2>2. /\ Cardinality(Surplus({}, L)) <= FileLimit /\ L \subseteq Started /\ L \subseteq M
        /\ Unpruned' \subseteq M
    BY <1>1, <1>2, <2>1 DEF Ranked
  <2>3. Cardinality(Surplus({}, M)') <= FileLimit
    BY <2>2, SurplusShrinks
  <2> QED BY <2>1, <2>3 DEF Surplus
<1>4. ASSUME NEW h \in Handlers, Pruning(h)'
      PROVE  Cardinality(Surplus(doomed[h], Expected(rank, rank[h]))') <= FileLimit
  <2>1. PICK L, M, D, E : /\ L = Expected(rank, rank[h]) /\ M = Expected(rank, rank[h])'
                          /\ D = doomed[h] /\ E = doomed'[h]
    OBVIOUS
  <2>2. /\ Cardinality(Surplus(D, L)) <= FileLimit /\ L \subseteq Started /\ L \subseteq M
        /\ Unpruned' \subseteq M
    BY <1>1, <1>2, <1>4, <2>1 DEF Ranked
  <2>3. \A f \in DOMAIN files' \ (spared' \cup E) :
           f \in DOMAIN files \ (spared \cup D) \/ \E n \in M : adds'[n].stamp = f
    BY <1>4, <2>1, <2>2
  <2>4. Cardinality(Surplus(E, M)') <= FileLimit
    BY <2>2, <2>3, SurplusShrinks
  <2> QED BY <2>1, <2>4 DEF Surplus
<1> QED BY <1>3, <1>4 DEF Ranked

\* A handler moves on, but neither lists the directory nor ends its call.
LEMMA ExpectedMoves ==
  ASSUME Types, Working, NEW h \in Handlers, Busy(h), NEW p \in Places,
         pc' = [pc EXCEPT ![h] = p], UNCHANGED call, pc[h] \in {"open", "write"}, p # "prune",
         \A n \in Failed : n \in Failed',
         \/ p \in {"write", "read_dir"}
         \/ call[h] \in Failed'
  PROVE  /\ \A k \in Handlers : Pruning(k)' => Pruning(k)
         /\ \A rank, r : Expected(rank, r) \subseteq Expected(rank, r)'
<1>1. \A k \in Handlers : pc'[k] = IF k = h THEN p ELSE pc[k]
  BY Moved
<1>2. \A k \in Handlers : Pruning(k)' <=> Pruning(k)
  BY <1>1 DEF Pruning
<1>3. \A n : At(n, {"write", "read_dir"}) => At(n, {"write", "read_dir"})' \/ n \in Failed'
  BY <1>1 DEF At
<1>4. Unpruned \subseteq Unpruned'
  BY <1>3 DEF Unpruned
<1>5. \A rank, r : Expected(rank, r) \subseteq Expected(rank, r)'
  <2> TAKE rank, r
  <2>1. \A n, k : k \in Handlers /\ Pruning(k) /\ rank[k] > r /\ call[k] = n =>
                    Pruning(k)' /\ rank[k] > r /\ call'[k] = n
    BY <1>2
  <2> QED BY <1>4, <2>1 DEF Expected
<1> QED BY <1>2, <1>5

LEMMA OpenBounded ==
  ASSUME Types, Working, Fixed, NEW rank \in [Handlers -> Nat], NEW base \in Nat, NEW top \in Nat,
         Ranked(rank, base, top), NEW h \in Handlers, OpenFile(h)
  PROVE  Ranked(rank, base, top)'
<1>1. /\ pc[h] = "open" /\ pc' = [pc EXCEPT ![h] = "write"]
      /\ files' = Put(adds[call[h]].stamp, now', 0) /\ UNCHANGED <<adds, call, doomed, spared>>
  BY DEF OpenFile
<1>2. Busy(h) /\ "write" \in Places /\ DOMAIN files' = DOMAIN files \cup {adds[call[h]].stamp}
  BY <1>1, PutFacts DEF Busy, Places
<1>3. Failed' = Failed
  BY <1>1 DEF Failed
<1>4. /\ \A k \in Handlers : Pruning(k)' => Pruning(k)
      /\ \A r \in Nat : Expected(rank, r) \subseteq Expected(rank, r)'
  BY <1>1, <1>2, <1>3, ExpectedMoves
<1>5. \E n \in Unpruned' : adds'[n].stamp = adds[call[h]].stamp
  <2>1. PICK c : c = call[h]
    OBVIOUS
  <2>2. c \in Calls /\ call'[h] = c /\ pc'[h] = "write"
    BY <1>1, <1>2, <2>1, AtWork DEF Types
  <2>3. c \in Unpruned'
    BY <2>2 DEF Unpruned, At
  <2> QED BY <1>1, <2>1, <2>3
<1> QED BY <1>1, <1>2, <1>4, <1>5, RankedIf

LEMMA WriteBounded ==
  ASSUME Types, Working, Fixed, NEW rank \in [Handlers -> Nat], NEW base \in Nat, NEW top \in Nat,
         Ranked(rank, base, top), NEW h \in Handlers, WriteFile(h)
  PROVE  Ranked(rank, base, top)'
<1>1. /\ pc[h] = "write" /\ UNCHANGED <<call, doomed, spared>>
      /\ WriteFails(h) \/ \E by : WriteOk(h, by)
  BY Wrote
<1>2. Busy(h) /\ {"read_dir", "idle"} \subseteq Places /\ adds[call[h]].stamp \in DOMAIN files
  BY <1>1 DEF Busy, Places, Working
<1>3. CASE WriteFails(h)
  <2>1. PICK c : c = call[h]
    OBVIOUS
  <2>2. c \in Calls
    BY <1>2, <2>1, AtWork
  <2>3. pc' = [pc EXCEPT ![h] = "idle"] /\ UNCHANGED files /\ adds' = [adds EXCEPT ![c].state = "failed"]
    BY <1>3, <2>1 DEF WriteFails
  <2>4. Failed' = Failed \cup {c}
    <3>1. \A n \in Calls : adds'[n].state = IF n = c THEN "failed" ELSE adds[n].state
      BY <2>2, <2>3, StateSet
    <3> QED BY <2>2, <3>1 DEF Failed
  <2>5. /\ \A k \in Handlers : Pruning(k)' => Pruning(k)
        /\ \A r \in Nat : Expected(rank, r) \subseteq Expected(rank, r)'
    BY <1>1, <1>2, <2>1, <2>3, <2>4, ExpectedMoves
  <2> QED BY <1>1, <2>3, <2>5, RankedIf
<1>4. ASSUME NEW by, WriteOk(h, by) PROVE Ranked(rank, base, top)'
  <2>1. /\ files' = Put(adds[call[h]].stamp, now', by) /\ pc' = [pc EXCEPT ![h] = "read_dir"]
        /\ UNCHANGED adds
    BY <1>4 DEF WriteOk
  <2>2. DOMAIN files' = DOMAIN files \cup {adds[call[h]].stamp}
    BY ONLY <2>1, PutFacts
  <2>3. Failed' = Failed /\ DOMAIN files' = DOMAIN files
    BY <1>2, <2>1, <2>2 DEF Failed
  <2>4. /\ \A k \in Handlers : Pruning(k)' => Pruning(k)
        /\ \A r \in Nat : Expected(rank, r) \subseteq Expected(rank, r)'
    BY <1>1, <1>2, <2>1, <2>3, ExpectedMoves
  <2> QED BY <1>1, <2>3, <2>4, RankedIf
<1> QED BY <1>1, <1>3, <1>4

\* Who lists the directory comes last in the order.
LEMMA ReadBounded ==
  ASSUME Types, Working, Fixed, Distinct,
         NEW rank \in [Handlers -> Nat], NEW base \in Nat, NEW top \in Nat,
         Ranked(rank, base, top), NEW h \in Handlers, ReadDir(h)
  PROVE  Ranked([rank EXCEPT ![h] = top + 1], base, top + 1)'
<1>1. /\ pc[h] = "read_dir" /\ doomed' = [doomed EXCEPT ![h] = Excess]
      /\ pc' = [pc EXCEPT ![h] = "prune"] /\ UNCHANGED <<files, adds, call, spared>>
  BY DEF ReadDir
<1>2. PICK rank2 \in [Handlers -> Nat] : rank2 = [rank EXCEPT ![h] = top + 1]
  <2>1. top + 1 \in Nat
    OBVIOUS
  <2>2. [rank EXCEPT ![h] = top + 1] \in [Handlers -> Nat]
    BY <2>1
  <2> QED BY <2>2
<1>3. /\ \A k \in Handlers : pc'[k] = IF k = h THEN "prune" ELSE pc[k]
      /\ \A k \in Handlers : rank2[k] = IF k = h THEN top + 1 ELSE rank[k]
      /\ \A k \in Handlers : doomed'[k] = IF k = h THEN Excess ELSE doomed[k]
  BY <1>1, <1>2 DEF Types
<1>4. \A k \in Handlers : Pruning(k) => k # h /\ Pruning(k)' /\ rank2[k] = rank[k]
  BY <1>1, <1>3 DEF Pruning
<1>5. ASSUME NEW r \in Nat, r <= top PROVE Expected(rank, r) \subseteq Expected(rank2, r)'
  <2>1. Failed' = Failed
    BY <1>1 DEF Failed
  <2>2. ASSUME NEW n \in Calls, At(n, {"write", "read_dir"})
        PROVE  At(n, {"write", "read_dir"})' \/ (Pruning(h)' /\ rank2[h] > r /\ call'[h] = n)
    <3>1. PICK k \in Handlers : call[k] = n /\ pc[k] \in {"write", "read_dir"}
      BY <2>2 DEF At
    <3>2. CASE k = h
      BY <1>1, <1>3, <1>5, <3>1, <3>2 DEF Pruning
    <3>3. CASE k # h
      BY <1>1, <1>3, <3>1, <3>3 DEF At
    <3> QED BY <3>2, <3>3
  <2>3. \A k \in Handlers : Pruning(k) /\ rank[k] > r =>
                              Pruning(k)' /\ rank2[k] > r /\ call'[k] = call[k]
    BY <1>1, <1>4
  <2>4. Unpruned \subseteq Expected(rank2, r)'
    BY <2>1, <2>2 DEF Unpruned, Expected
  <2>5. \A n \in Calls : (\E k \in Handlers : Pruning(k) /\ rank[k] > r /\ call[k] = n)
                            => n \in Expected(rank2, r)'
    BY <2>3 DEF Expected
  <2> QED BY <2>4, <2>5 DEF Expected
<1>6. ASSUME NEW r \in Nat, r <= top, NEW D, Cardinality(Surplus(D, Expected(rank, r))) <= FileLimit
      PROVE  Cardinality(Surplus(D, Expected(rank2, r))') <= FileLimit
  <2>1. PICK L, M : L = Expected(rank, r) /\ M = Expected(rank2, r)'
    OBVIOUS
  <2>2. L \subseteq Started /\ L \subseteq M /\ Cardinality(Surplus(D, L)) <= FileLimit
    BY <1>5, <1>6, <2>1, ExpectedBegan
  <2>3. Cardinality(Surplus(D, M)') <= FileLimit
    BY <1>1, <2>2, SurplusShrinks
  <2> QED BY <2>1, <2>3 DEF Surplus
<1>7. base <= top /\ \A k \in Handlers : rank[k] <= top /\ rank[k] \in Nat
  BY DEF Ranked
<1>8. base <= top + 1 /\ \A k \in Handlers : rank2[k] <= top + 1
  BY <1>3, <1>7
<1>9. Cardinality(Surplus({}, Expected(rank2, base))') <= FileLimit
  BY <1>6, <1>7 DEF Ranked
<1>10. ASSUME NEW k \in Handlers, Pruning(k)'
       PROVE  Cardinality(Surplus(doomed[k], Expected(rank2, rank2[k]))') <= FileLimit
  <2>1. CASE k = h
    <3>1. Surplus(doomed[k], Expected(rank2, rank2[k]))' \subseteq DOMAIN files \ Excess
      BY <1>1, <1>3, <2>1 DEF Surplus
    <3>2. DOMAIN files \ Excess \subseteq 1..MaxStamp
      BY DEF Types
    <3> QED BY <3>1, <3>2, ExcessLeaves, FewFiles
  <2>2. CASE k # h
    <3>1. PICK D, r : D = doomed[k] /\ r = rank[k]
      OBVIOUS
    <3>2. Pruning(k) /\ D = doomed'[k] /\ r = rank2[k] /\ r \in Nat /\ r <= top
      BY <1>3, <1>7, <1>10, <2>2, <3>1 DEF Pruning
    <3>3. Cardinality(Surplus(D, Expected(rank2, r))') <= FileLimit
      BY <1>6, <3>1, <3>2 DEF Ranked
    <3> QED BY <3>2, <3>3 DEF Surplus
  <2> QED BY <2>1, <2>2
<1>11. Ranked(rank2, base, top + 1)'
  BY <1>8, <1>9, <1>10 DEF Ranked
<1> QED BY <1>2, <1>11

LEMMA RemoveBounded ==
  ASSUME Types, Working, Fixed, NEW rank \in [Handlers -> Nat], NEW base \in Nat, NEW top \in Nat,
         Ranked(rank, base, top), NEW h \in Handlers, RemoveOne(h, Open), UNCHANGED call
  PROVE  Ranked(rank, base, top)'
<1>1. PICK f \in doomed[h] : /\ files' = IF f \in Open THEN files ELSE Without({f})
                             /\ spared' = IF f = reading THEN spared \cup {f} ELSE spared \ {f}
                             /\ doomed' = [doomed EXCEPT ![h] = @ \ {f}]
                             /\ UNCHANGED <<adds, pc>>
  BY DEF RemoveOne
<1>2. Unpruned' = Unpruned /\ \A k \in Handlers : Pruning(k)' <=> Pruning(k)
  BY <1>1 DEF Unpruned, Failed, At, Pruning
<1>3. \A r \in Nat : Expected(rank, r) \subseteq Expected(rank, r)'
  BY <1>2 DEF Expected
\* What is refused belongs to an Add that has yet to prune, or to the listing.
<1>4. f \in DOMAIN files' \ spared' => \E n \in Unpruned' : adds'[n].stamp = f
  <2> SUFFICES ASSUME f \in DOMAIN files' \ spared' PROVE \E n \in Unpruned' : adds'[n].stamp = f
    OBVIOUS
  <2>1. f # reading /\ f \in Open
    BY <1>1, WithoutFacts
  <2>2. PICK k \in Handlers : pc[k] = "write" /\ adds[call[k]].stamp = f
    BY <2>1 DEF Open
  <2>3. PICK c : c = call[k]
    OBVIOUS
  <2>4. c \in Calls
    BY <2>2, <2>3, AtWork DEF Busy
  <2>5. c \in Unpruned
    BY <2>2, <2>3, <2>4 DEF Unpruned, At
  <2> QED BY <1>1, <1>2, <2>2, <2>3, <2>5
<1>5. DOMAIN files' \subseteq DOMAIN files
  BY <1>1, WithoutFacts
<1>6. \A g \in DOMAIN files' \ spared' :
         g \in DOMAIN files \ spared \/ \E n \in Unpruned' : adds'[n].stamp = g
  BY <1>1, <1>4, <1>5
<1>7. \A k \in Handlers : \A g \in DOMAIN files' \ spared' :
         g \in doomed[k] => g \in doomed'[k] \/ \E n \in Unpruned' : adds'[n].stamp = g
  <2>1. \A k \in Handlers : \A g \in doomed[k] : g # f => g \in doomed'[k]
    BY <1>1 DEF Types
  <2> QED BY <1>4, <2>1
<1> QED BY <1>2, <1>3, <1>6, <1>7, RankedIf

\* A pruning that is completed stands for all that listed the directory before.
LEMMA EndBounded ==
  ASSUME Types, Working, Fixed, NEW rank \in [Handlers -> Nat], NEW base \in Nat, NEW top \in Nat,
         Ranked(rank, base, top), NEW h \in Handlers, pc[h] = "prune", EndAdd(h), UNCHANGED call
  PROVE  Bounded'
<1>1. PICK c : c = call[h]
  OBVIOUS
<1>2. /\ doomed[h] = {} /\ pc' = [pc EXCEPT ![h] = "idle"] /\ UNCHANGED <<files, doomed, spared>>
      /\ adds' = [adds EXCEPT ![c].state = "done"]
  BY <1>1 DEF EndAdd
<1>3. Busy(h) /\ Pruning(h) /\ c \in Calls /\ "idle" \in Places /\ adds[c].state = "running"
  BY <1>1, AtWork DEF Busy, Pruning, Places
<1>4. Failed' = Failed
  BY <1>2, <1>3, StateSet DEF Failed
<1>5. \A k \in Handlers : pc'[k] = IF k = h THEN "idle" ELSE pc[k]
  BY <1>2, <1>3, Moved
<1>6. \A k \in Handlers : (Pruning(k)' => Pruning(k)) /\ (Pruning(k) /\ k # h => Pruning(k)')
  BY <1>5 DEF Pruning
<1>7. \A n : At(n, {"write", "read_dir"}) => At(n, {"write", "read_dir"})'
  BY <1>5 DEF At
<1>8. Unpruned \subseteq Unpruned'
  BY <1>4, <1>7 DEF Unpruned
<1> DEFINE Up(v) == IF v < rank[h] THEN rank[h] ELSE v
           rank2 == [k \in Handlers |-> Up(rank[k])]
<1>9. /\ base <= top /\ rank[h] \in Nat /\ rank[h] <= top
      /\ \A k \in Handlers : rank[k] \in Nat /\ rank[k] <= top
  BY DEF Ranked
<1>10. \A v \in Nat : /\ Up(v) \in Nat /\ Up(v) >= rank[h] /\ (v <= top => Up(v) <= top)
                      /\ Up(v) = v \/ Up(v) = rank[h]
                      /\ v > rank[h] => Up(v) = v
  BY <1>9
<1>11. rank2 \in [Handlers -> Nat] /\ \A k \in Handlers : rank2[k] = Up(rank[k])
  BY <1>9, <1>10
<1> HIDE DEF Up, rank2
<1>12. ASSUME NEW r \in Nat, r >= rank[h] PROVE Expected(rank, r) \subseteq Expected(rank2, r)'
  <2>1. \A k \in Handlers : Pruning(k) /\ rank[k] > r =>
                              Pruning(k)' /\ rank2[k] > r /\ call'[k] = call[k]
    <3> SUFFICES ASSUME NEW k \in Handlers, Pruning(k), rank[k] > r
                 PROVE  Pruning(k)' /\ rank2[k] > r /\ call'[k] = call[k]
      OBVIOUS
    <3>1. rank[k] > rank[h] /\ k # h
      BY <1>9, <1>12
    <3>2. rank2[k] = rank[k]
      BY <1>9, <1>10, <1>11, <3>1
    <3> QED BY <1>6, <3>1, <3>2
  <2> QED BY <1>8, <2>1 DEF Expected
<1>13. ASSUME NEW v \in Nat, NEW D, Cardinality(Surplus(D, Expected(rank, v))) <= FileLimit
       PROVE  Cardinality(Surplus(D, Expected(rank2, Up(v)))') <= FileLimit
  <2>1. PICK r : r = Up(v)
    OBVIOUS
  <2>2. PICK L, M : L = Expected(rank, r) /\ M = Expected(rank2, r)'
    OBVIOUS
  <2>3. r \in Nat /\ r >= rank[h] /\ (r = v \/ r = rank[h])
    BY <1>10, <2>1
  <2>4. L \subseteq Started /\ L \subseteq M
    BY <1>12, <2>2, <2>3, ExpectedBegan
  <2>5. CASE r = v
    <3>1. Cardinality(Surplus(D, M)') <= FileLimit
      BY <1>2, <1>13, <2>2, <2>4, <2>5, SurplusShrinks
    <3> QED BY <2>1, <2>2, <3>1 DEF Surplus
  <2>6. CASE r = rank[h]
    <3>1. Cardinality(Surplus({}, L)) <= FileLimit
      BY <1>2, <1>3, <2>2, <2>6 DEF Ranked
    <3>2. Cardinality(Surplus(D, M)') <= FileLimit
      BY <1>2, <2>4, <3>1, SurplusShrinks
    <3> QED BY <2>1, <2>2, <3>2 DEF Surplus
  <2> QED BY <2>3, <2>5, <2>6
<1>14. PICK base2 \in Nat : base2 = Up(base)
  BY <1>10
<1>15. base2 <= top /\ \A k \in Handlers : rank2[k] <= top
  BY <1>9, <1>10, <1>11, <1>14
<1>16. Cardinality(Surplus({}, Expected(rank2, base2))') <= FileLimit
  <2>1. Cardinality(Surplus({}, Expected(rank, base))) <= FileLimit
    BY DEF Ranked
  <2> QED BY <1>13, <1>14, <2>1
<1>17. ASSUME NEW k \in Handlers, Pruning(k)'
       PROVE  Cardinality(Surplus(doomed[k], Expected(rank2, rank2[k]))') <= FileLimit
  <2>1. PICK D, v : D = doomed[k] /\ v = rank[k]
    OBVIOUS
  <2>2. /\ v \in Nat /\ D = doomed'[k] /\ rank2[k] = Up(v)
        /\ Cardinality(Surplus(D, Expected(rank, v))) <= FileLimit
    BY <1>2, <1>6, <1>9, <1>11, <1>17, <2>1 DEF Ranked
  <2>3. Cardinality(Surplus(D, Expected(rank2, Up(v)))') <= FileLimit
    BY <1>13, <2>2
  <2> QED BY <2>2, <2>3 DEF Surplus
<1>18. Ranked(rank2, base2, top)'
  BY <1>15, <1>16, <1>17 DEF Ranked
<1> QED BY <1>11, <1>14, <1>18 DEF Bounded

LEMMA BoundedStep == Types /\ Working /\ Distinct /\ Bounded /\ [Next]_vars => Bounded'
<1> SUFFICES ASSUME Types, Working, Distinct, Bounded, [Next]_vars PROVE Bounded'
  OBVIOUS
<1>1. Fixed
  BY WorkStep
<1>2. PICK rank \in [Handlers -> Nat], base \in Nat, top \in Nat : Ranked(rank, base, top)
  BY DEF Bounded
<1>3. Ranked(rank, base, top)' => Bounded'
  BY DEF Bounded
\* Steps after which the same calls may leave the same files.
<1>4. ASSUME UNCHANGED <<files, spared, doomed>>, Failed' = Failed,
             \A k \in Handlers : Pruning(k)' <=> Pruning(k),
             \A k \in Handlers : Pruning(k) => call'[k] = call[k],
             \A n : At(n, {"write", "read_dir"})' <=> At(n, {"write", "read_dir"})
      PROVE  Bounded'
  <2>1. Unpruned' = Unpruned
    BY <1>4 DEF Unpruned
  <2>2. \A r \in Nat : Expected(rank, r) \subseteq Expected(rank, r)'
    BY <1>4, <2>1 DEF Expected
  <2> QED BY <1>1, <1>2, <1>3, <1>4, <2>2, RankedIf
<1>5. ASSUME NEW h \in Handlers, BeginAdd(h) PROVE Bounded'
  <2>1. PICK c \in Calls \ Started :
          /\ \A m \in Calls \ {c} : adds'[m] = adds[m]
          /\ adds'[c].state = "running" /\ call' = [call EXCEPT ![h] = c]
    BY <1>5, Begun
  <2>2. /\ pc' = [pc EXCEPT ![h] = "open"] /\ pc[h] = "idle" /\ UNCHANGED <<files, spared, doomed>>
    BY <1>5 DEF BeginAdd
  <2>3. \A g \in Handlers : /\ g = h => pc'[g] = "open"
                            /\ g # h => pc'[g] = pc[g] /\ call'[g] = call[g]
    BY <2>1, <2>2 DEF Types
  <2>4. Failed' = Failed
    BY <2>1 DEF Failed, Started
  <2>5. \A k \in Handlers : (Pruning(k)' <=> Pruning(k)) /\ (Pruning(k) => call'[k] = call[k])
    BY <2>2, <2>3 DEF Pruning
  <2>6. \A n : At(n, {"write", "read_dir"})' <=> At(n, {"write", "read_dir"})
    BY <2>2, <2>3 DEF At
  <2> QED BY <1>4, <2>2, <2>4, <2>5, <2>6
<1>6. CASE Reads
  <2>1. UNCHANGED <<files, spared, doomed, adds, call>> /\ \A k \in Handlers : pc'[k] = pc[k]
    BY <1>6, ReadsKeep, NotLister DEF Types
  <2>2. Failed' = Failed
    BY <2>1 DEF Failed
  <2>3. \A k \in Handlers : (Pruning(k)' <=> Pruning(k)) /\ (Pruning(k) => call'[k] = call[k])
    BY <2>1 DEF Pruning
  <2>4. \A n : At(n, {"write", "read_dir"})' <=> At(n, {"write", "read_dir"})
    BY <2>1 DEF At
  <2> QED BY <1>4, <2>1, <2>2, <2>3, <2>4
<1>7. CASE Crash
  <2>1. \A n \in Calls : adds'[n].state = IF adds[n].state = "running" THEN "failed" ELSE adds[n].state
    BY <1>7, Crashed
  <2>2. UNCHANGED <<files, spared>> /\ \A k \in Handlers : pc'[k] = "idle"
    BY <1>7 DEF Crash
  <2>3. ASSUME NEW r PROVE Expected(rank, r) \subseteq Expected(rank, r)'
    <3>1. \A n : At(n, {"write", "read_dir"}) => n \in Calls /\ adds[n].state = "running"
      BY AtRuns DEF AddPlaces
    <3>2. \A k \in Handlers : Pruning(k) => call[k] \in Calls /\ adds[call[k]].state = "running"
      BY AtWork DEF Pruning, Busy
    <3>3. \A n \in Expected(rank, r) : n \in Calls /\ adds[n].state \in {"running", "failed"}
      BY <3>1, <3>2 DEF Expected, Unpruned, Failed
    <3> QED BY <2>1, <3>3 DEF Expected, Unpruned, Failed
  <2>4. \A k \in Handlers : ~Pruning(k)'
    BY <2>2 DEF Pruning
  <2> QED BY <1>1, <1>2, <1>3, <2>2, <2>3, <2>4, RankedIf
<1>8. ASSUME NEW h \in Handlers, ReadDir(h) PROVE Bounded'
  <2>1. Ranked([rank EXCEPT ![h] = top + 1], base, top + 1)'
    BY <1>1, <1>2, <1>8, ReadBounded
  <2>2. top + 1 \in Nat
    OBVIOUS
  <2>3. [rank EXCEPT ![h] = top + 1] \in [Handlers -> Nat]
    BY <2>2
  <2> QED BY <2>1, <2>2, <2>3 DEF Bounded
<1>9. ASSUME NEW h \in Handlers, Prune(h) PROVE Bounded'
  BY <1>1, <1>2, <1>3, <1>9, RemoveBounded, EndBounded DEF Prune
<1>10. ASSUME NEW h \in Handlers, OpenFile(h) \/ WriteFile(h) PROVE Bounded'
  BY <1>1, <1>2, <1>3, <1>10, OpenBounded, WriteBounded
<1> QED BY <1>5, <1>6, <1>7, <1>8, <1>9, <1>10, Steps

------------------------------------------------------------------------------
(* The theorems                                                              *)

LEMMA InvInit == Init => IInv
<1> SUFFICES ASSUME Init PROVE IInv
  OBVIOUS
<1>1. /\ DOMAIN files = {} /\ now = 0 /\ stamp = 1 /\ reading = 0
      /\ unread = {} /\ spared = {} /\ before = {}
  BY DEF Init
<1>2. adds \in [Calls -> AddCall] /\ \A n \in Calls : adds[n].state = "none"
  <2>1. 0 \in 0..MaxStamp
    BY HistoryAssumption
  <2> QED BY <2>1 DEF Init, AddCall
<1>3. /\ pc \in [Handlers \cup {Lister} -> Places] /\ \A h \in Handlers \cup {Lister} : pc[h] = "idle"
      /\ call \in [Handlers -> Calls \cup {0}]
      /\ doomed \in [Handlers -> SUBSET (1..MaxStamp)] /\ \A h \in Handlers : doomed[h] = {}
  BY DEF Init, Places
<1>4. 0 \in Nat /\ 1 \in 1..MaxStamp /\ 0 \in 0..MaxStamp
  BY HistoryAssumption
<1>5. Types
  BY <1>1, <1>2, <1>3, <1>4 DEF Types
<1>6. Started = {} /\ Completed = {}
  BY <1>2 DEF Started, Completed
<1>7. Working
  BY <1>1, <1>3, <1>6 DEF Working, Busy
<1>8. Named /\ Kept /\ Listing
  BY <1>1, <1>3, <1>6 DEF Named, Kept, Listing
<1>9. Distinct
  BY <1>1 DEF Distinct
<1>10. Bounded
  <2>1. PICK rank \in [Handlers -> Nat] : \A h \in Handlers : rank[h] = 0
    <3>1. [h \in Handlers |-> 0] \in [Handlers -> Nat]
      OBVIOUS
    <3> QED BY <3>1
  <2>2. Surplus({}, Expected(rank, 0)) = {} /\ Cardinality({}) = 0
    BY <1>1, FS_EmptySet DEF Surplus
  <2>3. Ranked(rank, 0, 0)
    BY <1>3, <2>1, <2>2, HistoryAssumption DEF Ranked, Pruning
  <2> QED BY <2>1, <2>3 DEF Bounded
<1> QED BY <1>5, <1>7, <1>8, <1>9, <1>10 DEF IInv

LEMMA InvStep == IInv /\ [Next]_vars => IInv'
BY WorkStep, NamedStep, KeptStep, ListingStep, DistinctStep, BoundedStep DEF IInv

LEMMA Invariant == Spec => []IInv
BY InvInit, InvStep, PTL DEF Spec

\* The variables keep their types, whatever goroutine is killed or interrupted,
\* and a file that is open is in the directory.
THEOREM TypeCorrect == Spec => []TypeOK
<1>1. IInv => TypeOK
  <2> SUFFICES ASSUME Types, Working PROVE TypeOK
    BY DEF IInv
  <2>1. Open \ {0} \subseteq DOMAIN files
    BY DEF Open, Working
  <2>2. \A n \in Calls : adds[n].state \in {"none", "running", "done", "failed"}
    BY DEF Types, AddCall
  <2>3. \A h \in Handlers : doomed[h] \subseteq 1..MaxStamp
    BY DEF Types
  <2> QED BY <2>1, <2>2, <2>3 DEF TypeOK, Types, Places
<1> QED BY <1>1, Invariant, PTL

\* Pruning from a stale listing, by Adds that do not wait for each other, never
\* costs an entry that fewer than the limit of Adds ran beside or after.
THEOREM RecentCorrect == Spec => []RecentSurvives
<1>1. IInv => RecentSurvives
  <2> SUFFICES ASSUME Types, Working, Kept, NEW n \in Completed, Recent(n)
               PROVE  adds[n].stamp \in DOMAIN files /\ files[adds[n].stamp].by = n
    BY DEF IInv, RecentSurvives, Recent
  <2>1. Safe(n) /\ ~Writing(n)
    BY AtRuns, PlacesOfAdd, Sets DEF Kept, Opened, Writing, Completed
  <2> QED BY <2>1 DEF Safe
<1> QED BY <1>1, Invariant, PTL

\* A listing that runs beside Adds and prunings has read every such entry when
\* it comes to its end.
THEOREM ListCorrect == Spec => []ListComplete
<1>1. IInv => ListComplete
  <2> SUFFICES ASSUME Types, Working, Listing, pc[Lister] = "listing", unread = {}, reading = 0,
                      NEW n \in before, Recent(n)
               PROVE  n \in got
    BY DEF IInv, ListComplete, Recent
  <2>1. adds[n].stamp \in 1..MaxStamp
    BY Sets DEF Listing, Working
  <2> QED BY <2>1 DEF Listing
<1> QED BY <1>1, Invariant, PTL

\* The directory does not outgrow its limit: when no Add is running, the last
\* pruning that was completed has left no more files than the limit, and all
\* others are of Adds that failed or were killed after it, or were open in a
\* listing when they were to be removed.
THEOREM BoundedCorrect == Spec => []BoundedAtRest
<1>1. IInv => BoundedAtRest
  <2> SUFFICES ASSUME Types, Bounded, AtRest
               PROVE  Cardinality(DOMAIN files \ spared) <= FileLimit + Cardinality(Failed)
    BY DEF IInv, BoundedAtRest, Failed
  <2>1. PICK rank \in [Handlers -> Nat], base \in Nat, top \in Nat : Ranked(rank, base, top)
    BY DEF Bounded
  <2>2. Expected(rank, base) = Failed
    BY DEF Expected, Unpruned, Failed, At, Pruning, AtRest
  <2> DEFINE T == {adds[n].stamp : n \in Failed}
             S == DOMAIN files \ (spared \cup T)
             s == [n \in Failed |-> adds[n].stamp]
  <2>3. Cardinality(S) <= FileLimit
    BY <2>1, <2>2 DEF Ranked, Surplus
  <2>4. IsFiniteSet(Failed) /\ Cardinality(Failed) \in Nat
    BY CallsFinite DEF Failed
  <2>5. s \in Surjection(Failed, T)
    BY DEF Surjection
  <2>6. IsFiniteSet(T) /\ Cardinality(T) <= Cardinality(Failed)
    BY <2>4, <2>5, FS_Surjection
  <2>7. DOMAIN files \ spared \subseteq S \cup T /\ S \subseteq 1..MaxStamp
    BY DEF Types
  <2> HIDE DEF T, S
  <2>8. IsFiniteSet(S) /\ Cardinality(S) \in Nat /\ Cardinality(T) \in Nat
    BY <2>6, <2>7, FilesFinite, FS_CardinalityType
  <2>9. /\ IsFiniteSet(S \cup T)
        /\ Cardinality(S \cup T) = Cardinality(S) + Cardinality(T) - Cardinality(S \cap T)
    BY <2>6, <2>8, FS_Union
  <2>10. IsFiniteSet(S \cap T)
    BY <2>8, FS_Subset
  <2>11. Cardinality(S \cap T) \in Nat
    BY <2>10, FS_CardinalityType
  <2>12. Cardinality(S \cup T) \in Nat
    BY <2>9, FS_CardinalityType
  <2>13. Cardinality(S \cup T) <= FileLimit + Cardinality(Failed)
    BY <2>3, <2>4, <2>6, <2>8, <2>9, <2>11, HistoryAssumption
  <2>14. Cardinality(DOMAIN files \ spared) <= Cardinality(S \cup T)
    BY <2>7, <2>9, FS_Subset
  <2>15. Cardinality(DOMAIN files \ spared) \in Nat
    BY FilesFinite DEF Types
  <2> QED BY <2>4, <2>12, <2>13, <2>14, <2>15, HistoryAssumption
<1> QED BY <1>1, Invariant, PTL
==============================================================================
