----------------------------- MODULE HistoryStore -----------------------------
(***************************************************************************)
(* The history directory of finished diagnostics, as the goroutines of    *)
(* several connections use it at once: there is no lock, Add writes its    *)
(* file and then prunes from a directory listing that may be stale, List   *)
(* reads the files one by one, and the launcher may kill the process        *)
(* between any two steps.                                                   *)
(***************************************************************************)
EXTENDS Naturals, FiniteSets

CONSTANTS
  Handlers,     \* the goroutines that call Add
  Lister,       \* a goroutine that calls List
  FileLimit,    \* Store.limit (100)
  MaxAdds,      \* bound: calls of Add
  MaxStamp,     \* bound: distinct timestamps of entries
  MaxCrashes    \* bound: times the process is killed

ASSUME HistoryAssumption ==
  /\ IsFiniteSet(Handlers) /\ Lister \notin Handlers
  /\ FileLimit \in Nat \ {0} /\ MaxAdds \in Nat /\ MaxStamp \in Nat \ {0} /\ MaxCrashes \in Nat

VARIABLES
  files,     \* the directory: file id -> [mtime, by], by = 0 while not valid JSON
  now,       \* the file system's clock, one tick per write
  stamp,     \* the wall clock that FinishedAt is read from
  adds,      \* history: the Add calls, adds[n] = [stamp, state, old], old being the
             \* calls that had ended when this one began
  pc,        \* where each goroutine is
  call,      \* the call of Add a handler executes
  doomed,    \* the files an Add is about to remove
  unread,    \* the files a List has still to read
  reading,   \* the file a List has open, 0 if none
  spared,    \* history: the files a List had open when an Add came to remove them
  before,    \* history: the calls of Add that had completed when the List began
  got,       \* the calls whose entries the List has read
  crashes

vars == <<files, now, stamp, adds, pc, call, doomed, unread, reading, spared, before, got, crashes>>

Calls == 1..MaxAdds
Started == {n \in Calls : adds[n].state # "none"}
Ended == {n \in Calls : adds[n].state \in {"done", "failed"}}
Completed == {n \in Calls : adds[n].state = "done"}

Init ==
  /\ files = [f \in {} |-> 0]
  /\ now = 0 /\ stamp = 1
  /\ adds = [n \in Calls |-> [stamp |-> 0, state |-> "none", old |-> {}]]
  /\ pc = [h \in Handlers \cup {Lister} |-> "idle"]
  /\ call = [h \in Handlers |-> 0]
  /\ doomed = [h \in Handlers |-> {}]
  /\ unread = {} /\ reading = 0 /\ spared = {} /\ before = {} /\ got = {}
  /\ crashes = 0

Put(f, mtime, by) == [g \in DOMAIN files \cup {f} |->
                        IF g = f THEN [mtime |-> mtime, by |-> by] ELSE files[g]]
Without(fs) == [g \in DOMAIN files \ fs |-> files[g]]

------------------------------------------------------------------------------
(* Store.Add                                                                 *)

\* Two diagnostics may finish at the same reading of the clock: the entry's ID,
\* and so its file, is made from the timestamp alone.
BeginAdd(h) ==
  /\ pc[h] = "idle"
  /\ \E n \in Calls \ Started :
        /\ n = Cardinality(Started) + 1
        /\ stamp' \in stamp..MaxStamp
        /\ adds' = [adds EXCEPT ![n] = [stamp |-> stamp', state |-> "running", old |-> Ended]]
        /\ call' = [call EXCEPT ![h] = n]
  /\ pc' = [pc EXCEPT ![h] = "open"]
  /\ UNCHANGED <<files, now, doomed, unread, reading, spared, before, got, crashes>>

\* os.WriteFile, first half: the file is created or truncated.
OpenFile(h) ==
  /\ pc[h] = "open"
  /\ now' = now + 1
  /\ files' = Put(adds[call[h]].stamp, now', 0)
  /\ pc' = [pc EXCEPT ![h] = "write"]
  /\ UNCHANGED <<stamp, adds, call, doomed, unread, reading, spared, before, got, crashes>>

\* Second half: the contents.  A file that another Add is writing at the same
\* time keeps a tail of the longer entry, which is not valid JSON.  The write
\* may fail, and Add returns the error.
WriteFile(h) ==
  /\ pc[h] = "write"
  /\ LET n == call[h]
         f == adds[n].stamp
         shared == files[f].by # 0
     IN  /\ now' = now + 1
         /\ \/ /\ \E by \in {n} \cup (IF shared THEN {0} ELSE {}) : files' = Put(f, now', by)
               /\ pc' = [pc EXCEPT ![h] = "read_dir"]
               /\ UNCHANGED adds
            \/ /\ adds' = [adds EXCEPT ![n].state = "failed"]
               /\ pc' = [pc EXCEPT ![h] = "idle"]
               /\ UNCHANGED files
  /\ UNCHANGED <<stamp, call, doomed, unread, reading, spared, before, got, crashes>>

\* Listing the directory decides what to remove: all but the FileLimit files
\* with the latest modification times.
Newer(f) == {g \in DOMAIN files : files[g].mtime > files[f].mtime}

\* Mutant: the newest files go first.
ExcessNewest ==
  {f \in DOMAIN files :
     Cardinality({g \in DOMAIN files : files[g].mtime < files[f].mtime}) >= FileLimit}

\* Mutant: one file too many stays.
ExcessLate == {f \in DOMAIN files : Cardinality(Newer(f)) > FileLimit}

\* The listing sorted by modification time gives up its head.
Excess == {f \in DOMAIN files : Cardinality(Newer(f)) >= FileLimit}

ReadDir(h) ==
  /\ pc[h] = "read_dir"
  /\ doomed' = [doomed EXCEPT ![h] = Excess]
  /\ pc' = [pc EXCEPT ![h] = "prune"]
  /\ UNCHANGED <<files, now, stamp, adds, call, unread, reading, spared, before, got, crashes>>

\* os.Remove of one file after the other.  The errors are ignored: the file may
\* be gone, or open in another Add or in a List, and then Windows refuses.
Open == {adds[call[h]].stamp : h \in {g \in Handlers : pc[g] = "write"}} \cup {reading}

RemoveOne(h, refused) ==
  \E f \in doomed[h] :
     /\ files' = IF f \in refused THEN files ELSE Without({f})
     /\ spared' = IF f = reading THEN spared \cup {f} ELSE spared \ {f}
     /\ doomed' = [doomed EXCEPT ![h] = @ \ {f}]
     /\ UNCHANGED <<adds, pc>>

EndAdd(h) ==
  /\ doomed[h] = {}
  /\ adds' = [adds EXCEPT ![call[h]].state = "done"]
  /\ pc' = [pc EXCEPT ![h] = "idle"]
  /\ UNCHANGED <<files, doomed, spared>>

\* Mutant: the directory entry goes although another Add has the file open.
PruneOpen(h) ==
  /\ pc[h] = "prune"
  /\ EndAdd(h) \/ RemoveOne(h, {reading})
  /\ UNCHANGED <<now, stamp, call, unread, reading, before, got, crashes>>

Prune(h) ==
  /\ pc[h] = "prune"
  /\ EndAdd(h) \/ RemoveOne(h, Open)
  /\ UNCHANGED <<now, stamp, call, unread, reading, before, got, crashes>>

------------------------------------------------------------------------------
(* Store.List                                                                *)

BeginList ==
  /\ pc[Lister] = "idle"
  /\ unread' = DOMAIN files
  /\ before' = Completed
  /\ got' = {}
  /\ pc' = [pc EXCEPT ![Lister] = "listing"]
  /\ UNCHANGED <<files, now, stamp, adds, call, doomed, reading, spared, crashes>>

\* The files are visited by name, which is by timestamp.  One that is gone by
\* now is passed over.
OpenEntry ==
  /\ pc[Lister] = "listing"
  /\ reading = 0
  /\ \E f \in unread :
        /\ \A g \in unread : f <= g
        /\ reading' = IF f \in DOMAIN files THEN f ELSE 0
        /\ unread' = unread \ {f}
  /\ UNCHANGED <<files, now, stamp, adds, pc, call, doomed, spared, before, got, crashes>>

Readable == reading \in DOMAIN files /\ files[reading].by # 0

\* Mutant: the first file that cannot be parsed ends the listing.
ReadEntryStrict ==
  /\ reading # 0
  /\ IF Readable
     THEN got' = got \cup {files[reading].by} /\ UNCHANGED unread
     ELSE unread' = {} /\ UNCHANGED got
  /\ reading' = 0
  /\ UNCHANGED <<files, now, stamp, adds, pc, call, doomed, spared, before, crashes>>

\* A file that is not valid JSON is passed over.
ReadEntry ==
  /\ reading # 0
  /\ got' = IF Readable THEN got \cup {files[reading].by} ELSE got
  /\ reading' = 0
  /\ UNCHANGED <<files, now, stamp, adds, pc, call, doomed, unread, spared, before, crashes>>

\* The entries are sorted by timestamp and cut to the limit.
EndList ==
  /\ pc[Lister] = "listing"
  /\ unread = {} /\ reading = 0
  /\ pc' = [pc EXCEPT ![Lister] = "idle"]
  /\ \E kept \in SUBSET got :
        /\ Cardinality(kept) = IF Cardinality(got) < FileLimit THEN Cardinality(got) ELSE FileLimit
        /\ \A k \in kept, d \in got \ kept : adds[k].stamp >= adds[d].stamp
        /\ got' = kept
  /\ UNCHANGED <<files, now, stamp, adds, call, doomed, unread, reading, spared, before, crashes>>

------------------------------------------------------------------------------
\* The launcher kills the process; the next one starts with the same files.
Crash ==
  /\ crashes < MaxCrashes
  /\ crashes' = crashes + 1
  /\ pc' = [h \in Handlers \cup {Lister} |-> "idle"]
  /\ doomed' = [h \in Handlers |-> {}]
  /\ adds' = [n \in Calls |-> IF adds[n].state = "running"
                                THEN [adds[n] EXCEPT !.state = "failed"] ELSE adds[n]]
  /\ unread' = {} /\ reading' = 0 /\ before' = {} /\ got' = {}
  /\ UNCHANGED <<files, now, stamp, call, spared>>

Add(h) == BeginAdd(h) \/ OpenFile(h) \/ WriteFile(h) \/ ReadDir(h) \/ Prune(h)
List == BeginList \/ OpenEntry \/ ReadEntry \/ EndList

Next == (\E h \in Handlers : Add(h)) \/ List \/ Crash

Spec == Init /\ [][Next]_vars

------------------------------------------------------------------------------
(* Properties                                                                *)

AtRest == \A h \in Handlers : pc[h] = "idle"

TypeOK ==
  /\ DOMAIN files \subseteq 1..MaxStamp
  /\ \A f \in DOMAIN files : files[f].mtime \in 1..now /\ files[f].by \in 0..MaxAdds
  /\ stamp \in 1..MaxStamp
  /\ \A n \in Calls : adds[n].state \in {"none", "running", "done", "failed"}
  /\ pc \in [Handlers \cup {Lister} -> {"idle", "open", "write", "read_dir", "prune", "listing"}]
  /\ \A h \in Handlers : doomed[h] \subseteq 1..MaxStamp
  /\ unread \subseteq 1..MaxStamp /\ spared \subseteq 1..MaxStamp
  /\ Open \ {0} \subseteq DOMAIN files

\* The directory does not outgrow its limit: once no Add is running, only files
\* left by Adds that failed or were killed can exceed it, one for each of them,
\* and files that a List held open at the moment they were to be removed.
BoundedAtRest ==
  AtRest => Cardinality(DOMAIN files \ spared) <=
              FileLimit + Cardinality({n \in Calls : adds[n].state = "failed"})

\* Pruning from stale listings never costs a recent entry: what a completed
\* Add wrote stays readable until FileLimit other Adds have run beside it or
\* after it, unless another Add got the same timestamp and so the same file.
Later(n) == Started \ (adds[n].old \cup {n})
SameFile(n) == {m \in Started \ {n} : adds[m].stamp = adds[n].stamp}
RecentSurvives ==
  \A n \in Completed :
     SameFile(n) = {} /\ Cardinality(Later(n)) < FileLimit =>
        adds[n].stamp \in DOMAIN files /\ files[adds[n].stamp].by = n

\* A List that runs beside Adds and prunings has read every recent entry whose
\* Add had completed before it began, when it comes to sort and cut what it has:
\* files that hold no entry cost only themselves.  (history/store.go List)
ListComplete ==
  pc[Lister] = "listing" /\ unread = {} /\ reading = 0 =>
    \A n \in before :
       SameFile(n) = {} /\ Cardinality(Later(n)) < FileLimit => n \in got
==============================================================================
