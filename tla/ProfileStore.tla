----------------------------- MODULE ProfileStore -----------------------------
(***************************************************************************)
(* The directory of profiles, as the goroutines of several connections use *)
(* it at once: there is no lock, Save truncates the file and then writes   *)
(* it, List reads one file after the other, a read may fail, a write may   *)
(* fail in the middle and the launcher may kill the process between any    *)
(* two steps.  A file is a sequence of blocks, each with the number of the *)
(* call of Save that wrote it; only all the blocks of one call are a       *)
(* profile.                                                                *)
(***************************************************************************)
EXTENDS Integers, Sequences, FiniteSets

CONSTANTS
  Handlers,    \* the goroutines that call Save
  Names,       \* the names of profiles, sequences of characters
  Small,       \* of the characters kept as they are, those without a case to fold
  Fold,        \* the lower case of the others, a function
  MaxBlocks,   \* bound: the length of a profile
  MaxSaves,    \* bound: calls of Save
  MaxCrashes   \* bound: times the process is killed

Letters == Small \cup DOMAIN Fold

ASSUME ProfileAssumption ==
  /\ IsFiniteSet(Handlers) /\ {" ", "_"} \cap Letters = {}
  /\ Fold \in [DOMAIN Fold -> Small] /\ Small \cap DOMAIN Fold = {}
  /\ MaxBlocks \in Nat /\ MaxSaves \in Nat /\ MaxCrashes \in Nat

VARIABLES
  files,     \* the directory: file name -> blocks
  saves,     \* history: the calls of Save; old is the set of those that had ended
  pc,        \* where each handler is
  call,      \* the call of Save it executes
  listing,   \* is a List under way
  unread,    \* the files the List has still to read
  reading,   \* the file it is reading, if any, as a set
  text,      \* what it has read of that file
  got,       \* the calls of Save whose profiles it has read
  before,    \* history: the calls that had succeeded when the List began
  crashes

saveVars == <<saves, pc, call>>
listVars == <<listing, unread, reading, text, got, before>>
vars == <<files, saveVars, listVars, crashes>>

Calls == 1..MaxSaves
Started == {n \in Calls : saves[n].state # "none"}
Done == {n \in Calls : saves[n].state = "done"}
Running == {n \in Calls : saves[n].state = "running"}

Init ==
  /\ files = [f \in {} |-> <<>>]
  /\ saves = [n \in Calls |-> [name |-> <<>>, blocks |-> 0, state |-> "none", old |-> {}]]
  /\ pc = [h \in Handlers |-> "idle"] /\ call = [h \in Handlers |-> 0]
  /\ listing = FALSE /\ unread = {} /\ reading = {} /\ text = <<>> /\ got = {} /\ before = {}
  /\ crashes = 0

------------------------------------------------------------------------------
(* Names of files                                                            *)

TrimSpace(name) ==
  LET solid == {i \in DOMAIN name : name[i] # " "}
      first == CHOOSE i \in solid : \A j \in solid : i <= j
      last  == CHOOSE i \in solid : \A j \in solid : j <= i
  IN  IF solid = {} THEN <<>> ELSE SubSeq(name, first, last)

\* Every character but letters, digits, hyphen and underscore becomes an
\* underscore.  A name that is nothing but space never comes here, so the
\* default "profile" is never taken.
Sanitize(name) ==
  LET t == TrimSpace(name) IN [i \in DOMAIN t |-> IF t[i] \in Letters THEN t[i] ELSE "_"]

\* The file system does not distinguish upper and lower case (external).
FileOf(path) == [i \in DOMAIN path |-> IF path[i] \in DOMAIN Fold THEN Fold[path[i]] ELSE path[i]]

Target(n) == FileOf(Sanitize(saves[n].name))

------------------------------------------------------------------------------
(* Store.Save                                                                *)

End(h, state) ==
  /\ saves' = [saves EXCEPT ![call[h]].state = state]
  /\ pc' = [pc EXCEPT ![h] = "idle"]
  /\ UNCHANGED call

\* The name is checked, the directory made, the profile marshalled.
BeginSave(h) ==
  /\ pc[h] = "idle"
  /\ \E n \in Calls \ Started, name \in Names, blocks \in 1..MaxBlocks, ok \in BOOLEAN :
        LET begins == ok /\ TrimSpace(name) # <<>>
        IN  /\ n = Cardinality(Started) + 1
            /\ saves' = [saves EXCEPT ![n] =
                           [name |-> name, blocks |-> blocks, old |-> Started \ Running,
                            state |-> IF begins THEN "running" ELSE "failed"]]
            /\ pc' = [pc EXCEPT ![h] = IF begins THEN "open" ELSE "idle"]
            /\ call' = [call EXCEPT ![h] = n]
  /\ UNCHANGED <<files, listVars, crashes>>

Put(f, blocks) == [g \in DOMAIN files \cup {f} |-> IF g = f THEN blocks ELSE files[g]]

\* Mutant: an existing file is not truncated.
OpenWithoutTruncation(h) ==
  /\ pc[h] = "open"
  /\ LET f == Target(call[h]) IN files' = Put(f, IF f \in DOMAIN files THEN files[f] ELSE <<>>)
  /\ pc' = [pc EXCEPT ![h] = "write"]
  /\ UNCHANGED <<saves, call, listVars, crashes>>

\* os.WriteFile, first half: the file is created or truncated.
OpenFile(h) ==
  /\ pc[h] = "open"
  /\ files' = Put(Target(call[h]), <<>>)
  /\ pc' = [pc EXCEPT ![h] = "write"]
  /\ UNCHANGED <<saves, call, listVars, crashes>>

\* Second half: the blocks are written from the start of the file, over what
\* another Save has written there meanwhile.  The write may fail on the way.
WriteFile(h) ==
  /\ pc[h] = "write"
  /\ LET n == call[h]
         f == Target(n)
     IN  \E written \in 0..saves[n].blocks :
            /\ files' = Put(f, [i \in 1..written |-> n]
                               \o SubSeq(files[f], written + 1, Len(files[f])))
            /\ End(h, IF written = saves[n].blocks THEN "done" ELSE "failed")
  /\ UNCHANGED <<listVars, crashes>>

------------------------------------------------------------------------------
(* Store.List                                                                *)

\* A directory that cannot be read ends the call here: with no profiles if it
\* does not exist, else with an error.  Neither leaves anything to be modelled.
ReadDir ==
  /\ ~listing
  /\ listing' = TRUE /\ unread' = DOMAIN files /\ got' = {} /\ before' = Done
  /\ UNCHANGED <<files, saveVars, reading, text, crashes>>

\* os.ReadFile reads what is there, and then once more for the end of the file.
ReadFile ==
  /\ listing /\ reading = {}
  /\ \E f \in unread : reading' = {f} /\ text' = files[f]
  /\ UNCHANGED <<files, saveVars, listing, unread, got, before, crashes>>

\* The profile that a text is, if it is one.
Unmarshal(t) == {n \in Started : t = [i \in 1..saves[n].blocks |-> n]}

ReadRest ==
  \E f \in reading :
     LET rest == IF text = <<>> THEN <<>> ELSE SubSeq(files[f], Len(text) + 1, Len(files[f]))
     IN  /\ got' = got \cup Unmarshal(text \o rest)
         /\ unread' = unread \ {f} /\ reading' = {} /\ text' = <<>>
         /\ UNCHANGED <<files, saveVars, listing, before, crashes>>

\* Mutant: a file that cannot be read is passed over.
ReadFailsSkips ==
  /\ listing
  /\ \E f \in IF reading = {} THEN unread ELSE reading : unread' = unread \ {f}
  /\ reading' = {} /\ text' = <<>>
  /\ UNCHANGED <<files, saveVars, listing, got, before, crashes>>

\* One file that cannot be opened, or not read to its end, ends the whole call
\* with an error: the profiles read until then are dropped.
ReadFails ==
  /\ listing /\ unread # {}
  /\ listing' = FALSE /\ unread' = {} /\ reading' = {} /\ text' = <<>> /\ got' = {} /\ before' = {}
  /\ UNCHANGED <<files, saveVars, crashes>>

Listed == listing /\ unread = {} /\ reading = {}

EndList ==
  /\ Listed
  /\ listing' = FALSE /\ got' = {} /\ before' = {}
  /\ UNCHANGED <<files, saveVars, unread, reading, text, crashes>>

------------------------------------------------------------------------------
\* The process is killed and started again.
Crash ==
  /\ crashes < MaxCrashes /\ crashes' = crashes + 1
  /\ saves' = [n \in Calls |-> IF n \in Running THEN [saves[n] EXCEPT !.state = "failed"] ELSE saves[n]]
  /\ pc' = [h \in Handlers |-> "idle"] /\ call' = [h \in Handlers |-> 0]
  /\ listing' = FALSE /\ unread' = {} /\ reading' = {} /\ text' = <<>> /\ got' = {} /\ before' = {}
  /\ UNCHANGED files

Next ==
  \/ \E h \in Handlers : BeginSave(h) \/ OpenFile(h) \/ WriteFile(h)
  \/ ReadDir \/ ReadFile \/ ReadRest \/ ReadFails \/ EndList
  \/ Crash

Spec == Init /\ [][Next]_vars

------------------------------------------------------------------------------
(* Properties                                                                *)

\* Two names that are kept apart nowhere: of one length but for space around
\* them, and everywhere the same letter, in either case, or none in both.
Class(c) == IF c \in DOMAIN Fold THEN Fold[c] ELSE IF c \in Small THEN c ELSE "_"
SameName(a, b) ==
  LET s == TrimSpace(a)
      t == TrimSpace(b)
  IN  DOMAIN s = DOMAIN t /\ \A i \in DOMAIN s : Class(s[i]) = Class(t[i])

\* No call of Save for the same name ran beside this one or began after it.
LastWord(n) ==
  \A m \in Started \ {n} : SameName(saves[m].name, saves[n].name) => m \in saves[n].old

\* A profile that was saved is what its file holds, whole, until a call of Save
\* for a name that is the same to sanitize begins: whatever earlier calls that
\* ran into each other, failed or were killed had left in the file.
\* (profile/store.go Save, sanitize)
SavedIsKept ==
  \A n \in Done : LastWord(n) => Target(n) \in DOMAIN files /\ Unmarshal(files[Target(n)]) = {n}

\* A listing that ends without an error has every such profile that was there
\* when it began, although files that hold no profile, or are being replaced,
\* lie beside it.  One that meets a file it cannot read ends with an error and
\* has nothing, where the list of the history would pass over that file.
\* (profile/store.go List)
ListComplete == Listed => {n \in before : LastWord(n)} \subseteq got
==============================================================================
