------------------------------- MODULE Registry -------------------------------
(***************************************************************************)
(* The registry of lockd (internal/lock/registry.go): the map from names   *)
(* to records, the count of each namespace, and the calls that find,       *)
(* create, remove and walk through records while others do the same.       *)
(*                                                                         *)
(* Two kinds of mutex are taken: registry.mu, a read-write lock, and the   *)
(* item.mu of a record.  Delete and the expirer lock registry.mu while     *)
(* they hold item.mu; List and the expirer walk through records that may   *)
(* be gone when they come to them; any call may hold a pointer to a record *)
(* that was removed, and whose name was given to a new one.                *)
(*                                                                         *)
(* A record is a number here, in order of creation, with its name and its  *)
(* deleted flag.  What a call does to a live record is LockService's part. *)
(***************************************************************************)
EXTENDS Naturals, FiniteSets

CONSTANTS
  Proc,        \* goroutines, each of which serves one call or scans once
  Name,        \* full names of locks
  Namespace,   \* namespaces that are allowed
  NamespaceOf, \* the namespace of each name; not in Namespace if it is denied
  Quota,       \* locks a namespace may have
  MaxRecord    \* bound: records created in a run

ASSUME RegistryAssumption ==
  /\ DOMAIN NamespaceOf = Name
  /\ Quota \in Nat \ {0}
  /\ MaxRecord \in Nat

VARIABLES
  locks,     \* Registry.locks, 0 for a name that is not there
  nsCounts,  \* Registry.nsCounts
  named,     \* the name of each record created so far
  deleted,   \* the records whose deleted flag is set
  itemMu,    \* the records whose mutex is held across steps, and by whom
  readers,   \* who holds the read lock of registry.mu across steps
  proc       \* the goroutines

vars == <<locks, nsCounts, named, deleted, itemMu, readers, proc>>

-----------------------------------------------------------------------------
Created == DOMAIN named

\* found: has a pointer, about to lock it; removing: holds item.mu and is about
\* to lock registry.mu; copying: holds the read lock; walking: goes through `todo'.
Place == {"idle", "found", "removing", "copying", "walking", "done"}

\* "use" is any call that works on one record: Get, Acquire, Renew, Release, Steal.
Operation == {"none", "use", "delete", "list", "scan"}

Code == {"none", "ok", "exists", "quota", "not_found", "denied", "locked"}

\* `listed' is what a List returns, `before' what was live when it began.
Goroutine == [pc : Place, op : Operation, rec : 0..MaxRecord, code : Code,
              todo : SUBSET (1..MaxRecord), listed : SUBSET (1..MaxRecord),
              before : SUBSET (1..MaxRecord)]

NoCall == [pc |-> "idle", op |-> "none", rec |-> 0, code |-> "none",
           todo |-> {}, listed |-> {}, before |-> {}]

\* The type invariant: the map, the flags, the mutexes and the goroutines'
\* locals; a mutex is held by a goroutine that is in the middle of its section.
RegistryTypeOK ==
  /\ Created = 1..Cardinality(Created)
  /\ \A r \in Created : named[r] \in Name
  /\ locks \in [Name -> {0} \cup Created]
  /\ nsCounts \in [Namespace -> Nat]
  /\ deleted \subseteq Created
  /\ \A r \in DOMAIN itemMu : r \in Created /\ itemMu[r] \in Proc
  /\ readers \subseteq Proc
  /\ proc \in [Proc -> Goroutine]

RegistryInit ==
  /\ locks = [n \in Name |-> 0]
  /\ nsCounts = [s \in Namespace |-> 0]
  /\ named = <<>>
  /\ deleted = {}
  /\ itemMu = <<>>
  /\ readers = {}
  /\ proc = [p \in Proc |-> NoCall]

Allowed(n) == NamespaceOf[n] \in Namespace

\* registry.mu.Lock() succeeds.
WriteLock == readers = {}

\* item.mu.Lock() succeeds.
Free(r) == r \notin DOMAIN itemMu

\* A record that calls can still work with.
Live(r) == r \in Created \ deleted

\* Goroutine p goes on as g.
Goes(p, g) == proc' = [proc EXCEPT ![p] = g]

\* Goroutine p answers its caller.
Returns(p, code) == Goes(p, [proc[p] EXCEPT !.pc = "done", !.code = code, !.todo = {}])

-----------------------------------------------------------------------------
\* Registry.Create: everything from the lookup of the name to the insertion is
\* one section of registry.mu.
CanCreate(n) == locks[n] = 0 /\ nsCounts[NamespaceOf[n]] < Quota

Create(p) ==
  /\ proc[p].pc = "idle"
  /\ \E n \in Name :
       \/ ~Allowed(n) /\ Returns(p, "denied") /\ UNCHANGED <<locks, nsCounts, named>>
       \/ /\ Allowed(n) /\ WriteLock /\ ~CanCreate(n)
          /\ Returns(p, IF locks[n] # 0 THEN "exists" ELSE "quota")
          /\ UNCHANGED <<locks, nsCounts, named>>
       \/ /\ Allowed(n) /\ WriteLock /\ CanCreate(n)
          /\ Cardinality(Created) < MaxRecord
          /\ LET r == Cardinality(Created) + 1
             IN /\ named' = [q \in Created \cup {r} |-> IF q = r THEN n ELSE named[q]]
                /\ locks' = [locks EXCEPT ![n] = r]
          /\ nsCounts' = [nsCounts EXCEPT ![NamespaceOf[n]] = @ + 1]
          /\ Returns(p, "ok")
  /\ UNCHANGED <<deleted, itemMu, readers>>

\* Registry.get, at the beginning of every call on one record.
Find(p) ==
  /\ proc[p].pc = "idle"
  /\ \E n \in Name, op \in {"use", "delete"} :
       \/ ~Allowed(n) /\ Returns(p, "denied")
       \/ Allowed(n) /\ locks[n] = 0 /\ Returns(p, "not_found")
       \/ /\ Allowed(n) /\ locks[n] # 0
          /\ Goes(p, [NoCall EXCEPT !.pc = "found", !.op = op, !.rec = locks[n]])
  /\ UNCHANGED <<locks, nsCounts, named, deleted, itemMu, readers>>

\* Mutant: the deleted flag is not looked at.
UseStale(p) ==
  /\ proc[p].pc = "found" /\ proc[p].op = "use"
  /\ Free(proc[p].rec)
  /\ Returns(p, "ok")
  /\ UNCHANGED <<locks, nsCounts, named, deleted, itemMu, readers>>

\* A call locks the record it found, and works on it unless it was deleted.
Use(p) ==
  /\ proc[p].pc = "found" /\ proc[p].op = "use"
  /\ Free(proc[p].rec)
  /\ Returns(p, IF proc[p].rec \in deleted THEN "not_found" ELSE "ok")
  /\ UNCHANGED <<locks, nsCounts, named, deleted, itemMu, readers>>

\* item.mu is held, the record is marked, and registry.mu comes next.
Mark(p, r) ==
  /\ Free(r)
  /\ deleted' = deleted \cup {r}
  /\ itemMu' = [q \in DOMAIN itemMu \cup {r} |-> IF q = r THEN p ELSE itemMu[q]]
  /\ Goes(p, [proc[p] EXCEPT !.pc = "removing", !.rec = r, !.todo = @ \ {r}])
  /\ UNCHANGED <<locks, nsCounts, named, readers>>

\* Delete, whether or not the record was marked before; it may be refused because
\* the lock is held or the force token is wrong.
DeleteSection(p) ==
  /\ proc[p].pc = "found" /\ proc[p].op = "delete"
  /\ \/ Mark(p, proc[p].rec)
     \/ /\ Free(proc[p].rec)
        /\ Returns(p, "locked")
        /\ UNCHANGED <<locks, nsCounts, named, deleted, itemMu, readers>>

\* Mutants of registry.remove: by name only; the count goes down regardless.
UnregisterByName(r) ==
  /\ locks' = [locks EXCEPT ![named[r]] = 0]
  /\ nsCounts' = IF locks[named[r]] = 0 THEN nsCounts
                 ELSE [nsCounts EXCEPT ![NamespaceOf[named[r]]] = @ - 1]
UnregisterTwice(r) ==
  /\ locks' = IF locks[named[r]] = r THEN [locks EXCEPT ![named[r]] = 0] ELSE locks
  /\ nsCounts' = [nsCounts EXCEPT ![NamespaceOf[named[r]]] = @ - 1]

\* registry.remove: the name is freed only if it still stands for this record.
Unregister(r) ==
  IF locks[named[r]] = r
  THEN /\ locks' = [locks EXCEPT ![named[r]] = 0]
       /\ nsCounts' = [nsCounts EXCEPT ![NamespaceOf[named[r]]] = @ - 1]
  ELSE UNCHANGED <<locks, nsCounts>>

\* registry.mu is locked with item.mu held, then both are unlocked.  Delete
\* answers; the expirer walks on.
Remove(p) ==
  /\ proc[p].pc = "removing"
  /\ WriteLock
  /\ LET r == proc[p].rec IN
       /\ Unregister(r)
       /\ itemMu' = [q \in DOMAIN itemMu \ {r} |-> itemMu[q]]
       /\ IF proc[p].op = "delete"
          THEN Returns(p, IF locks[named[r]] = r THEN "ok" ELSE "not_found")
          ELSE Goes(p, [proc[p] EXCEPT !.pc = "walking", !.rec = 0])
  /\ UNCHANGED <<named, deleted, readers>>

-----------------------------------------------------------------------------
(* List, Stats and the expirer's pass.                                     *)

\* List and allRecords take the read lock.
StartWalk(p) ==
  /\ proc[p].pc = "idle"
  /\ \E op \in {"list", "scan"} :
       Goes(p, [NoCall EXCEPT !.pc = "copying", !.op = op, !.before = Created \ deleted])
  /\ readers' = readers \cup {p}
  /\ UNCHANGED <<locks, nsCounts, named, deleted, itemMu>>

\* Mutant: the read lock is not given back.
CopyKeepsLock(p) ==
  /\ proc[p].pc = "copying"
  /\ Goes(p, [proc[p] EXCEPT !.pc = "walking", !.todo = {locks[n] : n \in Name} \ {0}])
  /\ UNCHANGED <<locks, nsCounts, named, deleted, itemMu, readers>>

\* They copy the pointers and give the read lock back.
Copy(p) ==
  /\ proc[p].pc = "copying"
  /\ Goes(p, [proc[p] EXCEPT !.pc = "walking", !.todo = {locks[n] : n \in Name} \ {0}])
  /\ readers' = readers \ {p}
  /\ UNCHANGED <<locks, nsCounts, named, deleted, itemMu>>

\* The pointers are gone through in any order; a deleted record is passed over.
Skip(p, r) ==
  /\ Free(r)
  /\ Goes(p, [proc[p] EXCEPT !.todo = @ \ {r}])
  /\ UNCHANGED <<locks, nsCounts, named, deleted, itemMu, readers>>

\* Mutant: the walk ends at the first deleted record (break for continue).
ListRecordBreaks(p) ==
  /\ proc[p].pc = "walking" /\ proc[p].op = "list"
  /\ \E r \in proc[p].todo :
       /\ Free(r)
       /\ Goes(p, IF r \in deleted THEN [proc[p] EXCEPT !.todo = {}]
                  ELSE [proc[p] EXCEPT !.todo = @ \ {r}, !.listed = @ \cup {r}])
       /\ UNCHANGED <<locks, nsCounts, named, deleted, itemMu, readers>>

ListRecord(p) ==
  /\ proc[p].pc = "walking" /\ proc[p].op = "list"
  /\ \E r \in proc[p].todo :
       \/ r \in deleted /\ Skip(p, r)
       \/ /\ r \notin deleted /\ Free(r)
          /\ Goes(p, [proc[p] EXCEPT !.todo = @ \ {r}, !.listed = @ \cup {r}])
          /\ UNCHANGED <<locks, nsCounts, named, deleted, itemMu, readers>>

\* The expirer purges a record that was idle long enough, or leaves it.
ScanRecord(p) ==
  /\ proc[p].pc = "walking" /\ proc[p].op = "scan"
  /\ \E r \in proc[p].todo : Skip(p, r) \/ (r \notin deleted /\ Mark(p, r))

EndWalk(p) ==
  /\ proc[p].pc = "walking" /\ proc[p].todo = {}
  /\ Returns(p, "ok")
  /\ UNCHANGED <<locks, nsCounts, named, deleted, itemMu, readers>>

-----------------------------------------------------------------------------
\* The steps of a goroutine that has begun.
Continue(p) ==
  Use(p) \/ DeleteSection(p) \/ Remove(p) \/ Copy(p) \/ ListRecord(p) \/ ScanRecord(p)
  \/ EndWalk(p)

RegistryNext == \E p \in Proc : Create(p) \/ Find(p) \/ StartWalk(p) \/ Continue(p)

RegistrySpec == RegistryInit /\ [][RegistryNext]_vars

\* Goroutines are scheduled and mutexes are handed over in turn.
FairRegistrySpec == RegistrySpec /\ \A p \in Proc : WF_vars(Continue(p))

-----------------------------------------------------------------------------
(* Properties.                                                             *)

\* The count that the quota is checked against is the number of names taken,
\* and never above the quota (registry.go:84, 162).
CountsMatch ==
  \A s \in Namespace :
    /\ nsCounts[s] = Cardinality({n \in Name : NamespaceOf[n] = s /\ locks[n] # 0})
    /\ nsCounts[s] <= Quota

\* There is no ghost: a record that is live is the one its name stands for, so
\* that two callers with the same name never work on two locks; and a deleted
\* record is still registered only while its deleter holds its mutex.
NoGhostLock ==
  \A r \in Created :
    /\ Live(r) => locks[named[r]] = r
    /\ r \in deleted /\ locks[named[r]] = r => ~Free(r)

\* A call that works on a record works on the one its name stands for, although
\* it looked the name up some time ago (registry.go:112, service.go:60).
WorksOnRegistered ==
  [][\A p \in Proc :
       proc[p].op = "use" /\ proc'[p].code = "ok" /\ proc[p].code = "none"
         => \E n \in Name : locks[n] = proc[p].rec]_vars

\* A list has every lock that was there from its beginning to its end.
ListIsComplete ==
  [][\A p \in Proc :
       proc[p].op = "list" /\ proc[p].pc = "walking" /\ proc'[p].pc = "done"
         => \A r \in proc[p].before : Live(r) => r \in proc[p].listed]_vars

\* Every call returns: no two goroutines wait for each other's mutexes.
RegistryCallsReturn == \A p \in Proc : proc[p].pc # "idle" ~> proc[p].pc = "done"
=============================================================================
