---------------------------- MODULE RegistryProofs ----------------------------
(***************************************************************************)
(* Proofs about Registry, for any number of goroutines, names, namespaces  *)
(* and records.  RInv is the inductive invariant: besides what is to be    *)
(* shown it says where a goroutine's pointers can point to (PlaceOK), that *)
(* a name's record bears that name, and that only finitely many names are  *)
(* taken, which the counting needs.                                        *)
(***************************************************************************)
EXTENDS Registry, FiniteSetTheorems, TLAPS

\* What goroutine p, at g, knows of the records `made', of which those in `gone'
\* are deleted, when the mutexes are held as in mu.  A walker that lists has every
\* live record of the beginning on its list or still to come.
PlaceOK(p, g, made, gone, mu) ==
  /\ g.pc = "idle" => g = NoCall
  /\ g.pc = "found" => g.op \in {"use", "delete"} /\ g.rec \in made
  /\ g.pc = "removing" => /\ g.op \in {"delete", "scan"}
                          /\ g.rec \in gone
                          /\ g.rec \in DOMAIN mu /\ mu[g.rec] = p
  /\ g.pc \in {"copying", "walking"} => g.op \in {"list", "scan"}
  /\ g.op = "use" /\ g.code = "none" => g.pc = "found"
  /\ g.todo \subseteq made
  /\ g.before \subseteq made
  /\ g.pc = "walking" /\ g.op = "list" =>
       \A r \in g.before \ gone : r \in g.listed \cup g.todo

PlacesOK == \A p \in Proc : PlaceOK(p, proc[p], Created, deleted, itemMu)

\* The names of namespace s that are taken.
Taken(s) == {n \in Name : NamespaceOf[n] = s /\ locks[n] # 0}

\* A name stands for a record that bears it, and its namespace is allowed.
NamesMatch ==
  \A n \in Name : locks[n] # 0 => named[locks[n]] = n /\ Allowed(n)

RInv ==
  /\ RegistryTypeOK
  /\ Cardinality(Created) \in 0..MaxRecord
  /\ NamesMatch
  /\ PlacesOK
  /\ \A s \in Namespace : IsFiniteSet(Taken(s))
  /\ CountsMatch
  /\ NoGhostLock

-----------------------------------------------------------------------------
(* Lemmas.                                                                 *)

\* What a goroutine knows stays true while records are made and deleted, if the
\* mutex it holds stays held.
LEMMA PlaceKept ==
  ASSUME NEW p, NEW g, NEW made, NEW gone, NEW mu,
         NEW made2, NEW gone2, NEW mu2,
         PlaceOK(p, g, made, gone, mu),
         made \subseteq made2, gone \subseteq gone2,
         g.pc = "removing" => g.rec \in DOMAIN mu2 /\ mu2[g.rec] = mu[g.rec]
  PROVE  PlaceOK(p, g, made2, gone2, mu2)
BY DEF PlaceOK

\* The records are numbered through, and within the bound.
LEMMA RecordsAreNumbered ==
  ASSUME RInv
  PROVE  /\ Created \subseteq 1..MaxRecord
         /\ 0 \notin Created
         /\ Cardinality(Created) + 1 \notin Created
         /\ MaxRecord \in Nat
BY RegistryAssumption DEF RInv, RegistryTypeOK

\* A step that only moves goroutine p, and the read lock, keeps the invariant if
\* p's new place is right.
LEMMA MoveStep ==
  ASSUME RInv, NEW p \in Proc, NEW g \in Goroutine,
         Goes(p, g), readers' \subseteq Proc,
         UNCHANGED <<locks, nsCounts, named, deleted, itemMu>>,
         PlaceOK(p, g, Created, deleted, itemMu)
  PROVE  RInv'
<1>1. Created' = Created
  BY DEF Created
<1>2. RegistryTypeOK'
  BY <1>1 DEF RInv, RegistryTypeOK, Goes
<1>3. PlacesOK'
  <2>1. \A q \in Proc : proc'[q] = IF q = p THEN g ELSE proc[q]
    BY DEF RInv, RegistryTypeOK, Goes
  <2>. QED
    BY <1>1, <2>1 DEF RInv, PlacesOK
<1>4. /\ NamesMatch' /\ CountsMatch' /\ NoGhostLock'
      /\ \A s \in Namespace : IsFiniteSet(Taken(s))'
  BY <1>1 DEF RInv, NamesMatch, CountsMatch, NoGhostLock, Taken, Live, Free, Allowed
<1>. QED
  BY <1>1, <1>2, <1>3, <1>4 DEF RInv

\* So does one that answers a caller.
LEMMA ReturnStep ==
  ASSUME RInv, NEW p \in Proc, NEW c \in Code \ {"none"},
         Returns(p, c),
         UNCHANGED <<locks, nsCounts, named, deleted, itemMu, readers>>
  PROVE  RInv'
<1> DEFINE g == [proc[p] EXCEPT !.pc = "done", !.code = c, !.todo = {}]
<1>1. proc[p] \in Goroutine
  BY DEF RInv, RegistryTypeOK
<1>2. g \in Goroutine /\ g.pc = "done" /\ g.code = c /\ g.todo = {}
      /\ g.before = proc[p].before
  BY <1>1 DEF Goroutine, Place, Code
<1>3. PlaceOK(p, g, Created, deleted, itemMu)
  BY <1>2 DEF RInv, PlacesOK, PlaceOK
<1>4. readers' \subseteq Proc
  BY DEF RInv, RegistryTypeOK
<1>. HIDE DEF g
<1>5. Goes(p, g)
  BY DEF Returns, g
<1>. QED
  BY <1>2, <1>3, <1>4, <1>5, MoveStep

-----------------------------------------------------------------------------
(* Every step keeps the invariant.                                         *)

LEMMA InitIsGood == RegistryInit => RInv
<1>. SUFFICES ASSUME RegistryInit PROVE RInv
  OBVIOUS
<1>1. Created = {} /\ DOMAIN itemMu = {}
  BY DEF RegistryInit, Created
<1>2. Cardinality(Created) = 0 /\ 1..0 = {}
  BY <1>1, FS_EmptySet
<1>3. NoCall \in Goroutine
  BY RegistryAssumption DEF NoCall, Goroutine, Place, Operation, Code
<1>4. RegistryTypeOK
  BY <1>1, <1>2, <1>3 DEF RegistryInit, RegistryTypeOK
<1>5. NamesMatch /\ NoGhostLock
  BY <1>1 DEF RegistryInit, NamesMatch, NoGhostLock
<1>6. PlacesOK
  BY DEF RegistryInit, PlacesOK, PlaceOK, NoCall
<1>7. \A s \in Namespace :
        Taken(s) = {} /\ {n \in Name : NamespaceOf[n] = s /\ locks[n] # 0} = {}
  BY DEF RegistryInit, Taken
<1>8. CountsMatch /\ \A s \in Namespace : IsFiniteSet(Taken(s))
  <2>1. ASSUME NEW s \in Namespace
        PROVE  /\ nsCounts[s] = Cardinality({n \in Name : NamespaceOf[n] = s /\ locks[n] # 0})
               /\ nsCounts[s] <= Quota
               /\ IsFiniteSet(Taken(s))
    <3>1. nsCounts[s] = 0 /\ nsCounts[s] <= Quota
      BY RegistryAssumption DEF RegistryInit
    <3>. QED
      BY <1>7, <3>1, FS_EmptySet, Zenon
  <2>. QED
    BY <2>1 DEF CountsMatch
<1>. QED
  BY <1>2, <1>4, <1>5, <1>6, <1>8, RegistryAssumption DEF RInv

\* A record is made: its name was free, and its namespace's count below the quota.
LEMMA NewRecordStep ==
  ASSUME RInv, NEW p \in Proc, NEW n \in Name,
         proc[p].pc = "idle", Allowed(n), CanCreate(n),
         Cardinality(Created) < MaxRecord,
         NEW r, r = Cardinality(Created) + 1,
         named' = [q \in Created \cup {r} |-> IF q = r THEN n ELSE named[q]],
         locks' = [locks EXCEPT ![n] = r],
         nsCounts' = [nsCounts EXCEPT ![NamespaceOf[n]] = @ + 1],
         Returns(p, "ok"),
         UNCHANGED <<deleted, itemMu, readers>>
  PROVE  RInv'
<1> DEFINE g == [proc[p] EXCEPT !.pc = "done", !.code = "ok", !.todo = {}]
<1>1. /\ Created' = Created \cup {r} /\ r \notin Created /\ r \in 1..MaxRecord
      /\ 0 \notin Created
  BY RecordsAreNumbered DEF RInv, Created
<1>2. Cardinality(Created') = r /\ Created' = 1..r
  <2>1. Created' = 1..r
    BY <1>1 DEF RInv, RegistryTypeOK
  <2>. QED
    <3>1. 1 \in Int /\ r \in Int /\ r >= 1
      BY <1>1, RecordsAreNumbered
    <3>2. Cardinality(1..r) = r
      BY <3>1, FS_Interval
    <3>. QED
      BY <2>1, <3>2
<1>3. \A m \in Name : locks'[m] = IF m = n THEN r ELSE locks[m]
  BY DEF RInv, RegistryTypeOK
<1>4. \A q \in Created' : named'[q] = IF q = r THEN n ELSE named[q]
  BY <1>1
<1>5. \A q \in Proc : proc'[q] = IF q = p THEN g ELSE proc[q]
  BY DEF RInv, RegistryTypeOK, Returns, Goes
<1>6. proc[p] \in Goroutine /\ proc[p] = NoCall
  BY DEF RInv, RegistryTypeOK, PlacesOK, PlaceOK
<1>7. g \in Goroutine
  BY <1>6 DEF Goroutine, Place, Code
<1>8. RegistryTypeOK'
  <2>1. nsCounts' \in [Namespace -> Nat]
    BY DEF RInv, RegistryTypeOK, Allowed
  <2>2. locks' \in [Name -> {0} \cup Created']
    BY <1>1 DEF RInv, RegistryTypeOK
  <2>3. proc' \in [Proc -> Goroutine]
    BY <1>7 DEF RInv, RegistryTypeOK, Returns, Goes
  <2>. QED
    BY <1>1, <1>2, <1>4, <2>1, <2>2, <2>3 DEF RInv, RegistryTypeOK
<1>9. NamesMatch'
  BY <1>1, <1>3, <1>4 DEF RInv, RegistryTypeOK, NamesMatch, Allowed
<1>10. PlacesOK'
  <2>1. PlaceOK(p, g, Created', deleted', itemMu')
    BY <1>6 DEF PlaceOK, NoCall
  <2>2. ASSUME NEW q \in Proc PROVE PlaceOK(q, proc[q], Created', deleted', itemMu')
    <3>1. /\ PlaceOK(q, proc[q], Created, deleted, itemMu)
          /\ Created \subseteq Created' /\ deleted \subseteq deleted'
          /\ itemMu' = itemMu
          /\ proc[q].pc = "removing" => proc[q].rec \in DOMAIN itemMu
      BY <1>1 DEF RInv, PlacesOK, PlaceOK
    <3>. QED
      BY <3>1, PlaceKept
  <2>. QED
    BY <1>5, <2>1, <2>2 DEF PlacesOK
<1>11. NoGhostLock'
  BY <1>1, <1>3, <1>4 DEF RInv, RegistryTypeOK, NoGhostLock, Live, Free, CanCreate
<1>12. ASSUME NEW s \in Namespace
       PROVE  /\ IsFiniteSet(Taken(s))'
              /\ nsCounts'[s] = Cardinality(Taken(s))'
              /\ nsCounts'[s] <= Quota
  <2>1. /\ IsFiniteSet(Taken(s)) /\ nsCounts[s] = Cardinality(Taken(s))
        /\ nsCounts[s] <= Quota /\ nsCounts[s] \in Nat
    BY DEF RInv, RegistryTypeOK, CountsMatch, Taken
  <2>2. CASE s = NamespaceOf[n]
    <3>1. Taken(s)' = Taken(s) \cup {n} /\ n \notin Taken(s)
      BY <1>1, <1>3, <2>2 DEF Taken, CanCreate
    <3>2. /\ IsFiniteSet(Taken(s) \cup {n})
          /\ Cardinality(Taken(s) \cup {n}) = Cardinality(Taken(s)) + 1
      BY <2>1, <3>1, FS_AddElement
    <3>3. nsCounts'[s] = nsCounts[s] + 1 /\ nsCounts[s] < Quota
      BY <2>2 DEF RInv, RegistryTypeOK, CanCreate
    <3>. QED
      BY <2>1, <3>1, <3>2, <3>3, RegistryAssumption
  <2>3. CASE s # NamespaceOf[n]
    <3>1. Taken(s)' = Taken(s)
      BY <1>3, <2>3 DEF Taken
    <3>2. nsCounts'[s] = nsCounts[s]
      BY <2>3 DEF RInv, RegistryTypeOK, Allowed
    <3>. QED
      BY <2>1, <3>1, <3>2
  <2>. QED
    BY <2>2, <2>3
<1>13. CountsMatch'
  BY <1>12 DEF CountsMatch, Taken
<1>. QED
  BY <1>1, <1>2, <1>8, <1>9, <1>10, <1>11, <1>12, <1>13 DEF RInv

LEMMA CreateStep ==
  ASSUME RInv, NEW p \in Proc, Create(p)
  PROVE  RInv'
<1>1. PICK n \in Name :
       \/ ~Allowed(n) /\ Returns(p, "denied") /\ UNCHANGED <<locks, nsCounts, named>>
       \/ /\ Allowed(n) /\ WriteLock /\ ~CanCreate(n)
          /\ Returns(p, IF locks[n] # 0 THEN "exists" ELSE "quota")
          /\ UNCHANGED <<locks, nsCounts, named>>
       \/ /\ Allowed(n) /\ WriteLock /\ CanCreate(n)
          /\ Cardinality(Created) < MaxRecord
          /\ LET r == Cardinality(Created) + 1
             IN /\ named' = [q \in Created \cup {r} |-> IF q = r THEN n ELSE named[q]]
                /\ locks' = [locks EXCEPT ![n] = r]
          /\ nsCounts' = [nsCounts EXCEPT ![NamespaceOf[n]] = @ + 1]
          /\ Returns(p, "ok")
  BY DEF Create
<1>2. proc[p].pc = "idle" /\ UNCHANGED <<deleted, itemMu, readers>>
  BY DEF Create
<1>3. CASE ~Allowed(n)
  BY <1>1, <1>2, <1>3, ReturnStep DEF Code
<1>4. CASE Allowed(n) /\ ~CanCreate(n)
  <2>1. CASE locks[n] # 0
    BY <1>1, <1>2, <1>4, <2>1, ReturnStep DEF Code
  <2>2. CASE locks[n] = 0
    BY <1>1, <1>2, <1>4, <2>2, ReturnStep DEF Code
  <2>. QED
    BY <2>1, <2>2
<1>5. CASE Allowed(n) /\ CanCreate(n)
  BY <1>1, <1>2, <1>5, NewRecordStep
<1>. QED
  BY <1>3, <1>4, <1>5

LEMMA FindStep ==
  ASSUME RInv, NEW p \in Proc, Find(p)
  PROVE  RInv'
<1>1. PICK n \in Name, op \in {"use", "delete"} :
       \/ ~Allowed(n) /\ Returns(p, "denied")
       \/ Allowed(n) /\ locks[n] = 0 /\ Returns(p, "not_found")
       \/ /\ Allowed(n) /\ locks[n] # 0
          /\ Goes(p, [NoCall EXCEPT !.pc = "found", !.op = op, !.rec = locks[n]])
  BY DEF Find
<1>2. UNCHANGED <<locks, nsCounts, named, deleted, itemMu, readers>>
  BY DEF Find
<1>3. CASE Returns(p, "denied") \/ Returns(p, "not_found")
  BY <1>2, <1>3, ReturnStep DEF Code
<1>4. CASE locks[n] # 0 /\ Goes(p, [NoCall EXCEPT !.pc = "found", !.op = op, !.rec = locks[n]])
  <2> DEFINE g == [NoCall EXCEPT !.pc = "found", !.op = op, !.rec = locks[n]]
  <2>1. locks[n] \in Created /\ locks[n] \in 0..MaxRecord
    BY <1>4, RecordsAreNumbered DEF RInv, RegistryTypeOK
  <2>2. /\ g \in Goroutine /\ g.pc = "found" /\ g.op = op /\ g.rec = locks[n]
        /\ g.todo = {} /\ g.before = {} /\ g.code = "none"
    BY <2>1 DEF NoCall, Goroutine, Place, Operation, Code
  <2>3. PlaceOK(p, g, Created, deleted, itemMu)
    BY <2>1, <2>2 DEF PlaceOK
  <2>4. readers' \subseteq Proc
    BY <1>2 DEF RInv, RegistryTypeOK
  <2>. HIDE DEF g
  <2>5. Goes(p, g)
    BY <1>4 DEF g
  <2>. QED
    BY <1>2, <2>2, <2>3, <2>4, <2>5, MoveStep
<1>. QED
  BY <1>1, <1>3, <1>4

LEMMA UseStep ==
  ASSUME RInv, NEW p \in Proc, Use(p)
  PROVE  RInv'
<1>1. UNCHANGED <<locks, nsCounts, named, deleted, itemMu, readers>>
  BY DEF Use
<1>2. CASE proc[p].rec \in deleted
  BY <1>1, <1>2, ReturnStep DEF Use, Code
<1>3. CASE proc[p].rec \notin deleted
  BY <1>1, <1>3, ReturnStep DEF Use, Code
<1>. QED
  BY <1>2, <1>3

\* A record is marked by a goroutine that has it and is about to remove it.
LEMMA MarkStep ==
  ASSUME RInv, NEW p \in Proc, NEW r \in Created,
         Mark(p, r), proc[p].op \in {"delete", "scan"}
  PROVE  RInv'
<1> DEFINE g == [proc[p] EXCEPT !.pc = "removing", !.rec = r, !.todo = @ \ {r}]
<1>1. /\ Free(r) /\ deleted' = deleted \cup {r}
      /\ DOMAIN itemMu' = DOMAIN itemMu \cup {r}
      /\ \A q \in DOMAIN itemMu' : itemMu'[q] = IF q = r THEN p ELSE itemMu[q]
      /\ UNCHANGED <<locks, nsCounts, named, readers>>
      /\ Created' = Created
  BY DEF Mark, Created
<1>2. proc[p] \in Goroutine /\ r \in 0..MaxRecord
  BY RecordsAreNumbered DEF RInv, RegistryTypeOK
<1>3. /\ g \in Goroutine /\ g.pc = "removing" /\ g.rec = r /\ g.op = proc[p].op
      /\ g.todo \subseteq proc[p].todo /\ g.before = proc[p].before
  BY <1>2 DEF Goroutine, Place
<1>4. PlaceOK(p, g, Created', deleted', itemMu')
  BY <1>1, <1>3 DEF RInv, PlacesOK, PlaceOK
<1>. HIDE DEF g
<1>5. proc' = [proc EXCEPT ![p] = g]
  BY DEF Mark, Goes, g
<1>6. \A q \in Proc : proc'[q] = IF q = p THEN g ELSE proc[q]
  BY <1>5 DEF RInv, RegistryTypeOK
<1>7. RegistryTypeOK'
  <2>1. proc' \in [Proc -> Goroutine]
    BY <1>3, <1>5 DEF RInv, RegistryTypeOK
  <2>. QED
    BY <1>1, <2>1 DEF RInv, RegistryTypeOK
<1>8. PlacesOK'
  <2>1. ASSUME NEW q \in Proc PROVE PlaceOK(q, proc[q], Created', deleted', itemMu')
    <3>1. /\ PlaceOK(q, proc[q], Created, deleted, itemMu)
          /\ Created \subseteq Created' /\ deleted \subseteq deleted'
          /\ proc[q].pc = "removing" =>
               proc[q].rec \in DOMAIN itemMu' /\ itemMu'[proc[q].rec] = itemMu[proc[q].rec]
      BY <1>1 DEF RInv, PlacesOK, PlaceOK, Free
    <3>. QED
      BY <3>1, PlaceKept
  <2>. QED
    BY <1>4, <1>6, <2>1 DEF PlacesOK
<1>9. NamesMatch' /\ CountsMatch' /\ \A s \in Namespace : IsFiniteSet(Taken(s))'
  BY <1>1 DEF RInv, NamesMatch, CountsMatch, Taken, Allowed
<1>10. NoGhostLock'
  BY <1>1 DEF RInv, NoGhostLock, Live, Free
<1>. QED
  BY <1>1, <1>7, <1>8, <1>9, <1>10 DEF RInv

LEMMA DeleteSectionStep ==
  ASSUME RInv, NEW p \in Proc, DeleteSection(p)
  PROVE  RInv'
<1>1. proc[p].rec \in Created /\ proc[p].op = "delete"
  BY DEF DeleteSection, RInv, PlacesOK, PlaceOK
<1>2. CASE Mark(p, proc[p].rec)
  BY <1>1, <1>2, MarkStep
<1>3. CASE ~Mark(p, proc[p].rec)
  BY <1>3, ReturnStep DEF DeleteSection, Code
<1>. QED
  BY <1>2, <1>3

\* What remove leaves behind: the record is gone from its name, no other name is
\* touched, and each count is still the number of the names taken.
LEMMA UnregisterKeepsCounts ==
  ASSUME RInv, NEW r \in Created, Unregister(r)
  PROVE  /\ locks' \in [Name -> {0} \cup Created]
         /\ nsCounts' \in [Namespace -> Nat]
         /\ \A n \in Name : locks'[n] = IF locks[n] = r THEN 0 ELSE locks[n]
         /\ \A s \in Namespace : /\ IsFiniteSet(Taken(s)')
                                 /\ nsCounts'[s] = Cardinality(Taken(s)')
                                 /\ nsCounts'[s] <= Quota
<1>1. r # 0 /\ named[r] \in Name
  BY RecordsAreNumbered DEF RInv, RegistryTypeOK
<1>2. \A n \in Name : locks[n] = r => n = named[r] /\ Allowed(n)
  BY <1>1 DEF RInv, NamesMatch
<1>3. ASSUME NEW s \in Namespace
      PROVE  /\ IsFiniteSet(Taken(s)) /\ nsCounts[s] = Cardinality(Taken(s))
             /\ nsCounts[s] <= Quota /\ nsCounts[s] \in Nat
  BY DEF RInv, RegistryTypeOK, CountsMatch, Taken
<1>4. CASE locks[named[r]] # r
  <2>1. locks' = locks /\ nsCounts' = nsCounts
    BY <1>4 DEF Unregister
  <2>2. \A s \in Namespace : Taken(s)' = Taken(s)
    BY <2>1 DEF Taken
  <2>. QED
    BY <1>2, <1>3, <1>4, <2>1, <2>2 DEF RInv, RegistryTypeOK
<1>5. CASE locks[named[r]] = r
  <2> DEFINE n == named[r]
  <2>1. /\ locks' = [locks EXCEPT ![n] = 0]
        /\ nsCounts' = [nsCounts EXCEPT ![NamespaceOf[n]] = @ - 1]
        /\ n \in Name /\ locks[n] = r /\ NamespaceOf[n] \in Namespace
    BY <1>1, <1>2, <1>5 DEF Unregister, Allowed
  <2>. HIDE DEF n
  <2>2. /\ locks' \in [Name -> {0} \cup Created]
        /\ \A m \in Name : locks'[m] = IF m = n THEN 0 ELSE locks[m]
    BY <2>1 DEF RInv, RegistryTypeOK
  <2>3. \A m \in Name : locks'[m] = IF locks[m] = r THEN 0 ELSE locks[m]
    BY <1>2, <2>1, <2>2 DEF n
  <2>4. ASSUME NEW s \in Namespace
        PROVE  /\ IsFiniteSet(Taken(s)')
               /\ nsCounts'[s] = Cardinality(Taken(s)')
               /\ nsCounts'[s] <= Quota /\ nsCounts'[s] \in Nat
    <3>1. CASE s = NamespaceOf[n]
      <4>1. Taken(s)' = Taken(s) \ {n} /\ n \in Taken(s)
        BY <1>1, <2>1, <2>2, <3>1 DEF Taken
      <4>2. /\ IsFiniteSet(Taken(s) \ {n}) /\ Cardinality(Taken(s) \ {n}) \in Nat
            /\ Cardinality(Taken(s) \ {n}) = Cardinality(Taken(s)) - 1
        BY <1>3, <4>1, FS_RemoveElement, FS_CardinalityType
      <4>3. nsCounts'[s] = nsCounts[s] - 1
        BY <2>1, <3>1 DEF RInv, RegistryTypeOK
      <4>. QED
        BY <1>3, <4>1, <4>2, <4>3, RegistryAssumption
    <3>2. CASE s # NamespaceOf[n]
      <4>1. Taken(s)' = Taken(s)
        BY <2>2, <3>2 DEF Taken
      <4>2. nsCounts'[s] = nsCounts[s]
        BY <2>1, <3>2 DEF RInv, RegistryTypeOK
      <4>. QED
        BY <1>3, <4>1, <4>2
    <3>. QED
      BY <3>1, <3>2
  <2>5. nsCounts' \in [Namespace -> Nat]
    BY <2>1, <2>4 DEF RInv, RegistryTypeOK
  <2>. QED
    BY <2>2, <2>3, <2>4, <2>5
<1>. QED
  BY <1>4, <1>5

LEMMA RemoveStep ==
  ASSUME RInv, NEW p \in Proc, Remove(p)
  PROVE  RInv'
<1> DEFINE r == proc[p].rec
           answer == IF locks[named[r]] = r THEN "ok" ELSE "not_found"
           g == IF proc[p].op = "delete"
                THEN [proc[p] EXCEPT !.pc = "done", !.code = answer, !.todo = {}]
                ELSE [proc[p] EXCEPT !.pc = "walking", !.rec = 0]
<1>1. /\ proc[p] \in Goroutine /\ PlaceOK(p, proc[p], Created, deleted, itemMu)
      /\ proc[p].pc = "removing"
  BY DEF Remove, RInv, RegistryTypeOK, PlacesOK
<1>2. /\ r \in Created /\ r \in deleted /\ r \in DOMAIN itemMu /\ itemMu[r] = p
      /\ proc[p].op \in {"delete", "scan"}
  BY <1>1 DEF PlaceOK, RInv, RegistryTypeOK
<1>3. g \in Goroutine
  <2>1. 0 \in 0..MaxRecord
    BY RegistryAssumption
  <2>. QED
    BY <1>1, <2>1 DEF Goroutine, Place, Code
<1>4. /\ g.pc \in {"done", "walking"} /\ g.op = proc[p].op /\ g.todo \subseteq proc[p].todo
      /\ g.before = proc[p].before
      /\ g.pc = "walking" => g.op = "scan"
      /\ g.op = "use" => g.code # "none"
  BY <1>1, <1>2 DEF Goroutine
<1>5. /\ Unregister(r)
      /\ itemMu' = [q \in DOMAIN itemMu \ {r} |-> itemMu[q]]
      /\ UNCHANGED <<named, deleted, readers>>
      /\ Created' = Created
  BY DEF Remove, Created
<1>6. Goes(p, g)
  BY DEF Remove, Returns
<1>7. PlaceOK(p, g, Created', deleted', itemMu')
  BY <1>1, <1>4, <1>5 DEF PlaceOK
<1>. HIDE DEF g
<1>8. \A q \in Proc : proc'[q] = IF q = p THEN g ELSE proc[q]
  BY <1>6 DEF RInv, RegistryTypeOK, Goes
<1>9. /\ locks' \in [Name -> {0} \cup Created]
      /\ nsCounts' \in [Namespace -> Nat]
      /\ \A n \in Name : locks'[n] = IF locks[n] = r THEN 0 ELSE locks[n]
      /\ \A s \in Namespace : /\ IsFiniteSet(Taken(s)')
                              /\ nsCounts'[s] = Cardinality(Taken(s)')
                              /\ nsCounts'[s] <= Quota
  BY <1>2, <1>5, UnregisterKeepsCounts
<1>. HIDE DEF r
<1>10. RegistryTypeOK'
  <2>1. proc' \in [Proc -> Goroutine]
    BY <1>3, <1>6 DEF RInv, RegistryTypeOK, Goes
  <2>. QED
    BY <1>5, <1>9, <2>1 DEF RInv, RegistryTypeOK
<1>11. PlacesOK'
  <2>1. ASSUME NEW q \in Proc, q # p
        PROVE  PlaceOK(q, proc[q], Created', deleted', itemMu')
    <3>1. PlaceOK(q, proc[q], Created, deleted, itemMu)
      BY DEF RInv, PlacesOK
    <3>2. proc[q].pc = "removing" =>
            proc[q].rec \in DOMAIN itemMu' /\ itemMu'[proc[q].rec] = itemMu[proc[q].rec]
      BY <1>2, <1>5, <2>1, <3>1 DEF PlaceOK
    <3>. QED
      BY <1>5, <3>1, <3>2, PlaceKept
  <2>. QED
    BY <1>7, <1>8, <2>1 DEF PlacesOK
<1>12. NamesMatch'
  BY <1>5, <1>9 DEF RInv, NamesMatch, Allowed
<1>13. CountsMatch'
  BY <1>9 DEF CountsMatch, Taken
<1>14. NoGhostLock'
  <2>1. r # 0
    BY <1>2, RecordsAreNumbered
  <2>. QED
    BY <1>2, <1>5, <1>9, <2>1 DEF RInv, RegistryTypeOK, NoGhostLock, Live, Free
<1>. QED
  BY <1>5, <1>9, <1>10, <1>11, <1>12, <1>13, <1>14 DEF RInv

-----------------------------------------------------------------------------
(* The walkers.                                                            *)

LEMMA StartWalkStep ==
  ASSUME RInv, NEW p \in Proc, StartWalk(p)
  PROVE  RInv'
<1>1. PICK op \in {"list", "scan"} :
        Goes(p, [NoCall EXCEPT !.pc = "copying", !.op = op, !.before = Created \ deleted])
  BY DEF StartWalk
<1> DEFINE live == Created \ deleted
           g == [NoCall EXCEPT !.pc = "copying", !.op = op, !.before = live]
<1>2. live \subseteq Created /\ live \in SUBSET (1..MaxRecord) /\ 0 \in 0..MaxRecord
  BY RecordsAreNumbered
<1>. HIDE DEF live
<1>3. /\ g \in Goroutine /\ g.pc = "copying" /\ g.op = op /\ g.todo = {}
      /\ g.before = live /\ g.code = "none"
  BY <1>2 DEF NoCall, Goroutine, Place, Operation, Code
<1>4. PlaceOK(p, g, Created, deleted, itemMu)
  BY <1>2, <1>3 DEF PlaceOK
<1>5. readers' \subseteq Proc /\ UNCHANGED <<locks, nsCounts, named, deleted, itemMu>>
  BY DEF StartWalk, RInv, RegistryTypeOK
<1>. HIDE DEF g
<1>6. Goes(p, g)
  BY <1>1 DEF g, live
<1>. QED
  BY <1>3, <1>4, <1>5, <1>6, MoveStep

\* Every live record is among the pointers copied.
LEMMA CopyStep ==
  ASSUME RInv, NEW p \in Proc, Copy(p)
  PROVE  RInv'
<1> DEFINE held == {locks[n] : n \in Name} \ {0}
           g == [proc[p] EXCEPT !.pc = "walking", !.todo = held]
<1>1. /\ proc[p] \in Goroutine /\ PlaceOK(p, proc[p], Created, deleted, itemMu)
      /\ proc[p].pc = "copying"
  BY DEF Copy, RInv, RegistryTypeOK, PlacesOK
<1>2. held \subseteq Created
  BY DEF RInv, RegistryTypeOK
<1>3. \A r \in Created \ deleted : r \in held
  BY RecordsAreNumbered DEF RInv, RegistryTypeOK, NoGhostLock, Live
<1>. HIDE DEF held
<1>4. /\ g \in Goroutine /\ g.pc = "walking" /\ g.op = proc[p].op /\ g.todo = held
      /\ g.before = proc[p].before
  BY <1>1, <1>2, RecordsAreNumbered DEF Goroutine, Place
<1>5. PlaceOK(p, g, Created, deleted, itemMu)
  BY <1>1, <1>2, <1>3, <1>4 DEF PlaceOK
<1>6. readers' \subseteq Proc /\ UNCHANGED <<locks, nsCounts, named, deleted, itemMu>>
  BY DEF Copy, RInv, RegistryTypeOK
<1>. HIDE DEF g
<1>7. Goes(p, g)
  BY DEF Copy, g, held
<1>. QED
  BY <1>4, <1>5, <1>6, <1>7, MoveStep

\* A walker that passes over a record keeps the invariant, if it need not list it.
LEMMA SkipStep ==
  ASSUME RInv, NEW p \in Proc, proc[p].pc = "walking", NEW r, Skip(p, r),
         proc[p].op = "list" => r \in deleted
  PROVE  RInv'
<1> DEFINE g == [proc[p] EXCEPT !.todo = @ \ {r}]
<1>1. proc[p] \in Goroutine /\ PlaceOK(p, proc[p], Created, deleted, itemMu)
  BY DEF RInv, RegistryTypeOK, PlacesOK
<1>2. /\ g \in Goroutine /\ g.pc = "walking" /\ g.op = proc[p].op
      /\ g.todo = proc[p].todo \ {r}
      /\ g.before = proc[p].before /\ g.listed = proc[p].listed
  BY <1>1 DEF Goroutine
<1>3. PlaceOK(p, g, Created, deleted, itemMu)
  BY <1>1, <1>2 DEF PlaceOK
<1>4. readers' \subseteq Proc /\ UNCHANGED <<locks, nsCounts, named, deleted, itemMu>>
  BY DEF Skip, RInv, RegistryTypeOK
<1>. HIDE DEF g
<1>5. Goes(p, g)
  BY DEF Skip, g
<1>. QED
  BY <1>2, <1>3, <1>4, <1>5, MoveStep

LEMMA ListRecordStep ==
  ASSUME RInv, NEW p \in Proc, ListRecord(p)
  PROVE  RInv'
<1>1. PICK r \in proc[p].todo :
        \/ r \in deleted /\ Skip(p, r)
        \/ /\ r \notin deleted /\ Free(r)
           /\ Goes(p, [proc[p] EXCEPT !.todo = @ \ {r}, !.listed = @ \cup {r}])
           /\ UNCHANGED <<locks, nsCounts, named, deleted, itemMu, readers>>
  BY DEF ListRecord
<1>2. /\ proc[p] \in Goroutine /\ PlaceOK(p, proc[p], Created, deleted, itemMu)
      /\ proc[p].pc = "walking"
  BY DEF ListRecord, RInv, RegistryTypeOK, PlacesOK
<1>3. CASE r \in deleted /\ Skip(p, r)
  BY <1>2, <1>3, SkipStep
<1>4. CASE /\ Goes(p, [proc[p] EXCEPT !.todo = @ \ {r}, !.listed = @ \cup {r}])
           /\ UNCHANGED <<locks, nsCounts, named, deleted, itemMu, readers>>
  <2> DEFINE g == [proc[p] EXCEPT !.todo = @ \ {r}, !.listed = @ \cup {r}]
  <2>1. r \in 1..MaxRecord
    BY <1>2 DEF Goroutine
  <2>2. /\ g \in Goroutine /\ g.pc = "walking" /\ g.op = proc[p].op
        /\ g.todo = proc[p].todo \ {r} /\ g.listed = proc[p].listed \cup {r}
        /\ g.before = proc[p].before
    BY <1>2, <2>1 DEF Goroutine
  <2>3. PlaceOK(p, g, Created, deleted, itemMu)
    BY <1>2, <2>2 DEF PlaceOK
  <2>4. readers' \subseteq Proc
    BY <1>4 DEF RInv, RegistryTypeOK
  <2>. HIDE DEF g
  <2>5. Goes(p, g)
    BY <1>4 DEF g
  <2>. QED
    BY <1>4, <2>2, <2>3, <2>4, <2>5, MoveStep
<1>. QED
  BY <1>1, <1>3, <1>4

LEMMA ScanRecordStep ==
  ASSUME RInv, NEW p \in Proc, ScanRecord(p)
  PROVE  RInv'
<1>1. PICK r \in proc[p].todo : Skip(p, r) \/ (r \notin deleted /\ Mark(p, r))
  BY DEF ScanRecord
<1>2. proc[p].pc = "walking" /\ proc[p].op = "scan" /\ r \in Created
  BY DEF ScanRecord, RInv, PlacesOK, PlaceOK
<1>. QED
  BY <1>1, <1>2, SkipStep, MarkStep

LEMMA EndWalkStep ==
  ASSUME RInv, NEW p \in Proc, EndWalk(p)
  PROVE  RInv'
BY ReturnStep DEF EndWalk, Code

-----------------------------------------------------------------------------
(* The theorems.                                                           *)

LEMMA StutterStep ==
  ASSUME RInv, UNCHANGED vars
  PROVE  RInv'
<1>1. Created' = Created /\ \A s : Taken(s)' = Taken(s)
  BY DEF vars, Created, Taken
<1>2. RegistryTypeOK' /\ PlacesOK' /\ NamesMatch' /\ CountsMatch' /\ NoGhostLock'
  BY <1>1 DEF RInv, vars, RegistryTypeOK, PlacesOK, NamesMatch, CountsMatch,
              NoGhostLock, Live, Free, Allowed
<1>. QED
  BY <1>1, <1>2 DEF RInv

\* The registry's maps, flags, mutexes and goroutines stay consistent in every
\* behaviour (registry.go, and the walks and deletions of service.go).
THEOREM RegistryInvariance == RegistrySpec => []RInv
<1>1. RInv /\ [RegistryNext]_vars => RInv'
  <2>. SUFFICES ASSUME RInv, [RegistryNext]_vars PROVE RInv'
    OBVIOUS
  <2>1. CASE UNCHANGED vars
    BY <2>1, StutterStep
  <2>2. ASSUME NEW p \in Proc, Create(p) \/ Find(p) \/ StartWalk(p) \/ Continue(p)
        PROVE  RInv'
    <3>1. CASE Create(p)
      BY <3>1, CreateStep
    <3>2. CASE Find(p)
      BY <3>2, FindStep
    <3>3. CASE StartWalk(p)
      BY <3>3, StartWalkStep
    <3>4. CASE Use(p)
      BY <3>4, UseStep
    <3>5. CASE DeleteSection(p)
      BY <3>5, DeleteSectionStep
    <3>6. CASE Remove(p)
      BY <3>6, RemoveStep
    <3>7. CASE Copy(p)
      BY <3>7, CopyStep
    <3>8. CASE ListRecord(p)
      BY <3>8, ListRecordStep
    <3>9. CASE ScanRecord(p)
      BY <3>9, ScanRecordStep
    <3>10. CASE EndWalk(p)
      BY <3>10, EndWalkStep
    <3>. QED
      BY <2>2, <3>1, <3>2, <3>3, <3>4, <3>5, <3>6, <3>7, <3>8, <3>9, <3>10 DEF Continue
  <2>. QED
    BY <2>1, <2>2 DEF RegistryNext
<1>. QED
  BY InitIsGood, <1>1, PTL DEF RegistrySpec

\* The type invariant holds (registry.go:30, types.go:104).
THEOREM RegistryTypeCorrect == RegistrySpec => []RegistryTypeOK
<1>1. RInv => RegistryTypeOK
  BY DEF RInv
<1>. QED
  BY <1>1, RegistryInvariance, PTL

\* The counts that the quota is checked against are exact, and the quota is never
\* exceeded, however deletions by calls and by the expirer cross.
THEOREM CountsAreExact == RegistrySpec => []CountsMatch
<1>1. RInv => CountsMatch
  BY DEF RInv
<1>. QED
  BY <1>1, RegistryInvariance, PTL

\* No live record is out of the map, and no dead one is in it but for its deleter.
THEOREM OneLockPerName == RegistrySpec => []NoGhostLock
<1>1. RInv => NoGhostLock
  BY DEF RInv
<1>. QED
  BY <1>1, RegistryInvariance, PTL

\* A call works on the record its name stands for, though it looked the name up
\* some time ago and took the record's mutex only now (registry.go:112).
THEOREM CallsWorkOnRegistered == RegistrySpec => WorksOnRegistered
<1> DEFINE WorksStep ==
      \A p \in Proc :
        proc[p].op = "use" /\ proc'[p].code = "ok" /\ proc[p].code = "none"
          => \E n \in Name : locks[n] = proc[p].rec
<1>1. RInv /\ [RegistryNext]_vars => [WorksStep]_vars
  <2>. SUFFICES ASSUME RInv, RegistryNext,
                       NEW p \in Proc,
                       proc[p].op = "use", proc'[p].code = "ok", proc[p].code = "none"
                PROVE  \E n \in Name : locks[n] = proc[p].rec
    BY DEF vars
  <2>1. PlaceOK(p, proc[p], Created, deleted, itemMu) /\ proc[p].pc = "found"
    BY DEF RInv, PlacesOK, PlaceOK
  <2>2. PICK q \in Proc : Create(q) \/ Find(q) \/ StartWalk(q) \/ Continue(q)
    BY DEF RegistryNext
  <2>3. q = p
    <3>1. \A g : Goes(q, g) /\ q # p => proc'[p] = proc[p]
      BY DEF Goes, RInv, RegistryTypeOK
    <3>2. \E g : Goes(q, g)
      BY <2>2 DEF Create, Find, StartWalk, Continue, Use, DeleteSection, Mark, Remove,
                  Copy, ListRecord, Skip, ScanRecord, EndWalk, Returns
    <3>. QED
      BY <3>1, <3>2
  <2>4. Use(p)
    BY <2>1, <2>2, <2>3 DEF Create, Find, StartWalk, Continue, DeleteSection, Remove,
                            Copy, ListRecord, ScanRecord, EndWalk
  <2>5. proc'[p].code = IF proc[p].rec \in deleted THEN "not_found" ELSE "ok"
    BY <2>4 DEF Use, Returns, Goes, RInv, RegistryTypeOK, Goroutine
  <2>6. proc[p].rec \in Created \ deleted
    BY <2>1, <2>5 DEF PlaceOK
  <2>. QED
    BY <2>6 DEF RInv, RegistryTypeOK, NoGhostLock, Live
<1>. QED
  BY <1>1, RegistryInvariance, PTL DEF RegistrySpec, WorksOnRegistered

\* A list is complete, however many records come and go while it walks
\* (registry.go:124, service.go:288).
THEOREM ListsAreComplete == RegistrySpec => ListIsComplete
<1> DEFINE ListStep ==
      \A p \in Proc :
        proc[p].op = "list" /\ proc[p].pc = "walking" /\ proc'[p].pc = "done"
          => \A r \in proc[p].before : Live(r) => r \in proc[p].listed
<1>1. RInv /\ [RegistryNext]_vars => [ListStep]_vars
  <2>. SUFFICES ASSUME RInv, RegistryNext,
                       NEW p \in Proc,
                       proc[p].op = "list", proc[p].pc = "walking", proc'[p].pc = "done",
                       NEW r \in proc[p].before, Live(r)
                PROVE  r \in proc[p].listed
    BY DEF vars
  <2>1. r \in proc[p].listed \cup proc[p].todo
    BY DEF RInv, PlacesOK, PlaceOK, Live
  <2>2. PICK q \in Proc : Create(q) \/ Find(q) \/ StartWalk(q) \/ Continue(q)
    BY DEF RegistryNext
  <2>3. q = p
    <3>1. \A g : Goes(q, g) /\ q # p => proc'[p] = proc[p]
      BY DEF Goes, RInv, RegistryTypeOK
    <3>2. \E g : Goes(q, g)
      BY <2>2 DEF Create, Find, StartWalk, Continue, Use, DeleteSection, Mark, Remove,
                  Copy, ListRecord, Skip, ScanRecord, EndWalk, Returns
    <3>. QED
      BY <3>1, <3>2
  <2>4. ListRecord(p) \/ EndWalk(p)
    BY <2>2, <2>3 DEF Create, Find, StartWalk, Continue, Use, DeleteSection, Remove,
                      Copy, ScanRecord
  <2>5. ~ListRecord(p)
    <3>. SUFFICES ASSUME ListRecord(p) PROVE FALSE
      OBVIOUS
    <3>1. proc[p] \in Goroutine /\ DOMAIN proc = Proc
      BY DEF RInv, RegistryTypeOK
    <3>2. PICK x \in proc[p].todo :
            \/ proc' = [proc EXCEPT ![p] = [proc[p] EXCEPT !.todo = @ \ {x}]]
            \/ proc' = [proc EXCEPT ![p] = [proc[p] EXCEPT !.todo = @ \ {x},
                                                         !.listed = @ \cup {x}]]
      BY DEF ListRecord, Skip, Goes
    <3>3. proc'[p].pc = proc[p].pc
      BY <3>1, <3>2 DEF Goroutine
    <3>. QED
      BY <3>3
  <2>. QED
    BY <2>1, <2>4, <2>5 DEF EndWalk
<1>. QED
  BY <1>1, RegistryInvariance, PTL DEF RegistrySpec, ListIsComplete
=============================================================================
