---------------------------- MODULE SweepProofs ----------------------------
(***************************************************************************)
(* Proofs, for any files, sweeps and times with RequestTime + ReadTime <   *)
(* MinimumAge, that a sweep takes only files nobody can come to need, and  *)
(* that it takes all of them.                                              *)
(***************************************************************************)
EXTENDS OrphanSweep, TLAPS

USE DEF Reading, Sweeping

LEMMA InitIInv == Init => IInv
<1> SUFFICES ASSUME Init PROVE IInv
  OBVIOUS
<1>1. TypeOK
  BY TimingAssumption, FilesAssumption DEF Init, TypeOK, Lives, Labels
<1>2. ASSUME NEW f \in Files PROVE FileOK(f)
  BY FilesAssumption DEF Init, FileOK, Owed
<1>3. ASSUME NEW s \in Sweepers PROVE SweepOK(s) /\ PassedOK(s)
  BY DEF Init, SweepOK, PassedOK
<1> QED
  BY <1>1, <1>2, <1>3 DEF Init, IInv

-----------------------------------------------------------------------------
(* The API: what a step of it does to the life of a file. *)

LEMMA ServeType ==
  ASSUME TypeOK, NEW g \in Files, Serve(g)
  PROVE  /\ TypeOK'
         /\ UNCHANGED <<clock, pc, local, removed>>
<1>1. CASE Save(g)
  BY <1>1, TimingAssumption DEF Save, Live, TypeOK, Lives, local
<1>2. CASE Name(g)
  BY <1>2 DEF Name, Live, TypeOK, Lives, local
<1>3. CASE GiveUp(g)
  BY <1>3 DEF GiveUp, Live, TypeOK, Lives, local
<1>4. CASE LetGo(g)
  BY <1>4 DEF LetGo, Live, TypeOK, Lives, local
<1>5. CASE Dispose(g)
  BY <1>5 DEF Dispose, Live, TypeOK, Lives, local
<1> QED
  BY <1>1, <1>2, <1>3, <1>4, <1>5 DEF Serve

(* A file leaves "unsaved" by being saved now, comes into existence that   *)
(* way only, and never leaves the two last stages of its life.             *)
LEMMA ServeLife ==
  ASSUME IInv, NEW g \in Files, Serve(g), NEW f \in Files
  PROVE  /\ Settled(f) => Settled(f)'
         /\ FileOK(f)'
         /\ life[f] # "unsaved" =>
              /\ life'[f] # "unsaved"
              /\ savedAt'[f] = savedAt[f]
              /\ f \in stored' => f \in stored
         /\ life[f] = "unsaved" => \/ life'[f] = "unsaved" /\ f \notin stored'
                                   \/ savedAt'[f] = clock
<1>1. /\ life \in [Files -> Lives] /\ savedAt \in [Files -> Nat] /\ clock \in Nat
      /\ owedSince \in [Files -> Nat]
      /\ RequestTime \in Nat /\ FileOK(f)
  BY TimingAssumption DEF IInv, TypeOK
<1>2. CASE Save(g)
  BY <1>1, <1>2 DEF Save, Live, FileOK, Owed, Settled, Lives
<1>3. CASE Name(g)
  BY <1>1, <1>3 DEF Name, Live, FileOK, Owed, Settled, Lives
<1>4. CASE GiveUp(g)
  BY <1>1, <1>4 DEF GiveUp, Live, FileOK, Owed, Settled, Lives
<1>5. CASE LetGo(g)
  BY <1>1, <1>5 DEF LetGo, Live, FileOK, Owed, Settled, Lives
<1>6. CASE Dispose(g)
  BY <1>1, <1>6 DEF Dispose, Live, FileOK, Owed, Settled, Lives
<1> QED
  BY <1>2, <1>3, <1>4, <1>5, <1>6 DEF Serve

LEMMA ServeStep ==
  ASSUME IInv, NEW g \in Files, Serve(g)
  PROVE  IInv'
<1>1. /\ TypeOK'
      /\ UNCHANGED <<clock, pc, apply, startedAt, inUse, cutoff, storage, names, victim, removed>>
  BY ServeType DEF IInv, local
<1>2. \A f \in removed' : Settled(f)'
  BY <1>1, ServeLife DEF IInv, TypeOK
<1>3. \A f \in Files : FileOK(f)'
  BY ServeLife
<1>4. ASSUME NEW s \in Sweepers PROVE SweepOK(s)' /\ PassedOK(s)'
  <2>1. SweepOK(s) /\ PassedOK(s)
    BY DEF IInv
  <2>2. /\ startedAt[s] \in Nat /\ cutoff[s] \in Int /\ clock \in Nat
        /\ RequestTime \in Nat /\ ReadTime \in Nat /\ MinimumAge \in Nat
        /\ RequestTime + ReadTime < MinimumAge
        /\ names[s] \subseteq Files /\ victim[s] \subseteq Files
    BY TimingAssumption DEF IInv, TypeOK
  <2>3. ASSUME NEW f \in Files, startedAt[s] <= clock, Spared(f, s)
        PROVE  Spared(f, s)'
    <3>1. savedAt[f] \in Nat /\ savedAt'[f] \in Nat
      BY <1>1 DEF IInv, TypeOK
    <3> QED
      BY <1>1, <2>2, <2>3, <3>1, ServeLife DEF Spared, Settled
  <2>4. SweepOK(s)'
    BY <1>1, <2>1, <2>2, <2>3, ServeLife DEF SweepOK
  <2>5. ASSUME NEW f \in Files, pc[s] \in Sweeping \cup {"done"}, Overdue(f, s)'
        PROVE  Overdue(f, s)
    <3>1. cutoff[s] < clock
      BY <2>1, <2>2, <2>5 DEF SweepOK
    <3>2. savedAt'[f] # clock
      BY <1>1, <2>2, <2>5, <3>1 DEF Overdue
    <3>3. life[f] # "unsaved"
      BY <2>5, <3>2, ServeLife DEF Overdue
    <3> QED
      BY <1>1, <2>5, <3>3, ServeLife DEF Overdue
  <2>6. PassedOK(s)'
    BY <1>1, <2>1, <2>5 DEF PassedOK
  <2> QED
    BY <2>4, <2>6
<1> QED
  BY <1>1, <1>2, <1>3, <1>4 DEF IInv

-----------------------------------------------------------------------------
LEMMA TickStep ==
  ASSUME IInv, Tick
  PROVE  IInv'
<1>1. /\ clock \in Nat /\ clock' = clock + 1 /\ clock < MaxClock
      /\ RequestTime \in Nat /\ ReadTime \in Nat /\ MaxClock \in Nat
      /\ UNCHANGED <<life, savedAt, owedSince, stored, pc, apply, startedAt, inUse, cutoff,
                     storage, names, victim, removed>>
  BY TimingAssumption DEF IInv, TypeOK, Tick, api, local
<1>2. TypeOK'
  BY <1>1 DEF IInv, TypeOK
<1>3. ASSUME NEW f \in Files PROVE FileOK(f)'
  <2>1. savedAt[f] \in Nat /\ owedSince[f] \in Nat /\ FileOK(f)
    BY DEF IInv, TypeOK
  <2>2. Owed(f) => clock < owedSince[f] + RequestTime
    BY DEF Tick
  <2> QED
    BY <1>1, <2>1, <2>2 DEF FileOK, Owed
<1>4. ASSUME NEW s \in Sweepers PROVE SweepOK(s)' /\ PassedOK(s)'
  <2>1. startedAt[s] \in Nat /\ SweepOK(s) /\ PassedOK(s)
    BY DEF IInv, TypeOK
  <2>2. pc[s] \in Reading => clock < startedAt[s] + ReadTime
    BY DEF Tick
  <2>3. \A f \in Files : /\ Spared(f, s)' <=> Spared(f, s)
                         /\ Overdue(f, s)' <=> Overdue(f, s)
                         /\ Settled(f)' <=> Settled(f)
    BY <1>1 DEF Spared, Overdue, Settled
  <2>4. names[s] \subseteq Files /\ victim[s] \subseteq Files
    BY DEF IInv, TypeOK
  <2>5. SweepOK(s)'
    BY <1>1, <2>1, <2>2, <2>3, <2>4 DEF SweepOK
  <2>6. PassedOK(s)'
    BY <1>1, <2>1, <2>3 DEF PassedOK
  <2> QED
    BY <2>5, <2>6
<1> QED
  BY <1>1, <1>2, <1>3, <1>4 DEF IInv, Settled

-----------------------------------------------------------------------------
(* The sweeps. *)

LEMMA SweepType ==
  ASSUME TypeOK, NEW s \in Sweepers, Sweep(s)
  PROVE  /\ TypeOK'
         /\ UNCHANGED <<clock, life, savedAt, owedSince, apply>>
         /\ stored' \subseteq stored
<1>1. CASE ReadRefunds(s)
  BY <1>1 DEF ReadRefunds, Goto, Named, TypeOK, Labels, api
<1>2. CASE ReadAvatars(s)
  BY <1>2 DEF ReadAvatars, Goto, Named, TypeOK, Labels, api
<1>3. CASE ComputeCutoff(s)
  BY <1>3, TimingAssumption DEF ComputeCutoff, CutoffAt, Goto, TypeOK, Labels, api
<1>4. CASE List(s)
  BY <1>4 DEF List, Goto, TypeOK, Labels, api
<1>5. CASE Stat(s)
  BY <1>5 DEF Stat, Goto, TypeOK, Labels, api
<1>6. CASE Visit(s)
  <2>1. PICK f \in names[s] :
          /\ names' = [names EXCEPT ![s] = @ \ {f}]
          /\ IF f \in stored
             THEN victim' = [victim EXCEPT ![s] = {f}] /\ Goto(s, "unlink")
             ELSE UNCHANGED <<victim, pc>>
    BY <1>6 DEF Visit
  <2> QED
    BY <1>6, <2>1 DEF Visit, Goto, TypeOK, Labels, api
<1>7. CASE Unlink(s)
  BY <1>7 DEF Unlink, Goto, TypeOK, Labels, api, local
<1>8. CASE Advance(s)
  BY <1>8 DEF Advance, Goto, TypeOK, Labels, api
<1>9. ASSUME NEW kind, NEW label, Fail(s, kind, label)
      PROVE  TypeOK' /\ UNCHANGED <<clock, life, savedAt, owedSince, apply, stored>>
  BY <1>9 DEF Fail, Goto, TypeOK, Labels, api, local
<1> QED
  BY <1>1, <1>2, <1>3, <1>4, <1>5, <1>6, <1>7, <1>8, <1>9 DEF Sweep

(* A sweep leaves the variables of the others alone. *)
LEMMA SweepOthers ==
  ASSUME TypeOK, NEW s \in Sweepers, Sweep(s), NEW t \in Sweepers, t # s
  PROVE  /\ pc'[t] = pc[t] /\ startedAt'[t] = startedAt[t] /\ inUse'[t] = inUse[t]
         /\ cutoff'[t] = cutoff[t] /\ storage'[t] = storage[t]
         /\ names'[t] = names[t] /\ victim'[t] = victim[t]
<1>1. CASE ReadRefunds(s)
  BY <1>1 DEF ReadRefunds, Goto, TypeOK
<1>2. CASE ReadAvatars(s)
  BY <1>2 DEF ReadAvatars, Goto, TypeOK
<1>3. CASE ComputeCutoff(s)
  BY <1>3 DEF ComputeCutoff, Goto, TypeOK
<1>4. CASE List(s)
  BY <1>4 DEF List, Goto, TypeOK
<1>5. CASE Stat(s)
  BY <1>5 DEF Stat, Goto, TypeOK
<1>6. CASE Visit(s)
  BY <1>6 DEF Visit, Goto, TypeOK
<1>7. CASE Unlink(s)
  BY <1>7 DEF Unlink, Goto, TypeOK, local
<1>8. CASE Advance(s)
  BY <1>8 DEF Advance, Goto, TypeOK
<1>9. ASSUME NEW kind, NEW label, Fail(s, kind, label)
      PROVE  /\ pc'[t] = pc[t]
             /\ UNCHANGED <<startedAt, inUse, cutoff, storage, names, victim>>
  BY <1>9 DEF Fail, Goto, TypeOK, local
<1> QED
  BY <1>1, <1>2, <1>3, <1>4, <1>5, <1>6, <1>7, <1>8, <1>9 DEF Sweep

(* The references of a sweep, read while a request is in flight or after:   *)
(* a file that was not among them has no future, or is too young.          *)
LEMMA ReadSpares ==
  ASSUME IInv, NEW f \in Files, NEW start \in Nat, start <= clock, life[f] # "named"
  PROVE  Settled(f) \/ life[f] = "unsaved" \/ start <= savedAt[f] + RequestTime
<1>1. clock \in Nat /\ savedAt[f] \in Nat /\ RequestTime \in Nat /\ FileOK(f) /\ life[f] \in Lives
  BY TimingAssumption DEF IInv, TypeOK
<1> QED
  BY <1>1 DEF FileOK, Owed, Settled, Lives

(* What a sweep takes for an orphan has no future: the minimum age covers  *)
(* the longest request and the reading of the references.                  *)
LEMMA OrphansAreSettled ==
  ASSUME IInv, NEW s \in Sweepers, pc[s] \in Sweeping, NEW f \in stored,
         f \notin inUse[s], ~TooRecent(f, s)
  PROVE  Settled(f)
<1>1. f \in Files /\ savedAt[f] \in Nat /\ startedAt[s] \in Nat /\ cutoff[s] \in Int
  BY DEF IInv, TypeOK
<1>2. /\ RequestTime \in Nat /\ ReadTime \in Nat /\ MinimumAge \in Nat
      /\ RequestTime + ReadTime < MinimumAge
  BY TimingAssumption
<1>3. savedAt[f] <= cutoff[s] /\ cutoff[s] <= startedAt[s] + ReadTime - MinimumAge
  BY <1>1 DEF IInv, SweepOK, TooRecent
<1>4. Spared(f, s) /\ life[f] # "unsaved"
  BY <1>1 DEF IInv, SweepOK, FileOK
<1>5. ~(startedAt[s] <= savedAt[f] + RequestTime)
  BY <1>1, <1>2, <1>3
<1> QED
  BY <1>4, <1>5 DEF Spared

LEMMA SweepOwn ==
  ASSUME IInv, NEW s \in Sweepers, Sweep(s)
  PROVE  SweepOK(s)'
<1>1. /\ clock \in Nat /\ startedAt[s] \in Nat /\ cutoff[s] \in Int
      /\ RequestTime \in Nat /\ ReadTime \in Nat /\ MinimumAge \in Nat
      /\ names[s] \subseteq Files /\ SweepOK(s)
  BY TimingAssumption DEF IInv, TypeOK
<1>2. UNCHANGED <<clock, life, savedAt>> /\ TypeOK
  BY SweepType DEF IInv
<1>3. CASE ReadRefunds(s)
  <2>1. /\ pc'[s] = "readAvatars" /\ startedAt'[s] = clock
        /\ inUse'[s] = Named({"receipts", "payments"})
        /\ pc[s] = "idle" /\ storage' = storage
    BY <1>2, <1>3 DEF ReadRefunds, Goto, TypeOK
  <2>2. ASSUME NEW f \in Files, Home[f] # "avatars" PROVE Spared(f, s)'
    <3>1. f \notin inUse'[s] => life[f] # "named"
      BY <2>1, <2>2, FilesAssumption DEF Named
    <3> QED
      BY <1>1, <1>2, <2>1, <3>1, ReadSpares DEF Spared, Settled
  <2> QED
    BY <1>1, <1>2, <2>1, <2>2 DEF SweepOK
<1>4. CASE ReadAvatars(s)
  <2>1. /\ pc[s] = "readAvatars" /\ pc'[s] = "computeCutoff" /\ startedAt'[s] = startedAt[s]
        /\ inUse'[s] = inUse[s] \cup Named({"avatars"})
        /\ storage' = storage
    BY <1>2, <1>4 DEF ReadAvatars, Goto, TypeOK
  <2>2. ASSUME NEW f \in Files PROVE Spared(f, s)'
    <3>1. CASE Home[f] = "avatars"
      <4>1. f \notin inUse'[s] => life[f] # "named"
        BY <2>1, <3>1 DEF Named
      <4>2. startedAt[s] <= clock
        BY <1>1, <2>1 DEF SweepOK
      <4> QED
        BY <1>1, <1>2, <2>1, <4>1, <4>2, ReadSpares DEF Spared, Settled
    <3>2. CASE Home[f] # "avatars"
      <4>1. Spared(f, s)
        BY <1>1, <2>1, <3>2 DEF SweepOK
      <4> QED
        BY <1>2, <2>1, <4>1 DEF Spared, Settled
    <3> QED
      BY <3>1, <3>2
  <2> QED
    BY <1>1, <1>2, <2>1, <2>2 DEF SweepOK
<1>5. CASE ComputeCutoff(s)
  <2>1. /\ pc[s] = "computeCutoff" /\ pc'[s] = "list" /\ cutoff'[s] = clock - MinimumAge
        /\ startedAt'[s] = startedAt[s] /\ inUse'[s] = inUse[s]
    BY <1>2, <1>5 DEF ComputeCutoff, CutoffAt, Goto, TypeOK
  <2>2. \A f \in Files : Spared(f, s)'
    BY <1>1, <1>2, <2>1 DEF SweepOK, Spared, Settled
  <2> QED
    BY <1>1, <1>2, <2>1, <2>2 DEF SweepOK
<1>6. ASSUME pc[s] \in Sweeping, pc'[s] \in Sweeping \cup {"done", "failed", "fileNotFound"},
             UNCHANGED <<startedAt, inUse, cutoff>>,
             pc'[s] \in {"visit", "unlink"} => \A f \in names'[s] : Settled(f),
             pc'[s] = "unlink" => \A f \in victim'[s] : Settled(f)
      PROVE  SweepOK(s)'
  <2>1. /\ \A f \in Files : Spared(f, s)'
        /\ \A f : Settled(f)' <=> Settled(f)
    BY <1>1, <1>2, <1>6 DEF SweepOK, Spared, Settled
  <2> QED
    BY <1>1, <1>2, <1>6, <2>1 DEF SweepOK
<1>7. CASE List(s)
  <2>1. pc[s] = "list" /\ pc'[s] = "stat" /\ UNCHANGED <<startedAt, inUse, cutoff>>
    BY <1>2, <1>7 DEF List, Goto, TypeOK
  <2> QED
    BY <1>6, <2>1
<1>8. CASE Stat(s)
  <2>1. pc[s] = "stat" /\ pc'[s] \in {"visit", "failed"} /\ UNCHANGED <<startedAt, inUse, cutoff>>
    BY <1>2, <1>8 DEF Stat, Goto, TypeOK
  <2>2. ASSUME pc'[s] = "visit", NEW f \in names'[s] PROVE Settled(f)
    <3>1. f \in stored /\ f \notin inUse[s] /\ ~TooRecent(f, s)
      BY <1>2, <1>8, <2>2 DEF Stat, Goto, TypeOK
    <3> QED
      BY <2>1, <3>1, OrphansAreSettled
  <2> QED
    BY <1>6, <2>1, <2>2
<1>9. CASE Visit(s)
  <2>1. PICK f \in names[s] :
          /\ names' = [names EXCEPT ![s] = @ \ {f}]
          /\ IF f \in stored
             THEN victim' = [victim EXCEPT ![s] = {f}] /\ Goto(s, "unlink")
             ELSE UNCHANGED <<victim, pc>>
    BY <1>9 DEF Visit
  <2>2. /\ pc[s] = "visit" /\ UNCHANGED <<startedAt, inUse, cutoff>>
        /\ pc'[s] \in {"visit", "unlink"} /\ names'[s] \subseteq names[s]
        /\ pc'[s] = "unlink" => victim'[s] = {f}
    BY <1>2, <1>9, <2>1 DEF Visit, Goto, TypeOK
  <2>3. \A g \in names[s] : Settled(g)
    BY <1>1, <2>2 DEF SweepOK
  <2> QED
    BY <1>6, <2>2, <2>3
<1>10. CASE Unlink(s)
  <2>1. /\ pc[s] = "unlink" /\ pc'[s] \in {"visit", "fileNotFound"}
        /\ UNCHANGED <<startedAt, inUse, cutoff, names>>
    BY <1>2, <1>10 DEF Unlink, Goto, TypeOK, local
  <2>2. \A g \in names[s] : Settled(g)
    BY <1>1, <2>1 DEF SweepOK
  <2> QED
    BY <1>6, <2>1, <2>2
<1>11. CASE Advance(s)
  <2>1. /\ pc[s] = "visit" /\ pc'[s] \in {"list", "done"}
        /\ UNCHANGED <<startedAt, inUse, cutoff, names>>
    BY <1>2, <1>11 DEF Advance, Goto, TypeOK
  <2> QED
    BY <1>6, <2>1
<1>12. ASSUME NEW kind, NEW label, Fail(s, kind, label)
       PROVE  SweepOK(s)'
  <2>1. pc'[s] = "failed" /\ UNCHANGED <<startedAt>>
    BY <1>2, <1>12 DEF Fail, Goto, TypeOK, local
  <2> QED
    BY <1>1, <1>2, <2>1 DEF SweepOK
<1> QED
  BY <1>3, <1>4, <1>5, <1>7, <1>8, <1>9, <1>10, <1>11, <1>12 DEF Sweep

(* A sweep with --apply lets no orphan slip. *)
LEMMA SweepPassed ==
  ASSUME IInv, NEW s \in Sweepers, Sweep(s)
  PROVE  PassedOK(s)'
<1> SUFFICES ASSUME apply[s], pc'[s] \in Sweeping \cup {"done"},
                    NEW f \in Files, Overdue(f, s)'
             PROVE  /\ pc'[s] # "done"
                    /\ \A i \in 1..3 : Home[f] = Storages[i] =>
                         /\ i >= storage'[s]
                         /\ i = storage'[s] /\ pc'[s] \in {"stat", "visit"} => f \in names'[s]
                         /\ i = storage'[s] /\ pc'[s] = "unlink" => f \in names'[s] \cup victim'[s]
  BY SweepType DEF PassedOK, IInv
<1>1. TypeOK /\ PassedOK(s) /\ UNCHANGED <<life, savedAt>> /\ stored' \subseteq stored
  BY SweepType DEF IInv
<1>2. /\ f \in stored' /\ f \in stored /\ savedAt[f] <= cutoff'[s] /\ f \notin inUse'[s]
  BY <1>1 DEF Overdue
<1>3. \E i \in 1..3 : Home[f] = Storages[i]
  BY FilesAssumption DEF Storages
<1>4. CASE ReadRefunds(s) \/ ReadAvatars(s)
  BY <1>1, <1>4 DEF ReadRefunds, ReadAvatars, Goto, TypeOK
<1>5. CASE ComputeCutoff(s)
  <2>1. pc'[s] = "list" /\ storage' = storage /\ storage[s] \in 1..3
    BY <1>1, <1>5 DEF ComputeCutoff, Goto, TypeOK
  <2>2. storage[s] = 1
    BY <1>1, <1>5 DEF ComputeCutoff, IInv, SweepOK
  <2> QED
    BY <2>1, <2>2
<1>6. CASE List(s)
  <2>1. /\ pc[s] = "list" /\ pc'[s] = "stat" /\ UNCHANGED <<storage, cutoff, inUse>>
        /\ names'[s] = {g \in stored : Home[g] = Storages[storage[s]]}
    BY <1>1, <1>6 DEF List, Goto, TypeOK
  <2>2. Overdue(f, s)
    BY <1>2, <2>1 DEF Overdue
  <2> QED
    BY <1>1, <1>2, <2>1, <2>2 DEF PassedOK
<1>7. CASE Stat(s)
  <2>1. /\ pc[s] = "stat" /\ UNCHANGED <<storage, cutoff, inUse>> /\ pc'[s] = "visit"
        /\ names'[s] = {g \in names[s] \cap stored : g \notin inUse[s] /\ ~TooRecent(g, s)}
    BY <1>1, <1>7 DEF Stat, Goto, TypeOK
  <2>2. Overdue(f, s)
    BY <1>2, <2>1 DEF Overdue
  <2>3. ~TooRecent(f, s)
    BY <1>1, <1>2, <2>1 DEF TooRecent, TypeOK
  <2> QED
    BY <1>1, <1>2, <2>1, <2>2, <2>3 DEF PassedOK
<1>8. CASE Visit(s)
  <2>1. PICK g \in names[s] :
          /\ names' = [names EXCEPT ![s] = @ \ {g}]
          /\ IF g \in stored
             THEN victim' = [victim EXCEPT ![s] = {g}] /\ Goto(s, "unlink")
             ELSE UNCHANGED <<victim, pc>>
    BY <1>8 DEF Visit
  <2>2. /\ pc[s] = "visit" /\ UNCHANGED <<storage, cutoff, inUse, stored>>
        /\ names'[s] = names[s] \ {g}
        /\ \/ pc'[s] = "unlink" /\ victim'[s] = {g}
           \/ pc'[s] = "visit" /\ g \notin stored
    BY <1>1, <1>8, <2>1 DEF Visit, Goto, TypeOK
  <2>3. Overdue(f, s)
    BY <1>2, <2>2 DEF Overdue
  <2> QED
    BY <1>1, <1>2, <2>2, <2>3 DEF PassedOK
<1>9. CASE Unlink(s)
  <2>1. /\ pc[s] = "unlink" /\ UNCHANGED <<storage, cutoff, inUse, names>>
        /\ pc'[s] = "visit" /\ f \notin victim[s]
    BY <1>1, <1>2, <1>9 DEF Unlink, Goto, TypeOK, local
  <2>2. Overdue(f, s)
    BY <1>2, <2>1 DEF Overdue
  <2> QED
    BY <1>1, <2>1, <2>2 DEF PassedOK
<1>10. CASE Advance(s)
  <2>1. /\ pc[s] = "visit" /\ UNCHANGED <<cutoff, inUse, names>> /\ names[s] = {}
        /\ storage[s] \in 1..3
        /\ \/ pc'[s] = "done" /\ storage[s] = 3
           \/ pc'[s] = "list" /\ storage'[s] = storage[s] + 1
    BY <1>1, <1>10 DEF Advance, Goto, TypeOK
  <2>2. Overdue(f, s)
    BY <1>2, <2>1 DEF Overdue
  <2>3. \A i \in 1..3 : Home[f] = Storages[i] => i > storage[s]
    BY <1>1, <2>1, <2>2 DEF PassedOK
  <2> QED
    BY <1>3, <2>1, <2>3
<1>11. ASSUME NEW kind, NEW label, Fail(s, kind, label)
       PROVE  FALSE
  BY <1>1, <1>11 DEF Fail, Goto, TypeOK
<1> QED
  BY <1>4, <1>5, <1>6, <1>7, <1>8, <1>9, <1>10, <1>11 DEF Sweep

(* What a sweep removes has no future. *)
LEMMA SweepRemoves ==
  ASSUME IInv, NEW s \in Sweepers, Sweep(s), NEW f \in removed'
  PROVE  Settled(f)
<1>1. CASE f \in removed
  BY <1>1 DEF IInv
<1>2. CASE f \notin removed
  <2>1. CASE Unlink(s)
    BY <1>2, <2>1 DEF Unlink, IInv, SweepOK
  <2>2. CASE ~Unlink(s)
    <3>1. removed' = removed
      BY <2>2 DEF Sweep, ReadRefunds, ReadAvatars, ComputeCutoff, List, Stat, Visit, Advance, Fail
    <3> QED
      BY <1>2, <3>1
  <2> QED
    BY <2>1, <2>2
<1> QED
  BY <1>1, <1>2

LEMMA SweepStep ==
  ASSUME IInv, NEW s \in Sweepers, Sweep(s)
  PROVE  IInv'
<1>1. TypeOK' /\ UNCHANGED <<clock, life, savedAt, owedSince, apply>> /\ stored' \subseteq stored
  BY SweepType DEF IInv
<1>2. \A f \in removed' : Settled(f)'
  BY <1>1, SweepRemoves DEF Settled
<1>3. \A f \in Files : FileOK(f)'
  BY <1>1 DEF IInv, FileOK, Owed
<1>4. ASSUME NEW t \in Sweepers, t # s PROVE SweepOK(t)' /\ PassedOK(t)'
  <2>1. /\ pc'[t] = pc[t] /\ startedAt'[t] = startedAt[t] /\ inUse'[t] = inUse[t]
        /\ cutoff'[t] = cutoff[t] /\ storage'[t] = storage[t]
        /\ names'[t] = names[t] /\ victim'[t] = victim[t]
    BY <1>4, SweepOthers DEF IInv
  <2>2. SweepOK(t) /\ PassedOK(t)
    BY DEF IInv
  <2>3. \A f \in Files : /\ Spared(f, t)' <=> Spared(f, t)
                         /\ Overdue(f, t)' => Overdue(f, t)
    BY <1>1, <2>1 DEF Spared, Overdue, Settled
  <2>4. \A f : Settled(f)' <=> Settled(f)
    BY <1>1 DEF Settled
  <2>5. SweepOK(t)'
    BY <1>1, <2>1, <2>2, <2>3, <2>4 DEF SweepOK
  <2>6. PassedOK(t)'
    BY <1>1, <2>1, <2>2, <2>3 DEF PassedOK
  <2> QED
    BY <2>5, <2>6
<1> QED
  BY <1>1, <1>2, <1>3, <1>4, SweepOwn, SweepPassed DEF IInv

LEMMA NextIInv ==
  ASSUME IInv, [Next]_vars
  PROVE  IInv'
<1>1. CASE UNCHANGED vars
  BY <1>1 DEF vars, api, local, IInv, TypeOK, FileOK, Owed, SweepOK, PassedOK, Spared, Overdue, Settled
<1>2. CASE Quiet
  BY <1>1, <1>2 DEF Quiet
<1> QED
  BY <1>1, <1>2, ServeStep, SweepStep, TickStep DEF Next

-----------------------------------------------------------------------------
(* IInv holds in every state of every behaviour. *)
THEOREM Invariance == Spec => []IInv
<1>1. Init => IInv
  BY InitIInv
<1>2. IInv /\ [Next]_vars => IInv'
  BY NextIInv
<1> QED
  BY <1>1, <1>2, PTL DEF Spec

(* The types of the clock, of the files' lives and of what a sweep knows.  *)
THEOREM TypeCorrect == Spec => []TypeOK
<1>1. IInv => TypeOK
  BY DEF IInv
<1> QED
  BY <1>1, Invariance, PTL

(* orphan_sweep.py 42-46: whatever the API saves, commits, deletes and     *)
(* abandons meanwhile, no sweep removes a file that a row names or may     *)
(* still come to name, as long as a request and the reading of the         *)
(* references together take less than the minimum age.                     *)
THEOREM SafeForEveryTiming == Spec => []SweepIsSafe
<1>1. IInv => SweepIsSafe
  BY DEF IInv, Settled, SweepIsSafe
<1> QED
  BY <1>1, Invariance, PTL

(* A run that ends has left no orphan of the minimum age.                  *)
THEOREM NoOrphanSlips == Spec => []SweepIsThorough
<1>1. IInv => SweepIsThorough
  BY DEF IInv, TypeOK, PassedOK, Overdue, SweepIsThorough
<1> QED
  BY <1>1, Invariance, PTL
============================================================================
