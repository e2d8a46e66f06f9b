---------------------------- MODULE OrphanSweep ----------------------------
(***************************************************************************)
(* The job that removes files no row references, run from the command line *)
(* in a process of its own while the API goes on serving.                  *)
(*                                                                         *)
(* The API appears as the life of each file it saves.  RefundApi and       *)
(* AvatarApi have the detail: a file is saved, then either a committed row *)
(* names it or its request gives up, and a row that lets go of a file      *)
(* leaves it to a deletion that may fail or never come.                    *)
(***************************************************************************)
EXTENDS Integers, FiniteSets

CONSTANTS Sweepers,    \* runs of the job, which may overlap
          Files,       \* names of files; a uuid4 is never used again
          Home,        \* the storage of each file
          Leftovers,   \* files nobody needs when the behaviour starts
          MinimumAge,  \* MINIMUM_AGE
          RequestTime, \* longest time a request owes a file a row or a deletion
          ReadTime,    \* longest time from the first SELECT to the cutoff
          Faults,      \* the kinds of failure that may happen
          MaxClock     \* bound on the clock

(* db: a SELECT raises.  delete: storage.delete raises.  kill: a sweep is  *)
(* stopped.                                                                *)
FaultKinds == {"db", "delete", "kill"}

(* The order of the dict that referenced_filenames returns. *)
Storages == <<"receipts", "payments", "avatars">>

(* orphan_sweep.py 42-46: an hour is far longer than any request can take; *)
(* the argument needs the reading of the references to fit in as well.     *)
ASSUME TimingAssumption ==
  /\ MinimumAge \in Nat /\ RequestTime \in Nat /\ ReadTime \in Nat /\ MaxClock \in Nat
  /\ RequestTime + ReadTime < MinimumAge
ASSUME FilesAssumption ==
  /\ Home \in [Files -> {"receipts", "payments", "avatars"}]
  /\ Leftovers \subseteq Files
  /\ Faults \subseteq FaultKinds

VARIABLES
  clock,
  life,      \* what has become of each file, as the API knows it
  savedAt,   \* its modification time
  owedSince, \* while a request owes it something: when it saved it or let go of it
  stored,    \* the files that exist
  pc,        \* where each sweep is
  apply,     \* whether it was started with --apply
  startedAt, \* when it read the first references
  inUse,     \* the references it has read
  cutoff,    \* files modified later than this are too recent
  storage,   \* the storage it is at, an index of Storages
  names,     \* local variable: files listed, then orphans still to visit
  victim,    \* local variable: the file it has found to exist
  removed    \* history: the files that sweeps have removed

api == <<life, savedAt, owedSince>>
local == <<apply, startedAt, inUse, cutoff, storage, names, victim>>
vars == <<clock, api, stored, pc, local, removed>>

(* unsaved, then inflight: saved, its row not committed yet.  named: a row *)
(* points at it.  dropped: no row does and its request, which is still     *)
(* running, is about to delete it.  gone: no row does, and nobody but a    *)
(* sweep will delete it.                                                   *)
Lives == {"unsaved", "inflight", "named", "dropped", "gone"}
Labels == {"idle", "readAvatars", "computeCutoff", "list", "stat", "visit", "unlink",
           "done", "failed", "fileNotFound"}
Reading == {"readAvatars", "computeCutoff"}
Sweeping == {"list", "stat", "visit", "unlink"}

TypeOK ==
  /\ clock \in 0..MaxClock
  /\ life \in [Files -> Lives]
  /\ savedAt \in [Files -> Nat]
  /\ owedSince \in [Files -> Nat]
  /\ stored \in SUBSET Files
  /\ pc \in [Sweepers -> Labels]
  /\ apply \in [Sweepers -> BOOLEAN]
  /\ startedAt \in [Sweepers -> Nat]
  /\ inUse \in [Sweepers -> SUBSET Files]
  /\ cutoff \in [Sweepers -> Int]
  /\ storage \in [Sweepers -> 1..3]
  /\ names \in [Sweepers -> SUBSET Files]
  /\ victim \in [Sweepers -> SUBSET Files]
  /\ removed \in SUBSET Files

Init ==
  /\ clock = 0
  /\ life = [f \in Files |-> IF f \in Leftovers THEN "gone" ELSE "unsaved"]
  /\ savedAt = [f \in Files |-> 0]
  /\ owedSince = [f \in Files |-> 0]
  /\ stored = Leftovers
  /\ pc = [s \in Sweepers |-> "idle"]
  /\ apply \in [Sweepers -> BOOLEAN]
  /\ startedAt = [s \in Sweepers |-> 0]
  /\ inUse = [s \in Sweepers |-> {}]
  /\ cutoff = [s \in Sweepers |-> 0]
  /\ storage = [s \in Sweepers |-> 1]
  /\ names = [s \in Sweepers |-> {}]
  /\ victim = [s \in Sweepers |-> {}]
  /\ removed = {}

-----------------------------------------------------------------------------
(* The API. *)

Live(f, from, to, since) == /\ life[f] = from
                            /\ life' = [life EXCEPT ![f] = to]
                            /\ owedSince' = [owedSince EXCEPT ![f] = since]

Save(f) ==
  /\ Live(f, "unsaved", "inflight", clock)
  /\ savedAt' = [savedAt EXCEPT ![f] = clock]
  /\ stored' = stored \cup {f}
  /\ UNCHANGED <<clock, pc, local, removed>>

Name(f) == /\ Live(f, "inflight", "named", 0)
           /\ UNCHANGED <<clock, savedAt, stored, pc, local, removed>>

(* The request fails before its commit and turns to delete_quietly. *)
GiveUp(f) == /\ Live(f, "inflight", "dropped", owedSince[f])
             /\ UNCHANGED <<clock, savedAt, stored, pc, local, removed>>

(* A refund is deleted, an avatar replaced or removed, however old the     *)
(* file; the payment of a refund stays with it for ever.                   *)
LetGo(f) == /\ Home[f] # "payments"
            /\ Live(f, "named", "dropped", clock)
            /\ UNCHANGED <<clock, savedAt, stored, pc, local, removed>>

(* The request deletes the file, or fails to, or dies before it can; a     *)
(* request that dies before its commit gives up and comes here as well.    *)
Dispose(f) == /\ Live(f, "dropped", "gone", 0)
              /\ stored' \in {stored, stored \ {f}}
              /\ UNCHANGED <<clock, savedAt, pc, local, removed>>

-----------------------------------------------------------------------------
(* The sweep. *)

Goto(s, label) == pc' = [pc EXCEPT ![s] = label]

(* A failure ends the run: nothing in it catches an exception. *)
Fail(s, kind, label) == /\ kind \in Faults
                        /\ pc[s] = label
                        /\ Goto(s, "failed")
                        /\ UNCHANGED <<clock, api, stored, local, removed>>

Named(kinds) == {f \in Files : life[f] = "named" /\ Home[f] \in kinds}

(* The two SELECTs of referenced_filenames: each sees what is committed    *)
(* when it runs.                                                           *)
ReadRefunds(s) ==
  /\ pc[s] = "idle"
  /\ startedAt' = [startedAt EXCEPT ![s] = clock]
  /\ inUse' = [inUse EXCEPT ![s] = Named({"receipts", "payments"})]
  /\ Goto(s, "readAvatars")
  /\ UNCHANGED <<clock, api, stored, apply, cutoff, storage, names, victim, removed>>

ReadAvatars(s) ==
  /\ pc[s] = "readAvatars"
  /\ inUse' = [inUse EXCEPT ![s] = @ \cup Named({"avatars"})]
  /\ Goto(s, "computeCutoff")
  /\ UNCHANGED <<clock, api, stored, apply, startedAt, cutoff, storage, names, victim, removed>>

CutoffNow(now) == now                         \* bug: no minimum age

CutoffAt(now) == now - MinimumAge

ComputeCutoff(s) ==
  /\ pc[s] = "computeCutoff"
  /\ cutoff' = [cutoff EXCEPT ![s] = CutoffAt(clock)]
  /\ Goto(s, "list")
  /\ UNCHANGED <<clock, api, stored, apply, startedAt, inUse, storage, names, victim, removed>>

(* os.listdir. *)
List(s) ==
  /\ pc[s] = "list"
  /\ names' = [names EXCEPT ![s] = {f \in stored : Home[f] = Storages[storage[s]]}]
  /\ Goto(s, "stat")
  /\ UNCHANGED <<clock, api, stored, apply, startedAt, inUse, cutoff, storage, victim, removed>>

TooRecentStrictly(f, s) == savedAt[f] >= cutoff[s]    \* bug: the boundary is kept

TooRecent(f, s) == savedAt[f] > cutoff[s]

(* isfile and getmtime of every name, then the choice of the orphans.  A   *)
(* name that vanished is skipped, or getmtime raises if it vanished        *)
(* between the two.                                                        *)
Stat(s) ==
  /\ pc[s] = "stat"
  /\ \/ /\ names' = [names EXCEPT ![s] =
                       {f \in names[s] \cap stored : f \notin inUse[s] /\ ~TooRecent(f, s)}]
        /\ Goto(s, "visit")
     \/ /\ ~(names[s] \subseteq stored)
        /\ Goto(s, "failed")
        /\ UNCHANGED names
  /\ UNCHANGED <<clock, api, stored, apply, startedAt, inUse, cutoff, storage, victim, removed>>

(* os.path.exists: a file that is gone needs no deletion. *)
Visit(s) ==
  /\ pc[s] = "visit" /\ apply[s]
  /\ \E f \in names[s] :
       /\ names' = [names EXCEPT ![s] = @ \ {f}]
       /\ IF f \in stored
          THEN victim' = [victim EXCEPT ![s] = {f}] /\ Goto(s, "unlink")
          ELSE UNCHANGED <<victim, pc>>
  /\ UNCHANGED <<clock, api, stored, apply, startedAt, inUse, cutoff, storage, removed>>

(* os.remove raises if the file vanished after os.path.exists. *)
Unlink(s) ==
  /\ pc[s] = "unlink"
  /\ IF victim[s] \subseteq stored
     THEN /\ stored' = stored \ victim[s]
          /\ removed' = removed \cup victim[s]
          /\ Goto(s, "visit")
     ELSE /\ Goto(s, "fileNotFound")
          /\ UNCHANGED <<stored, removed>>
  /\ UNCHANGED <<clock, api, local>>

(* The orphans of a storage are through; a dry run only reports them. *)
Advance(s) ==
  /\ pc[s] = "visit"
  /\ names[s] = {} \/ ~apply[s]
  /\ IF storage[s] = 3
     THEN Goto(s, "done") /\ UNCHANGED storage
     ELSE Goto(s, "list") /\ storage' = [storage EXCEPT ![s] = @ + 1]
  /\ UNCHANGED <<clock, api, stored, apply, startedAt, inUse, cutoff, names, victim, removed>>

-----------------------------------------------------------------------------
(* No request stays between a save and its commit, between a save and the  *)
(* deletion after a failure, or between the commit that lets go of a file  *)
(* and its deletion, and no sweep in front of its cutoff, for longer than  *)
(* it is assumed to take.                                                  *)
Owed(f) == life[f] \in {"inflight", "dropped"}

Tick ==
  /\ clock < MaxClock
  /\ \A f \in Files : Owed(f) => clock < owedSince[f] + RequestTime
  /\ \A s \in Sweepers : pc[s] \in Reading => clock < startedAt[s] + ReadTime
  /\ clock' = clock + 1
  /\ UNCHANGED <<api, stored, pc, local, removed>>

Serve(f) == Save(f) \/ Name(f) \/ GiveUp(f) \/ LetGo(f) \/ Dispose(f)

Sweep(s) == \/ ReadRefunds(s) \/ ReadAvatars(s) \/ ComputeCutoff(s)
            \/ List(s) \/ Stat(s) \/ Visit(s) \/ Unlink(s) \/ Advance(s)
            \/ Fail(s, "db", "idle") \/ Fail(s, "db", "readAvatars")
            \/ Fail(s, "delete", "unlink")
            \/ \E label \in Reading \cup Sweeping : Fail(s, "kill", label)

(* Time and every sweep have come to their end. *)
Quiet == /\ clock = MaxClock
         /\ \A s \in Sweepers : pc[s] \in {"done", "failed", "fileNotFound"}
         /\ UNCHANGED vars

Next == (\E f \in Files : Serve(f)) \/ (\E s \in Sweepers : Sweep(s)) \/ Tick \/ Quiet

Spec == Init /\ [][Next]_vars

-----------------------------------------------------------------------------
(* A sweep never takes a file that a row names or is about to name, nor    *)
(* one whose request may still commit: what the minimum age is for         *)
(* (orphan_sweep.py 42-46), with references read before the files are      *)
(* listed and rows written meanwhile.                                      *)
SweepIsSafe == \A f \in removed : life[f] \notin {"inflight", "named"}

(* A run with --apply that ends leaves no file of the minimum age that no  *)
(* row named when it read the references: an orphan is removed by the      *)
(* first run that finds it old enough (ADR-010).                           *)
SweepIsThorough ==
  \A s \in Sweepers : pc[s] = "done" /\ apply[s] =>
    \A f \in stored : savedAt[f] <= cutoff[s] => f \in inUse[s]

(* The inductive invariant: a request that owes a file something is within *)
(* its time, and a sweep that has not computed its cutoff within its own.  *)
Settled(f) == life[f] \in {"dropped", "gone"}

FileOK(f) == /\ life[f] = "unsaved" => f \notin stored
             /\ life[f] # "unsaved" => savedAt[f] <= clock
             /\ life[f] = "inflight" => owedSince[f] = savedAt[f]
             /\ Owed(f) => clock <= owedSince[f] + RequestTime

(* A file whose references were read and that was not among them either    *)
(* has no future, or was saved so late that the cutoff spares it.          *)
Spared(f, s) == f \notin inUse[s] =>
                  Settled(f) \/ life[f] = "unsaved" \/ startedAt[s] <= savedAt[f] + RequestTime

SweepOK(s) ==
  /\ startedAt[s] <= clock
  /\ pc[s] \in {"idle"} \cup Reading => storage[s] = 1
  /\ pc[s] \in Reading => clock <= startedAt[s] + ReadTime
  /\ pc[s] = "readAvatars" => \A f \in Files : Home[f] # "avatars" => Spared(f, s)
  /\ pc[s] \in {"computeCutoff"} \cup Sweeping => \A f \in Files : Spared(f, s)
  /\ pc[s] \in Sweeping \cup {"done"} => cutoff[s] <= startedAt[s] + ReadTime - MinimumAge
  /\ pc[s] \in {"visit", "unlink"} => \A f \in names[s] : Settled(f)
  /\ pc[s] = "unlink" => \A f \in victim[s] : Settled(f)

(* An orphan that a sweep with --apply has not come to yet.                *)
Overdue(f, s) == f \in stored /\ savedAt[f] <= cutoff[s] /\ f \notin inUse[s]

(* No such file is in a storage the sweep is through with; in the one it   *)
(* is at, it is in the hands of the sweep.                                 *)
PassedOK(s) ==
  apply[s] /\ pc[s] \in Sweeping \cup {"done"} =>
    \A f \in Files : Overdue(f, s) =>
      /\ pc[s] # "done"
      /\ \A i \in 1..3 : Home[f] = Storages[i] =>
           /\ i >= storage[s]
           /\ i = storage[s] /\ pc[s] \in {"stat", "visit"} => f \in names[s]
           /\ i = storage[s] /\ pc[s] = "unlink" => f \in names[s] \cup victim[s]

IInv == /\ TypeOK
        /\ \A f \in removed : Settled(f)
        /\ \A f \in Files : FileOK(f)
        /\ \A s \in Sweepers : SweepOK(s) /\ PassedOK(s)

(* s3_file_storage.py 91-93: removing a file that is not there succeeds  *)
(* on both back ends, because the local one checks os.path.exists first.   *)
RemovingTwiceSucceeds == \A s \in Sweepers : pc[s] # "fileNotFound"

============================================================================
