----------------------------- MODULE AvatarApi -----------------------------
(***************************************************************************)
(* POST and DELETE /users/me/avatar as concurrent requests against the     *)
(* table users and the storage "avatars".                                  *)
(*                                                                         *)
(* As in RefundApi a request is a coroutine of one event loop and an       *)
(* action is what it does between two awaits.  The file that request r     *)
(* saves is named r (uuid4 names are fresh) and the picture a user has     *)
(* when the behaviour starts is named after the user.                      *)
(***************************************************************************)
EXTENDS Naturals

CONSTANTS Requests,    \* the HTTP requests that may arrive, each once
          Users,       \* rows of the table users; nothing deletes one
          Pictured,    \* the users who start with a picture
          Calls,       \* what a client may ask for
          Faults,      \* the kinds of failure that may happen
          MaxCrashes,  \* bound on process crashes
          None         \* SQL NULL, and the user of a token without a row

Files == Requests \cup Pictured

(* `form` says that the extension and the size of the file are acceptable. *)
UploadCall == [op: {"upload"}, user: Users \cup {None}, form: BOOLEAN]
RemoveCall == [op: {"remove"}, user: Users \cup {None}]
AnyCall == UploadCall \cup RemoveCall

(* save: storage.save raises, leaving nothing or part of a file.           *)
(* delete: storage.delete raises.  db: a statement or a commit fails and   *)
(* nothing is stored.  ack: a commit is durable, but its answer is lost or *)
(* closing the session raises.  crash: the process dies.                   *)
FaultKinds == {"save", "delete", "db", "ack", "crash"}

ASSUME NamesAssumption  == /\ Pictured \subseteq Users
                           /\ Requests \cap Users = {}
                           /\ None \notin Requests \cup Users \cup AnyCall
ASSUME CallsAssumption  == Calls \subseteq AnyCall
ASSUME FaultsAssumption == Faults \subseteq FaultKinds /\ MaxCrashes \in Nat

VARIABLES
  pc,       \* where each request is
  call,     \* what it was asked
  seen,     \* the avatar_filename it read, a local variable
  reply,    \* what it answered
  avatar,   \* committed users.avatar_filename
  lock,     \* the open transaction that holds the row lock of each user
  avatars,  \* files of the storage "avatars"
  logged,   \* file deletions that failed and left a warning in the log
  updates,  \* history: the committed updates, what each of them replaced,
            \* and the requests that had read the column by then
  crashes   \* process crashes so far

vars == <<pc, call, seen, reply, avatar, lock, avatars, logged, updates, crashes>>
database == <<avatar, lock, updates>>
storage == <<avatars, logged>>

Finished == {"done", "dead"}
Labels == Finished \cup
  {"idle", "updateAvatar", "commitAvatar", "deletePrevious", "undoUpload"}
Successes == {"uploaded", "removed"}
Replies == {"none", "invalid", "notFound", "saveError", "error"} \cup Successes

TypeOK ==
  /\ pc \in [Requests -> Labels]
  /\ call \in [Requests -> Calls \cup {None}]
  /\ seen \in [Requests -> Files \cup {None}]
  /\ reply \in [Requests -> Replies]
  /\ avatar \in [Users -> Files \cup {None}]
  /\ lock \in [Users -> Requests \cup {None}]
  /\ avatars \in SUBSET Files
  /\ logged \in SUBSET Files
  /\ updates \in SUBSET [by: Requests, old: Files \cup {None}, readers: SUBSET Requests]
  /\ crashes \in 0..MaxCrashes

Init ==
  /\ pc = [r \in Requests |-> "idle"]
  /\ call = [r \in Requests |-> None]
  /\ seen = [r \in Requests |-> None]
  /\ reply = [r \in Requests |-> "none"]
  /\ avatar = [u \in Users |-> IF u \in Pictured THEN u ELSE None]
  /\ lock = [u \in Users |-> None]
  /\ avatars = Pictured
  /\ logged = {}
  /\ updates = {}
  /\ crashes = 0

-----------------------------------------------------------------------------
Goto(r, label) == /\ pc' = [pc EXCEPT ![r] = label]
                  /\ UNCHANGED reply

AnswerAt(r, label, answer) == /\ pc' = [pc EXCEPT ![r] = label]
                              /\ reply' = [reply EXCEPT ![r] = answer]

Answer(r, answer) == AnswerAt(r, "done", answer)

Receive(r, c) == /\ pc[r] = "idle"
                 /\ call' = [call EXCEPT ![r] = c]

Uploads(r) == call[r].op = "upload"
User(r) == call[r].user

(* delete_quietly: a deletion that fails is logged, and goes unnoticed by  *)
(* the caller; a file that is not there is deleted without complaint.      *)
DeleteQuietly(f) ==
  \/ avatars' = avatars \ {f} /\ UNCHANGED logged
  \/ /\ "delete" \in Faults
     /\ logged' = logged \cup {f}
     /\ UNCHANGED avatars

FailAndKeep(r) == Answer(r, "error")          \* bug: no compensation

(* update_avatar raised: the uploader deletes the file it has just saved.  *)
Fail(r) == IF Uploads(r) THEN AnswerAt(r, "undoUpload", "error") ELSE Answer(r, "error")

-----------------------------------------------------------------------------
(* The user is read in a transaction of its own, then the file is saved.   *)
UploadRead(r, c) ==
  /\ Receive(r, c)
  /\ c.op = "upload"
  /\ \/ /\ ~c.form
        /\ Answer(r, "invalid")
        /\ UNCHANGED <<seen, avatars>>
     \/ /\ c.form /\ c.user = None
        /\ Answer(r, "notFound")
        /\ UNCHANGED <<seen, avatars>>
     \/ /\ c.form /\ c.user # None
        /\ seen' = [seen EXCEPT ![r] = avatar[c.user]]
        /\ avatars' = avatars \cup {r}
        /\ Goto(r, "updateAvatar")
     \/ /\ c.form /\ c.user # None
        /\ "save" \in Faults
        /\ avatars' \in {avatars, avatars \cup {r}}
        /\ Answer(r, "saveError")
        /\ UNCHANGED seen
     \/ /\ c.form
        /\ "db" \in Faults
        /\ Answer(r, "error")
        /\ UNCHANGED <<seen, avatars>>
  /\ UNCHANGED <<database, logged, crashes>>

RemoveRead(r, c) ==
  /\ Receive(r, c)
  /\ c.op = "remove"
  /\ \/ /\ c.user = None
        /\ Answer(r, "notFound")
        /\ UNCHANGED seen
     \/ /\ c.user # None
        /\ seen' = [seen EXCEPT ![r] = avatar[c.user]]
        /\ Goto(r, "updateAvatar")
     \/ /\ "db" \in Faults
        /\ Answer(r, "error")
        /\ UNCHANGED seen
  /\ UNCHANGED <<database, storage, crashes>>

(* UPDATE users ... WHERE id: unconditional, it waits for the row lock and *)
(* fails after lock_timeout.                                               *)
UpdateAvatar(r) ==
  /\ pc[r] = "updateAvatar"
  /\ \/ /\ lock[User(r)] = None
        /\ lock' = [lock EXCEPT ![User(r)] = r]
        /\ Goto(r, "commitAvatar")
     \/ /\ lock[User(r)] # None \/ "db" \in Faults
        /\ Fail(r)
        /\ UNCHANGED lock
  /\ UNCHANGED <<call, seen, avatar, updates, storage, crashes>>

NewValueOrBlank(r) == IF Uploads(r) THEN r ELSE ""    \* bug: cleared with ''

NewValue(r) == IF Uploads(r) THEN r ELSE None

CommitAvatar(r) ==
  /\ pc[r] = "commitAvatar"
  /\ lock' = [lock EXCEPT ![User(r)] = None]
  /\ \/ /\ avatar' = [avatar EXCEPT ![User(r)] = NewValue(r)]
        /\ updates' = updates \cup
             {[by |-> r, old |-> avatar[User(r)],
               readers |-> {d \in Requests : pc[d] = "updateAvatar" /\ User(d) = User(r)}]}
        /\ \/ Goto(r, "deletePrevious")
           \/ "ack" \in Faults /\ Fail(r)
     \/ /\ "db" \in Faults
        /\ Fail(r)
        /\ UNCHANGED <<avatar, updates>>
  /\ UNCHANGED <<call, seen, storage, crashes>>

PreviousReread(r) == avatar[User(r)]          \* bug: read after the update

(* The picture to delete is the one that was read before the update.       *)
Previous(r) == seen[r]

DeletePrevious(r) ==
  /\ pc[r] = "deletePrevious"
  /\ IF Previous(r) = None THEN UNCHANGED storage ELSE DeleteQuietly(Previous(r))
  /\ Answer(r, IF Uploads(r) THEN "uploaded" ELSE "removed")
  /\ UNCHANGED <<call, seen, database, crashes>>

UndoUpload(r) ==
  /\ pc[r] = "undoUpload"
  /\ DeleteQuietly(r)
  /\ Goto(r, "done")
  /\ UNCHANGED <<call, seen, database, crashes>>

(* The process dies with every request in it; PostgreSQL discards their    *)
(* open transactions, and the files they saved stay.                       *)
Crash ==
  /\ "crash" \in Faults
  /\ crashes < MaxCrashes
  /\ crashes' = crashes + 1
  /\ pc' = [r \in Requests |-> IF pc[r] \in {"idle"} \cup Finished THEN pc[r] ELSE "dead"]
  /\ lock' = [u \in Users |-> None]
  /\ UNCHANGED <<call, seen, reply, avatar, updates, storage>>

Arrive(r) == \E c \in Calls : UploadRead(r, c) \/ RemoveRead(r, c)

Step(r) == UpdateAvatar(r) \/ CommitAvatar(r) \/ DeletePrevious(r) \/ UndoUpload(r)

(* Every request has been served or died with the process. *)
Quiet == (\A r \in Requests : pc[r] \in Finished) /\ UNCHANGED vars

Next == \/ \E r \in Requests : Arrive(r) \/ Step(r)
        \/ Crash
        \/ Quiet

Spec == Init /\ [][Next]_vars

-----------------------------------------------------------------------------
(* A picture that users.avatar_filename names is in the storage, whatever  *)
(* other uploads and removals of the same user delete meanwhile - but for  *)
(* an upload that was answered 500 although its update was durable, whose  *)
(* compensation deletes the file the row now names                         *)
(* (avatar_uploader_controller.py 30-36).                                  *)
AvatarIsThere ==
  \A u \in Users : avatar[u] \notin avatars \cup {None} =>
    /\ "ack" \in Faults
    /\ avatar[u] \in Requests
    /\ reply[avatar[u]] = "error"
    /\ pc[avatar[u]] = "done"

Orphans == {f \in avatars : \A u \in Users : avatar[u] # f}
Written(r) == \E w \in updates : w.by = r

(* A picture no row names has a reason to be there.  Either it never made  *)
(* it to its row: its upload is still at work on it, died, or failed while *)
(* saving.  Or an update replaced it that will delete it, died before it   *)
(* could, or was durable but raised - or that had read the column before   *)
(* this picture was in it: two requests overlapped, and nobody deletes the *)
(* picture of the first.  Or its deletion failed and was logged.           *)
EveryOrphanAvatarHasACause ==
  \A f \in Orphans :
    \/ f \in logged
    \/ /\ f \in Requests /\ ~Written(f)
       /\ \/ pc[f] \in {"updateAvatar", "commitAvatar", "undoUpload", "dead"}
          \/ reply[f] = "saveError"
    \/ \E w \in updates :
         /\ w.old = f
         /\ \/ \E v \in updates : v.by = f /\ w.by \in v.readers
            \/ pc[w.by] \in {"deletePrevious", "dead"}
            \/ reply[w.by] = "error" /\ "ack" \in Faults

-----------------------------------------------------------------------------
(* The inductive invariant. *)

Working == {"updateAvatar", "commitAvatar", "deletePrevious", "undoUpload"}
Reading == {"updateAvatar", "commitAvatar"}

(* What is so of the call and the file of a request at each of its steps.  *)
CallOK(r) ==
  /\ pc[r] \in Working => call[r] # None /\ User(r) \in Users
  /\ pc[r] \in {"idle"} \cup Reading => ~Written(r)
  /\ pc[r] = "idle" => r \notin avatars
  /\ pc[r] \in Reading /\ Uploads(r) => r \in avatars
  /\ pc[r] = "commitAvatar" => lock[User(r)] = r
  /\ pc[r] = "deletePrevious" => Written(r)
  /\ pc[r] = "undoUpload" => /\ Uploads(r) /\ reply[r] = "error"
                             /\ Written(r) => "ack" \in Faults
  /\ r \in avatars => call[r] # None /\ Uploads(r)
  /\ r \in avatars /\ ~Written(r) =>
       \/ pc[r] \in {"updateAvatar", "commitAvatar", "undoUpload", "dead"}
       \/ reply[r] = "saveError"
       \/ r \in logged

(* A picture in a column of user u is u's, and was put there by an update. *)
OwnPicture(f, u) == /\ f \in Requests => call[f] # None /\ Written(f) /\ User(f) = u
                    /\ f \in Users => f = u
NamedOK(u) == OwnPicture(avatar[u], u)

(* What the column holds is what a request read, or an update that         *)
(* overlapped with it; once the request has replaced it, nobody names it.  *)
SeenOK(r) ==
  /\ pc[r] \in Reading \cup {"deletePrevious"} => OwnPicture(seen[r], User(r))
  /\ pc[r] \in Reading =>
       \/ avatar[User(r)] \in {None, seen[r]}
       \/ \E v \in updates : v.by = avatar[User(r)] /\ r \in v.readers
  /\ pc[r] = "deletePrevious" => \A u \in Users : avatar[u] # seen[r] \/ seen[r] = None

(* What became of the picture an update replaced. *)
ReplacedOK(w) ==
  /\ pc[w.by] # "idle"
  /\ w.old \in Requests => Written(w.old)
  /\ w.old # None =>
       \/ w.old \notin avatars \/ w.old \in logged
       \/ \E v \in updates : v.by = w.old /\ w.by \in v.readers
       \/ /\ seen[w.by] = w.old
          /\ pc[w.by] \in {"deletePrevious", "dead"} \/ (reply[w.by] = "error" /\ "ack" \in Faults)

(* A picture that was in a column is in it until an update replaces it. *)
Accounted(f) == f \in Pictured \/ Written(f) =>
                  (\E u \in Users : avatar[u] = f) \/ (\E w \in updates : w.old = f)

CallInv      == \A r \in Requests : CallOK(r)
SeenInv      == \A r \in Requests : SeenOK(r)
NamedInv     == \A u \in Users : NamedOK(u)
ReplacedInv  == \A w \in updates : ReplacedOK(w)
AccountedInv == \A f \in avatars : Accounted(f)

IInv == /\ TypeOK /\ AvatarIsThere /\ CallInv /\ SeenInv
        /\ NamedInv /\ ReplacedInv /\ AccountedInv

-----------------------------------------------------------------------------
(* UC-008 lines 47-49 and UC-009 lines 117-118: after a success the column *)
(* holds what the request asked for and the previous file is not on disk   *)
(* any more.  So once every request has succeeded, the pictures in the     *)
(* storage are the ones the rows name.                                     *)
ReplacedPictureIsGone ==
  (\A r \in Requests : reply[r] \in Successes) => Orphans = {}

============================================================================
