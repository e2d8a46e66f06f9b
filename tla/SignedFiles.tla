---------------------------- MODULE SignedFiles ----------------------------
(***************************************************************************)
(* Permission to read a file, frozen in a link.  The finders check who     *)
(* asks and sign a URL; whoever has the URL gets the file, from the /files *)
(* route or from the bucket, until it expires.  Rows and files change      *)
(* meanwhile.                                                              *)
(*                                                                         *)
(* RefundApi and AvatarApi have the detail of the writers: here a file is  *)
(* saved, a commit names it, and a commit that lets go of one leaves it to *)
(* a deletion that may never come.  When the answer of a commit is lost    *)
(* the writer takes its file back although the row names it.               *)
(***************************************************************************)
EXTENDS Accounts

CONSTANTS Refunds,
          Owner,      \* the user who files each refund
          Pictures,   \* names for avatars; a uuid4 is never used again
          Uploader,   \* the user who uploads each picture
          Backend,    \* settings: storage_backend
          Finders,    \* requests to the finders at the same time
          LinkLife,   \* settings: file_url_ttl_seconds
          CacheTime,  \* max-age of a file served by the API
          MaxLinks,   \* bound on the links that clients keep
          MaxDoubts   \* bound on the commits whose answer is lost

NoPicture == "none"

ASSUME FilesAssumption ==
  /\ NoPicture \notin Pictures
  /\ Owner \in [Refunds -> Emails] /\ Uploader \in [Pictures -> Emails]
  /\ Backend \in {"local", "s3"}
  /\ LinkLife \in Nat \ {0} /\ CacheTime \in Nat /\ MaxLinks \in Nat \ {0}
  /\ MaxDoubts \in Nat

Receipt(r) == [storage |-> "receipts", of |-> r]
Payment(r) == [storage |-> "payments", of |-> r]
Picture(n) == [storage |-> "avatars", of |-> n]
Files == [storage: {"receipts", "payments"}, of: Refunds] \cup
         [storage: {"avatars"}, of: Pictures]

NoRequest == [step |-> "none"]
NoCopy == -1

VARIABLES
  refunds,  \* the state of each refund's row
  avatar,   \* the avatar_filename column
  saved,    \* files that were saved at some time
  files,    \* files that exist
  uploads,  \* files whose request has not finished
  trash,    \* files that a request is about to delete
  doubted,  \* files of a commit whose answer was lost
  reading,  \* finders between their query and the signature
  links     \* links that clients have, each with the copy in their browser

rows == <<refunds, avatar>>
storage == <<saved, files, uploads, trash, doubted>>
vars == <<accounts, rows, storage, reading, links>>

Ages == 0..(LinkLife + CacheTime)

TypeOK ==
  /\ AccountsTypeOK
  /\ refunds \in [Refunds -> {"none", "pending", "approved", "paid", "deleted"}]
  /\ avatar \in [Emails -> Pictures \cup {NoPicture}]
  /\ saved \subseteq Files /\ files \subseteq saved
  /\ uploads \subseteq files /\ trash \subseteq saved /\ doubted \subseteq saved
  /\ reading \in [Finders -> {NoRequest} \cup [user: Emails, file: Files, age: 0..RequestTime]]
  /\ links \subseteq [file: Files, user: Emails, age: Ages, copy: NoCopy..CacheTime]

Init ==
  /\ AccountsInit
  /\ refunds = [r \in Refunds |-> "none"]
  /\ avatar = [e \in Emails |-> NoPicture]
  /\ saved = {} /\ files = {} /\ uploads = {} /\ trash = {} /\ doubted = {}
  /\ reading = [p \in Finders |-> NoRequest]
  /\ links = {}

-----------------------------------------------------------------------------
(* The writers.  A payer looks at the refund before it saves the proof. *)
MaySave(f) == CASE f.storage = "receipts" -> users[Owner[f.of]] # "nobody"
                [] f.storage = "payments" -> refunds[f.of] = "approved"
                [] f.storage = "avatars"  -> users[Uploader[f.of]] # "nobody"

Save(f) == /\ f \notin saved /\ MaySave(f)
           /\ saved' = saved \cup {f}
           /\ files' = files \cup {f}
           /\ uploads' = uploads \cup {f}
           /\ UNCHANGED <<accounts, rows, trash, doubted, reading, links>>

(* The row was refused: the file that was just saved is undone.            *)
GiveUp(f) == /\ f \in uploads
             /\ uploads' = uploads \ {f}
             /\ trash' = trash \cup {f}
             /\ UNCHANGED <<accounts, rows, saved, files, doubted, reading, links>>

(* A commit names f and lets go of old, a set.  The writer deletes what it *)
(* let go of; if it does not learn of the commit, it deletes f.            *)
Settle(f, old) == \/ /\ trash' = trash \cup old
                     /\ UNCHANGED doubted
                  \/ /\ Cardinality(doubted) < MaxDoubts
                     /\ trash' = trash \cup {f}
                     /\ doubted' = doubted \cup {f}

SetRefund(r, from, to) == /\ refunds[r] = from
                          /\ refunds' = [refunds EXCEPT ![r] = to]
                          /\ UNCHANGED <<accounts, avatar, saved, files, reading, links>>

Create(r) == /\ Receipt(r) \in uploads
             /\ SetRefund(r, "none", "pending")
             /\ uploads' = uploads \ {Receipt(r)}
             /\ Settle(Receipt(r), {})

(* A declined refund is, to the finders, one that is approved and then     *)
(* never paid.                                                             *)
Approve(r) == SetRefund(r, "pending", "approved") /\ UNCHANGED <<uploads, trash, doubted>>

Pay(r) == /\ Payment(r) \in uploads
          /\ SetRefund(r, "approved", "paid")
          /\ uploads' = uploads \ {Payment(r)}
          /\ Settle(Payment(r), {})

Delete(r) == /\ SetRefund(r, "pending", "deleted")
             /\ trash' = trash \cup {Receipt(r)}
             /\ UNCHANGED <<uploads, doubted>>

ReplacedLate(old, new) == IF new = NoPicture THEN {} ELSE {Picture(new)}
                          \* bug: the file to delete is read after the commit

(* The picture that the column named before. *)
Replaced(old, new) == IF old = NoPicture THEN {} ELSE {Picture(old)}

(* Upload of a picture, or its removal. *)
SetAvatar(e, new) ==
  /\ \/ /\ new = NoPicture /\ avatar[e] # NoPicture
        /\ trash' = trash \cup Replaced(avatar[e], new)
        /\ UNCHANGED doubted
     \/ /\ new \in Pictures /\ Uploader[new] = e /\ Picture(new) \in uploads
        /\ Settle(Picture(new), Replaced(avatar[e], new))
  /\ avatar' = [avatar EXCEPT ![e] = new]
  /\ uploads' = uploads \ {f \in uploads : f.storage = "avatars" /\ f.of = new}
  /\ UNCHANGED <<accounts, refunds, saved, files, reading, links>>

(* A quiet deletion.  One that fails is one that never happens.            *)
Discard(f) == /\ f \in trash
              /\ trash' = trash \ {f}
              /\ files' = files \ {f}
              /\ UNCHANGED <<accounts, rows, saved, uploads, doubted, reading, links>>

-----------------------------------------------------------------------------
(* A row names the file. *)
Named(f) == CASE f.storage = "receipts" -> refunds[f.of] \in {"pending", "approved", "paid"}
              [] f.storage = "payments" -> refunds[f.of] = "paid"
              [] f.storage = "avatars"  -> \E e \in Emails : avatar[e] = f.of

MaySeeAny(user, role, f) == TRUE     \* bug: the check of the owner is dropped

(* Receipts are for the refund's owner and for admins, avatars for anyone  *)
(* who is logged in.                                                       *)
MaySee(user, role, f) ==
  f.storage # "avatars" => role = "admin" \/ user = Owner[f.of]

(* The finders' query; a row that is missing and one that is not the       *)
(* caller's are both a 404.                                                *)
Find(p, t, f) == /\ reading[p] = NoRequest
                 /\ IsValid(t)
                 /\ Named(f) /\ MaySee(t.user, t.role, f)
                 /\ reading' = [reading EXCEPT ![p] = [user |-> t.user, file |-> f, age |-> 0]]
                 /\ UNCHANGED <<accounts, rows, storage, links>>

(* get_url signs without looking whether the file is there. *)
GetUrl(p) ==
  /\ reading[p] # NoRequest
  /\ \E kept \in SUBSET links :
       /\ Cardinality(kept) < MaxLinks
       /\ links' = kept \cup {[file |-> reading[p].file, user |-> reading[p].user,
                               age |-> 0, copy |-> NoCopy]}
  /\ reading' = [reading EXCEPT ![p] = NoRequest]
  /\ UNCHANGED <<accounts, rows, storage>>

AcceptsAnyFile(l, f) == l.age < LinkLife     \* bug: the claims are not compared
AcceptsExpired(l, f) == l.file = f           \* bug: verify_exp is off

(* The signature is good for this path and has not expired. *)
Accepts(l, f) == l.age < LinkLife /\ l.file = f

(* Following link l with f as its path gives f. *)
Serves(l, f) == Accepts(l, f) /\ f \in files

(* A browser follows a link; what the API serves it may keep for a while.  *)
Fetch(l) ==
  /\ \E f \in Files : Serves(l, f)
  /\ Backend = "local"
  /\ links' = (links \ {l}) \cup {[l EXCEPT !.copy = 0]}
  /\ UNCHANGED <<accounts, rows, storage, reading>>

(* A copy is fresh while it is younger than max-age. *)
OlderCopy(age) == IF age = NoCopy \/ age + 1 >= CacheTime THEN NoCopy ELSE age + 1

(* Expired links without a copy are not told apart. *)
Lasting(copy) == IF copy = NoCopy THEN LinkLife ELSE LinkLife + CacheTime
OlderLink(l) == [l EXCEPT !.age = Upto(Lasting(OlderCopy(l.copy)), @), !.copy = OlderCopy(@)]

Tick ==
  /\ AccountsAge
  /\ \A p \in Finders : reading[p] # NoRequest => reading[p].age < RequestTime
  /\ reading' = [p \in Finders |->
                   IF reading[p] = NoRequest THEN NoRequest ELSE [reading[p] EXCEPT !.age = @ + 1]]
  /\ links' = {OlderLink(l) : l \in links}
  /\ UNCHANGED <<rows, storage>>

Next ==
  \/ AccountsNext /\ UNCHANGED <<rows, storage, reading, links>>
  \/ \E f \in Files : Save(f) \/ GiveUp(f) \/ Discard(f)
  \/ \E r \in Refunds : Create(r) \/ Approve(r) \/ Pay(r) \/ Delete(r)
  \/ \E e \in Emails, new \in Pictures \cup {NoPicture} : SetAvatar(e, new)
  \/ \E p \in Finders : GetUrl(p) \/ \E t \in tokens, f \in Files : Find(p, t, f)
  \/ \E l \in links : Fetch(l)
  \/ Tick

Spec == Init /\ [][Next]_vars

-----------------------------------------------------------------------------
(* What the rows, not a token, entitle a person to. *)
Entitled(user, f) == CASE f.storage = "avatars" -> users[user] # "nobody"
                       [] f.storage # "avatars" -> users[user] = "admin" \/ user = Owner[f.of]

(* What a link shows, with any path or out of the browser's cache. *)
Shows(l, f) == Serves(l, f) \/ (l.file = f /\ l.copy # NoCopy)

(* file_routes.py 7-12: the route decides nothing about people, the finder *)
(* did, from a token and a row it read a while ago.  Whatever the link     *)
(* shows, the rows entitle the one it was signed for to it.                *)
LinksShowOnlyTheirReadersFiles ==
  \A l \in links, f \in Files : Shows(l, f) => Entitled(l.user, f)

(* file_routes.py 54-58: the copy a browser keeps extends the grant by     *)
(* max-age and no more.                                                    *)
NothingIsShownLate ==
  \A l \in links : l.copy # NoCopy => l.age < LinkLife + CacheTime

(* The finders sign without looking for the file (receipt_finder_          *)
(* controller.py 37-43).  As long as a row names it the link works all the *)
(* same, until it expires: every writer saves before its commit names and  *)
(* deletes after its commit has let go.  Only a writer that did not learn  *)
(* of its commit may have taken the file back.                             *)
LinksWorkWhileARowNamesTheFile ==
  \A l \in links :
    l.age < LinkLife /\ Named(l.file) /\ l.file \notin doubted => Serves(l, l.file)

(* Clauses of the inductive invariant: a file that a row names is not      *)
(* being saved any more, and neither deleted nor about to be; a picture belongs to its uploader; *)
(* whoever has a link, or is about to get one, is entitled to the file;    *)
(* and a copy was made before its link expired.                            *)
RowsHaveTheirFiles ==
  /\ \A f \in Files : Named(f) => f \in saved /\ f \notin uploads
  /\ \A f \in Files : Named(f) /\ f \notin doubted => f \in files /\ f \notin trash
  /\ \A f \in Files : f \in uploads => f \notin trash
  /\ \A e \in Emails : avatar[e] # NoPicture => Uploader[avatar[e]] = e

GrantsWereAllowed ==
  /\ \A p \in Finders : reading[p] # NoRequest => Entitled(reading[p].user, reading[p].file)
  /\ \A l \in links : Entitled(l.user, l.file)

CopiesAreYoung == \A l \in links : l.copy # NoCopy => l.age < LinkLife + l.copy

IInv == /\ TypeOK /\ RolesAreRemembered
        /\ RowsHaveTheirFiles /\ GrantsWereAllowed /\ CopiesAreYoung

=============================================================================
