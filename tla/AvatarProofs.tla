---------------------------- MODULE AvatarProofs ----------------------------
(***************************************************************************)
(* Proofs, for every instance of AvatarApi, that IInv is inductive, that a *)
(* picture a row names is in the storage, and that a picture no row names  *)
(* has one of the listed causes.                                           *)
(***************************************************************************)
EXTENDS AvatarApi, TLAPS

USE DEF Files, Finished, Working, Reading

LEMMA CallFacts ==
  ASSUME NEW c \in Calls
  PROVE  /\ c # None
         /\ c.user \in Users \cup {None}
         /\ c.op \in {"upload", "remove"}
<1>1. c \in AnyCall
  BY CallsAssumption
<1>2. CASE c \in UploadCall
  BY <1>1, <1>2, NamesAssumption DEF UploadCall
<1>3. CASE c \in RemoveCall
  BY <1>1, <1>3, NamesAssumption DEF RemoveCall
<1> QED
  BY <1>1, <1>2, <1>3 DEF AnyCall

(* The initial states. *)
LEMMA InitIInv == Init => IInv
<1> SUFFICES ASSUME Init PROVE IInv
  OBVIOUS
<1> USE NamesAssumption, FaultsAssumption DEF Init
<1>1. TypeOK
  BY DEF TypeOK, Labels, Replies
<1>2. AvatarIsThere
  BY DEF AvatarIsThere
<1>3. CallInv
  BY DEF CallInv, CallOK, Written
<1>4. SeenInv
  BY DEF SeenInv, SeenOK
<1>5. NamedInv
  BY DEF NamedInv, NamedOK, OwnPicture
<1>6. ReplacedInv
  BY DEF ReplacedInv
<1>7. AccountedInv
  BY DEF AccountedInv, Accounted
<1> QED
  BY <1>1, <1>2, <1>3, <1>4, <1>5, <1>6, <1>7 DEF IInv

-----------------------------------------------------------------------------
(* TypeOK *)

LEMMA TypeStep ==
  ASSUME TypeOK, CallInv, [Next]_vars
  PROVE  TypeOK'
<1> USE NamesAssumption, FaultsAssumption DEF TypeOK, Labels, Replies, Successes
<1>1. ASSUME NEW r \in Requests, NEW c \in Calls, UploadRead(r, c)
      PROVE  TypeOK'
  <2>1. c.user # None => avatar[c.user] \in Files \cup {None}
    BY CallFacts
  <2>2. UNCHANGED <<avatar, lock, updates, logged, crashes>> /\ call' = [call EXCEPT ![r] = c]
    BY <1>1 DEF UploadRead, Receive, database
  <2>3. seen' \in [Requests -> Files \cup {None}] /\ avatars' \in SUBSET Files
    BY <1>1, <2>1 DEF UploadRead
  <2>4. pc' \in [Requests -> Labels] /\ reply' \in [Requests -> Replies]
    BY <1>1 DEF UploadRead, Answer, AnswerAt, Goto
  <2> QED
    BY <2>2, <2>3, <2>4
<1>2. ASSUME NEW r \in Requests, NEW c \in Calls, RemoveRead(r, c)
      PROVE  TypeOK'
  <2>1. c.user # None => avatar[c.user] \in Files \cup {None}
    BY CallFacts
  <2>2. UNCHANGED <<avatar, lock, updates, avatars, logged, crashes>> /\ call' = [call EXCEPT ![r] = c]
    BY <1>2 DEF RemoveRead, Receive, database, storage
  <2>3. seen' \in [Requests -> Files \cup {None}]
    BY <1>2, <2>1 DEF RemoveRead
  <2>4. pc' \in [Requests -> Labels] /\ reply' \in [Requests -> Replies]
    BY <1>2 DEF RemoveRead, Answer, AnswerAt, Goto
  <2> QED
    BY <2>2, <2>3, <2>4
<1>3. ASSUME NEW r \in Requests, UpdateAvatar(r)
      PROVE  TypeOK'
  BY <1>3 DEF UpdateAvatar, Fail, Answer, AnswerAt, Goto, storage
<1>4. ASSUME NEW r \in Requests, CommitAvatar(r)
      PROVE  TypeOK'
  <2>1. UNCHANGED <<call, seen, avatars, logged, crashes>>
    BY <1>4 DEF CommitAvatar, storage
  <2>2. pc' \in [Requests -> Labels] /\ reply' \in [Requests -> Replies]
    BY <1>4 DEF CommitAvatar, Fail, Answer, AnswerAt, Goto
  <2>3. lock' \in [Users -> Requests \cup {None}]
    BY <1>4 DEF CommitAvatar
  <2>4. avatar' \in [Users -> Files \cup {None}]
    BY <1>4 DEF CommitAvatar, NewValue
  <2>5. updates' \in SUBSET [by: Requests, old: Files \cup {None}, readers: SUBSET Requests]
    <3>1. User(r) \in Users
      BY <1>4 DEF CommitAvatar, CallInv, CallOK
    <3> QED
      BY <1>4, <3>1 DEF CommitAvatar
  <2> QED
    BY <2>1, <2>2, <2>3, <2>4, <2>5
<1>5. ASSUME NEW r \in Requests, DeletePrevious(r)
      PROVE  TypeOK'
  BY <1>5 DEF DeletePrevious, DeleteQuietly, Previous, Answer, AnswerAt, database, storage
<1>6. ASSUME NEW r \in Requests, UndoUpload(r)
      PROVE  TypeOK'
  BY <1>6 DEF UndoUpload, DeleteQuietly, Goto, database
<1>7. CASE Crash
  BY <1>7 DEF Crash, storage
<1>8. CASE UNCHANGED vars
  BY <1>8 DEF vars
<1> QED
  BY <1>1, <1>2, <1>3, <1>4, <1>5, <1>6, <1>7, <1>8 DEF Next, Arrive, Step, Quiet
-----------------------------------------------------------------------------
(* Every action keeps the rest of IInv. *)

LEMMA UploadReadStep ==
  ASSUME IInv, NEW r \in Requests, NEW c \in Calls, UploadRead(r, c), TypeOK'
  PROVE  IInv'
<1> USE NamesAssumption
<1>1. /\ UNCHANGED <<avatar, lock, updates, logged>>
      /\ pc[r] = "idle" /\ call' = [call EXCEPT ![r] = c]
      /\ pc'[r] \in {"updateAvatar", "done"}
      /\ \A d \in Requests \ {r} : /\ pc'[d] = pc[d] /\ reply'[d] = reply[d]
                                   /\ call'[d] = call[d] /\ seen'[d] = seen[d]
  BY DEF UploadRead, Receive, Answer, AnswerAt, Goto, database, storage, IInv, TypeOK
<1>2. /\ avatars \subseteq avatars' /\ avatars' \subseteq avatars \cup {r}
      /\ c.op = "upload"
      /\ r \in avatars' => pc'[r] = "updateAvatar" \/ reply'[r] = "saveError" \/ r \in avatars
      /\ pc'[r] = "updateAvatar" =>
           r \in avatars' /\ c.user # None /\ seen'[r] = avatar[c.user]
  BY DEF UploadRead, Answer, AnswerAt, Goto, IInv, TypeOK
<1>3. ~Written(r) /\ r \notin avatars
  BY <1>1 DEF IInv, CallInv, CallOK
<1>4. c # None /\ c.user \in Users \cup {None}
  BY CallFacts
<1>5. AvatarIsThere'
  BY <1>1, <1>2, <1>3 DEF IInv, AvatarIsThere, NamedInv, NamedOK, OwnPicture
<1>6. CallInv'
  <2> SUFFICES ASSUME NEW d \in Requests PROVE CallOK(d)'
    BY DEF CallInv
  <2> CallOK(d)
    BY DEF IInv, CallInv
  <2>1. CASE d = r
    BY <1>1, <1>2, <1>3, <1>4, <2>1 DEF IInv, TypeOK, CallOK, Written, Uploads, User
  <2>2. CASE d # r
    BY <1>1, <1>2, <2>2 DEF CallOK, Written, Uploads, User
  <2> QED
    BY <2>1, <2>2
<1>7. NamedInv'
  BY <1>1, <1>3 DEF IInv, NamedInv, NamedOK, OwnPicture, Written, User
<1>8. SeenInv'
  <2> SUFFICES ASSUME NEW d \in Requests PROVE SeenOK(d)'
    BY DEF SeenInv
  <2> SeenOK(d)
    BY DEF IInv, SeenInv
  <2>1. CASE d = r
    <3>1. pc'[r] = "updateAvatar" => OwnPicture(avatar[c.user], c.user)
      BY <1>2, <1>4 DEF IInv, NamedInv, NamedOK
    <3>2. call'[r] = c
      BY <1>1 DEF IInv, TypeOK
    <3> QED
      BY <1>1, <1>2, <1>3, <1>4, <2>1, <3>1, <3>2 DEF SeenOK, OwnPicture, Written, User
  <2>2. CASE d # r
    BY <1>1, <1>2, <1>3, <2>2 DEF SeenOK, OwnPicture, Written, User
  <2> QED
    BY <2>1, <2>2
<1>9. ReplacedInv'
  BY <1>1, <1>2, <1>3 DEF IInv, TypeOK, ReplacedInv, ReplacedOK, Written
<1>10. AccountedInv'
  BY <1>1, <1>2, <1>3 DEF IInv, AccountedInv, Accounted, Written
<1> QED
  BY <1>5, <1>6, <1>7, <1>8, <1>9, <1>10 DEF IInv

LEMMA RemoveReadStep ==
  ASSUME IInv, NEW r \in Requests, NEW c \in Calls, RemoveRead(r, c), TypeOK'
  PROVE  IInv'
<1> USE NamesAssumption
<1>1. /\ UNCHANGED <<avatar, lock, updates, avatars, logged>>
      /\ pc[r] = "idle" /\ call' = [call EXCEPT ![r] = c]
      /\ pc'[r] \in {"updateAvatar", "done"}
      /\ \A d \in Requests \ {r} : /\ pc'[d] = pc[d] /\ reply'[d] = reply[d]
                                   /\ call'[d] = call[d] /\ seen'[d] = seen[d]
  BY DEF RemoveRead, Receive, Answer, AnswerAt, Goto, database, storage, IInv, TypeOK
<1>2. /\ avatars \subseteq avatars' /\ avatars' \subseteq avatars
      /\ c.op = "remove"
      /\ pc'[r] = "updateAvatar" => c.user # None /\ seen'[r] = avatar[c.user]
  BY <1>1 DEF RemoveRead, Answer, AnswerAt, Goto, IInv, TypeOK
<1>3. ~Written(r) /\ r \notin avatars
  BY <1>1 DEF IInv, CallInv, CallOK
<1>4. c # None /\ c.user \in Users \cup {None}
  BY CallFacts
<1>5. AvatarIsThere'
  BY <1>1, <1>2, <1>3 DEF IInv, AvatarIsThere, NamedInv, NamedOK, OwnPicture
<1>6. CallInv'
  <2> SUFFICES ASSUME NEW d \in Requests PROVE CallOK(d)'
    BY DEF CallInv
  <2> CallOK(d)
    BY DEF IInv, CallInv
  <2>1. CASE d = r
    BY <1>1, <1>2, <1>3, <1>4, <2>1 DEF IInv, TypeOK, CallOK, Written, Uploads, User
  <2>2. CASE d # r
    BY <1>1, <1>2, <2>2 DEF CallOK, Written, Uploads, User
  <2> QED
    BY <2>1, <2>2
<1>7. NamedInv'
  BY <1>1, <1>3 DEF IInv, NamedInv, NamedOK, OwnPicture, Written, User
<1>8. SeenInv'
  <2> SUFFICES ASSUME NEW d \in Requests PROVE SeenOK(d)'
    BY DEF SeenInv
  <2> SeenOK(d)
    BY DEF IInv, SeenInv
  <2>1. CASE d = r
    <3>1. pc'[r] = "updateAvatar" => OwnPicture(avatar[c.user], c.user)
      BY <1>2, <1>4 DEF IInv, NamedInv, NamedOK
    <3>2. call'[r] = c
      BY <1>1 DEF IInv, TypeOK
    <3> QED
      BY <1>1, <1>2, <1>3, <1>4, <2>1, <3>1, <3>2 DEF SeenOK, OwnPicture, Written, User
  <2>2. CASE d # r
    BY <1>1, <1>2, <1>3, <2>2 DEF SeenOK, OwnPicture, Written, User
  <2> QED
    BY <2>1, <2>2
<1>9. ReplacedInv'
  BY <1>1, <1>2, <1>3 DEF IInv, TypeOK, ReplacedInv, ReplacedOK, Written
<1>10. AccountedInv'
  BY <1>1, <1>2, <1>3 DEF IInv, AccountedInv, Accounted, Written
<1> QED
  BY <1>5, <1>6, <1>7, <1>8, <1>9, <1>10 DEF IInv

LEMMA UpdateAvatarStep ==
  ASSUME IInv, NEW r \in Requests, UpdateAvatar(r), TypeOK'
  PROVE  IInv'
<1> USE NamesAssumption
<1>1. /\ UNCHANGED <<call, seen, avatar, updates, avatars, logged>>
      /\ pc[r] = "updateAvatar"
      /\ \/ pc'[r] = "commitAvatar" /\ lock[User(r)] = None /\ lock' = [lock EXCEPT ![User(r)] = r]
         \/ UNCHANGED lock /\ pc'[r] = "undoUpload" /\ Uploads(r) /\ reply'[r] = "error"
         \/ UNCHANGED lock /\ pc'[r] = "done" /\ ~Uploads(r)
      /\ \A d \in Requests \ {r} : pc'[d] = pc[d] /\ reply'[d] = reply[d]
  BY DEF UpdateAvatar, Fail, Answer, AnswerAt, Goto, storage, IInv, TypeOK
<1>2. call[r] # None /\ User(r) \in Users /\ ~Written(r)
  BY <1>1 DEF IInv, CallInv, CallOK
<1>5. AvatarIsThere'
  BY <1>1 DEF IInv, AvatarIsThere
<1>6. CallInv'
  <2> SUFFICES ASSUME NEW d \in Requests PROVE CallOK(d)'
    BY DEF CallInv
  <2> CallOK(d)
    BY DEF IInv, CallInv
  <2>1. CASE d = r
    BY <1>1, <1>2, <2>1 DEF IInv, TypeOK, CallOK, Written, Uploads, User
  <2>2. CASE d # r
    BY <1>1, <1>2, <2>2 DEF IInv, TypeOK, CallOK, Written, Uploads, User
  <2> QED
    BY <2>1, <2>2
<1>7. NamedInv'
  BY <1>1 DEF IInv, NamedInv, NamedOK, OwnPicture, Written, User
<1>8. SeenInv'
  <2> SUFFICES ASSUME NEW d \in Requests PROVE SeenOK(d)'
    BY DEF SeenInv
  <2> SeenOK(d)
    BY DEF IInv, SeenInv
  <2> QED
    BY <1>1 DEF SeenOK, OwnPicture, Written, User
<1>9. ReplacedInv'
  BY <1>1, <1>2 DEF IInv, TypeOK, ReplacedInv, ReplacedOK, Written
<1>10. AccountedInv'
  BY <1>1 DEF IInv, AccountedInv, Accounted, Written
<1> QED
  BY <1>5, <1>6, <1>7, <1>8, <1>9, <1>10 DEF IInv

(* The facts about a commit that makes its update durable.                 *)
LEMMA DurableStep ==
  ASSUME IInv, NEW r \in Requests, TypeOK',
         pc[r] = "commitAvatar",
         UNCHANGED <<call, seen, avatars, logged>>,
         lock' = [lock EXCEPT ![User(r)] = None],
         avatar' = [avatar EXCEPT ![User(r)] = NewValue(r)],
         updates' = updates \cup
           {[by |-> r, old |-> avatar[User(r)],
             readers |-> {d \in Requests : pc[d] = "updateAvatar" /\ User(d) = User(r)}]},
         \/ pc'[r] = "deletePrevious" /\ reply'[r] = reply[r]
         \/ /\ "ack" \in Faults /\ reply'[r] = "error"
            /\ \/ pc'[r] = "undoUpload" /\ Uploads(r)
               \/ pc'[r] = "done" /\ ~Uploads(r),
         \A d \in Requests \ {r} : pc'[d] = pc[d] /\ reply'[d] = reply[d]
  PROVE  IInv'
<1> USE NamesAssumption
<1>0. PICK new :
        new = [by |-> r, old |-> avatar[User(r)],
                     readers |-> {d \in Requests : pc[d] = "updateAvatar" /\ User(d) = User(r)}]
  OBVIOUS
<1>1. call[r] # None /\ User(r) \in Users /\ ~Written(r) /\ lock[User(r)] = r
  BY DEF IInv, CallInv, CallOK
<1>2. /\ updates' = updates \cup {new}
      /\ new.by = r /\ new.old = avatar[User(r)]
      /\ \A d \in Requests : pc[d] = "updateAvatar" /\ User(d) = User(r) => d \in new.readers
  BY <1>0
<1>3. \A d \in Requests : Written(d)' <=> Written(d) \/ d = r
  BY <1>2 DEF Written
<1>4. /\ avatar'[User(r)] = IF Uploads(r) THEN r ELSE None
      /\ \A u \in Users \ {User(r)} : avatar'[u] = avatar[u]
      /\ Uploads(r) => r \in avatars
  BY <1>1 DEF IInv, TypeOK, NewValue, CallInv, CallOK
<1>5. AvatarIsThere'
  <2> SUFFICES ASSUME NEW u \in Users, avatar'[u] \notin avatars' \cup {None}
               PROVE  /\ "ack" \in Faults /\ avatar'[u] \in Requests
                      /\ reply'[avatar'[u]] = "error" /\ pc'[avatar'[u]] = "done"
    BY DEF AvatarIsThere
  <2>1. u # User(r) /\ avatar'[u] = avatar[u]
    BY <1>4
  <2>2. "ack" \in Faults /\ avatar[u] \in Requests /\ reply[avatar[u]] = "error" /\ pc[avatar[u]] = "done"
    BY <2>1 DEF IInv, AvatarIsThere
  <2> QED
    BY <2>1, <2>2
<1>6. CallInv'
  <2> SUFFICES ASSUME NEW d \in Requests PROVE CallOK(d)'
    BY DEF CallInv
  <2> CallOK(d)
    BY DEF IInv, CallInv
  <2>1. CASE d = r
    BY <1>1, <1>3, <2>1 DEF CallOK, Uploads, User
  <2>2. CASE d # r
    <3>1. pc[d] = "commitAvatar" => User(d) # User(r)
      BY <1>1, <2>2 DEF CallOK
    <3> QED
      BY <1>1, <1>3, <2>2, <3>1 DEF IInv, TypeOK, CallOK, Uploads, User
  <2> QED
    BY <2>1, <2>2
<1>7. NamedInv'
  BY <1>1, <1>3, <1>4 DEF IInv, NamedInv, NamedOK, OwnPicture, User
<1>8. SeenInv'
  <2> SUFFICES ASSUME NEW d \in Requests PROVE SeenOK(d)'
    BY DEF SeenInv
  <2>0. SeenOK(d) /\ CallOK(d)
    BY DEF IInv, SeenInv, CallInv
  <2>1. pc'[d] \in Reading \cup {"deletePrevious"} => OwnPicture(seen[d], User(d))'
    BY <1>3, <2>0 DEF SeenOK, OwnPicture, User
  <2>2. pc'[d] \in Reading =>
          \/ avatar'[User(d)'] \in {None, seen'[d]}
          \/ \E v \in updates' : v.by = avatar'[User(d)'] /\ d \in v.readers
    <3>1. SUFFICES ASSUME pc'[d] \in Reading
                   PROVE  \/ avatar'[User(d)] \in {None, seen[d]}
                          \/ \E v \in updates' : v.by = avatar'[User(d)] /\ d \in v.readers
      BY DEF User
    <3>2. d # r /\ pc[d] \in Reading
      BY <3>1
    <3>3. CASE User(d) = User(r)
      <4>1. pc[d] = "updateAvatar"
        BY <1>1, <2>0, <3>2, <3>3 DEF CallOK
      <4>2. d \in new.readers
        BY <1>2, <3>3, <4>1
      <4> QED
        BY <1>2, <1>4, <3>3, <4>2
    <3>4. CASE User(d) # User(r)
      <4>1. User(d) \in Users
        BY <2>0, <3>2 DEF CallOK
      <4> QED
        BY <1>2, <1>4, <2>0, <3>2, <3>4, <4>1 DEF SeenOK
    <3> QED
      BY <3>3, <3>4
  <2>3. pc'[d] = "deletePrevious" => \A u \in Users : avatar'[u] # seen'[d] \/ seen'[d] = None
    <3>1. SUFFICES ASSUME pc'[d] = "deletePrevious", NEW u \in Users,
                          avatar'[u] = seen[d], seen[d] # None
                   PROVE  FALSE
      OBVIOUS
    <3>2. OwnPicture(seen[d], User(d))
      BY <2>0, <3>1 DEF SeenOK
    <3>3. u # User(r) /\ avatar'[u] = avatar[u]
      BY <1>1, <1>4, <3>1, <3>2 DEF OwnPicture
    <3>4. CASE d = r
      BY <3>1, <3>2, <3>3, <3>4 DEF IInv, TypeOK, NamedInv, NamedOK, OwnPicture
    <3>5. CASE d # r
      BY <2>0, <3>1, <3>3, <3>5 DEF SeenOK
    <3> QED
      BY <3>4, <3>5
  <2> QED
    BY <2>1, <2>2, <2>3 DEF SeenOK
<1>9. ReplacedInv'
  <2>1. ASSUME NEW w \in updates PROVE ReplacedOK(w)'
    <3>1. ReplacedOK(w) /\ w.by \in Requests /\ w.by # r
      BY <1>1 DEF IInv, ReplacedInv, TypeOK, Written
    <3> QED
      BY <1>2, <1>3, <3>1 DEF ReplacedOK
  <2>2. ReplacedOK(new)'
    <3>1. avatar[User(r)] \in Requests => Written(avatar[User(r)])
      BY <1>1 DEF IInv, NamedInv, NamedOK, OwnPicture
    <3>2. \/ avatar[User(r)] \in {None, seen[r]}
          \/ \E v \in updates : v.by = avatar[User(r)] /\ r \in v.readers
      BY DEF IInv, SeenInv, SeenOK
    <3> QED
      BY <1>2, <1>3, <3>1, <3>2 DEF ReplacedOK
  <2> QED
    BY <1>2, <2>1, <2>2 DEF ReplacedInv
<1>10. AccountedInv'
  <2> SUFFICES ASSUME NEW f \in avatars, f \in Pictured \/ Written(f)'
               PROVE  (\E u \in Users : avatar'[u] = f) \/ (\E w \in updates' : w.old = f)
    BY DEF AccountedInv, Accounted
  <2>1. CASE f = r
    <3>1. Uploads(r)
      BY <2>1 DEF IInv, CallInv, CallOK
    <3> QED
      BY <1>1, <1>4, <2>1, <3>1
  <2>2. CASE f # r
    <3>1. f \in Pictured \/ Written(f)
      BY <1>2, <2>2 DEF Written
    <3>2. (\E u \in Users : avatar[u] = f) \/ (\E w \in updates : w.old = f)
      BY <3>1 DEF IInv, AccountedInv, Accounted
    <3> QED
      BY <1>2, <1>4, <3>2
  <2> QED
    BY <2>1, <2>2
<1> QED
  BY <1>5, <1>6, <1>7, <1>8, <1>9, <1>10 DEF IInv

LEMMA CommitAvatarStep ==
  ASSUME IInv, NEW r \in Requests, CommitAvatar(r), TypeOK'
  PROVE  IInv'
<1> USE NamesAssumption
<1>1. /\ UNCHANGED <<call, seen, avatars, logged>>
      /\ pc[r] = "commitAvatar"
      /\ lock' = [lock EXCEPT ![User(r)] = None]
      /\ \A d \in Requests \ {r} : pc'[d] = pc[d] /\ reply'[d] = reply[d]
  BY DEF CommitAvatar, Fail, Answer, AnswerAt, Goto, storage, IInv, TypeOK
<1>2. CASE UNCHANGED <<avatar, updates>> /\ Fail(r)
  <2>1. /\ reply'[r] = "error"
        /\ pc'[r] = IF Uploads(r) THEN "undoUpload" ELSE "done"
    BY <1>2 DEF Fail, Answer, AnswerAt, IInv, TypeOK
  <2>2. call[r] # None /\ User(r) \in Users /\ ~Written(r) /\ lock[User(r)] = r
    BY <1>1 DEF IInv, CallInv, CallOK
  <2>5. AvatarIsThere'
    BY <1>1, <1>2 DEF IInv, AvatarIsThere
  <2>6. CallInv'
    <3> SUFFICES ASSUME NEW d \in Requests PROVE CallOK(d)'
      BY DEF CallInv
    <3> CallOK(d)
      BY DEF IInv, CallInv
    <3>1. CASE d = r
      BY <1>1, <1>2, <2>1, <2>2, <3>1 DEF CallOK, Written, Uploads, User
    <3>2. CASE d # r
      <4>1. pc[d] = "commitAvatar" => User(d) # User(r)
        BY <2>2, <3>2 DEF CallOK
      <4> QED
        BY <1>1, <1>2, <3>2, <4>1 DEF IInv, TypeOK, CallOK, Written, Uploads, User
    <3> QED
      BY <3>1, <3>2
  <2>7. NamedInv'
    BY <1>1, <1>2 DEF IInv, NamedInv, NamedOK, OwnPicture, Written, User
  <2>8. SeenInv'
    <3> SUFFICES ASSUME NEW d \in Requests PROVE SeenOK(d)'
      BY DEF SeenInv
    <3> SeenOK(d)
      BY DEF IInv, SeenInv
    <3> QED
      BY <1>1, <1>2, <2>1 DEF SeenOK, OwnPicture, Written, User
  <2>9. ReplacedInv'
    BY <1>1, <1>2, <2>2 DEF IInv, TypeOK, ReplacedInv, ReplacedOK, Written
  <2>10. AccountedInv'
    BY <1>1, <1>2 DEF IInv, AccountedInv, Accounted, Written
  <2> QED
    BY <2>5, <2>6, <2>7, <2>8, <2>9, <2>10 DEF IInv
<1>3. CASE ~(UNCHANGED <<avatar, updates>> /\ Fail(r))
  <2>1. /\ avatar' = [avatar EXCEPT ![User(r)] = NewValue(r)]
        /\ updates' = updates \cup
             {[by |-> r, old |-> avatar[User(r)],
               readers |-> {d \in Requests : pc[d] = "updateAvatar" /\ User(d) = User(r)}]}
        /\ Goto(r, "deletePrevious") \/ ("ack" \in Faults /\ Fail(r))
    BY <1>3 DEF CommitAvatar
  <2>2. \/ pc'[r] = "deletePrevious" /\ reply'[r] = reply[r]
        \/ /\ "ack" \in Faults /\ reply'[r] = "error"
           /\ \/ pc'[r] = "undoUpload" /\ Uploads(r)
              \/ pc'[r] = "done" /\ ~Uploads(r)
    BY <2>1 DEF Goto, Fail, Answer, AnswerAt, IInv, TypeOK
  <2> QED
    BY <1>1, <2>1, <2>2, DurableStep
<1> QED
  BY <1>2, <1>3

(* A step that ends request r and at most deletes the file g, which no row *)
(* names or whose compensation excuses it.                                 *)
LEMMA DeletionStep ==
  ASSUME IInv, NEW r \in Requests, NEW g, TypeOK',
         UNCHANGED <<call, seen, avatar, lock, updates>>,
         \/ avatars' = avatars \ {g} /\ UNCHANGED logged
         \/ avatars' = avatars /\ logged' = logged \cup {g},
         pc' = [pc EXCEPT ![r] = "done"],
         \A d \in Requests \ {r} : reply'[d] = reply[d],
         \/ pc[r] = "deletePrevious" /\ g = seen[r]
         \/ pc[r] = "undoUpload" /\ g = r /\ reply'[r] = reply[r]
  PROVE  IInv'
<1> USE NamesAssumption
<1>1. /\ pc'[r] = "done" /\ pc[r] \in {"deletePrevious", "undoUpload"}
      /\ \A d \in Requests \ {r} : pc'[d] = pc[d] /\ reply'[d] = reply[d]
      /\ avatars' \subseteq avatars /\ logged \subseteq logged'
      /\ \A f \in avatars : f \in avatars' \/ f = g
      /\ g \notin avatars' \/ g \in logged'
  BY DEF IInv, TypeOK
<1>2. CallOK(r) /\ SeenOK(r)
  BY DEF IInv, CallInv, SeenInv
<1>5. AvatarIsThere'
  <2> SUFFICES ASSUME NEW u \in Users, avatar[u] \notin avatars' \cup {None}
               PROVE  /\ "ack" \in Faults /\ avatar[u] \in Requests
                      /\ reply'[avatar[u]] = "error" /\ pc'[avatar[u]] = "done"
    BY DEF AvatarIsThere
  <2>1. CASE avatar[u] \notin avatars
    <3>1. "ack" \in Faults /\ avatar[u] \in Requests /\ reply[avatar[u]] = "error" /\ pc[avatar[u]] = "done"
      BY <2>1 DEF IInv, AvatarIsThere
    <3>2. avatar[u] # r
      BY <1>1, <3>1
    <3> QED
      BY <1>1, <3>1, <3>2
  <2>2. CASE avatar[u] \in avatars
    <3>1. avatar[u] = g /\ g # None
      BY <1>1, <2>2
    <3>2. pc[r] = "undoUpload" /\ g = r /\ reply'[r] = reply[r]
      BY <1>2, <3>1 DEF SeenOK
    <3>3. Written(r)
      BY <3>1, <3>2 DEF IInv, NamedInv, NamedOK, OwnPicture
    <3> QED
      BY <1>1, <1>2, <3>1, <3>2, <3>3 DEF CallOK
  <2> QED
    BY <2>1, <2>2
<1>6. CallInv'
  <2> SUFFICES ASSUME NEW d \in Requests PROVE CallOK(d)'
    BY DEF CallInv
  <2>0. CallOK(d) /\ SeenOK(r)
    BY DEF IInv, CallInv, SeenInv
  <2>1. pc[d] \in Reading /\ Uploads(d) => d \in avatars'
    <3>1. pc[d] \in Reading => d # g
      BY <2>0 DEF CallOK, SeenOK, OwnPicture
    <3> QED
      BY <1>1, <2>0, <3>1 DEF CallOK
  <2>2. CASE d = r
    BY <1>1, <1>2, <2>2 DEF CallOK, Written, Uploads, User
  <2>3. CASE d # r
    BY <1>1, <2>0, <2>1, <2>3 DEF CallOK, Written, Uploads, User
  <2> QED
    BY <2>2, <2>3
<1>7. NamedInv'
  BY DEF IInv, NamedInv, NamedOK, OwnPicture, Written, User
<1>8. SeenInv'
  <2> SUFFICES ASSUME NEW d \in Requests PROVE SeenOK(d)'
    BY DEF SeenInv
  <2> SeenOK(d)
    BY DEF IInv, SeenInv
  <2> QED
    BY <1>1 DEF SeenOK, OwnPicture, Written, User
<1>9. ReplacedInv'
  <2> SUFFICES ASSUME NEW w \in updates PROVE ReplacedOK(w)'
    BY DEF ReplacedInv
  <2>1. ReplacedOK(w) /\ w.by \in Requests
    BY DEF IInv, ReplacedInv, TypeOK
  <2>2. CASE w.by = r /\ seen[r] = w.old /\ pc[r] = "deletePrevious"
    BY <1>1, <2>1, <2>2 DEF ReplacedOK, Written
  <2>3. CASE ~(w.by = r /\ seen[r] = w.old /\ pc[r] = "deletePrevious")
    BY <1>1, <2>1, <2>3 DEF ReplacedOK, Written
  <2> QED
    BY <2>2, <2>3
<1>10. AccountedInv'
  BY <1>1 DEF IInv, AccountedInv, Accounted, Written
<1> QED
  BY <1>5, <1>6, <1>7, <1>8, <1>9, <1>10 DEF IInv

LEMMA DeletePreviousStep ==
  ASSUME IInv, NEW r \in Requests, DeletePrevious(r), TypeOK'
  PROVE  IInv'
<1>1. /\ UNCHANGED <<call, seen, avatar, lock, updates>>
      /\ pc[r] = "deletePrevious" /\ pc' = [pc EXCEPT ![r] = "done"]
      /\ \A d \in Requests \ {r} : reply'[d] = reply[d]
  BY DEF DeletePrevious, Answer, AnswerAt, database, IInv, TypeOK
<1>2. None \notin avatars
  BY NamesAssumption DEF IInv, TypeOK
<1>3. \/ avatars' = avatars \ {seen[r]} /\ UNCHANGED logged
      \/ avatars' = avatars /\ logged' = logged \cup {seen[r]}
  BY <1>2 DEF DeletePrevious, DeleteQuietly, Previous, storage
<1> QED
  BY <1>1, <1>3, DeletionStep

LEMMA UndoUploadStep ==
  ASSUME IInv, NEW r \in Requests, UndoUpload(r), TypeOK'
  PROVE  IInv'
<1>1. /\ UNCHANGED <<call, seen, avatar, lock, updates, reply>>
      /\ pc[r] = "undoUpload" /\ pc' = [pc EXCEPT ![r] = "done"]
  BY DEF UndoUpload, Goto, database
<1>2. \/ avatars' = avatars \ {r} /\ UNCHANGED logged
      \/ avatars' = avatars /\ logged' = logged \cup {r}
  BY DEF UndoUpload, DeleteQuietly
<1> QED
  BY <1>1, <1>2, DeletionStep

LEMMA CrashStep ==
  ASSUME IInv, Crash, TypeOK'
  PROVE  IInv'
<1> USE NamesAssumption
<1>1. /\ UNCHANGED <<call, seen, reply, avatar, updates, avatars, logged>>
      /\ \A d \in Requests : pc'[d] = IF pc[d] \in {"idle"} \cup Finished THEN pc[d] ELSE "dead"
  BY DEF Crash, storage
<1>5. AvatarIsThere'
  BY <1>1 DEF IInv, AvatarIsThere
<1>6. CallInv'
  <2> SUFFICES ASSUME NEW d \in Requests PROVE CallOK(d)'
    BY DEF CallInv
  <2> CallOK(d)
    BY DEF IInv, CallInv
  <2> QED
    BY <1>1 DEF IInv, TypeOK, Labels, CallOK, Written, Uploads, User
<1>7. NamedInv'
  BY <1>1 DEF IInv, NamedInv, NamedOK, OwnPicture, Written, User
<1>8. SeenInv'
  BY <1>1 DEF SeenInv, SeenOK
<1>9. ReplacedInv'
  BY <1>1 DEF IInv, TypeOK, ReplacedInv, ReplacedOK, Written
<1>10. AccountedInv'
  BY <1>1 DEF IInv, AccountedInv, Accounted, Written
<1> QED
  BY <1>5, <1>6, <1>7, <1>8, <1>9, <1>10 DEF IInv

LEMMA IdleStep ==
  ASSUME IInv, UNCHANGED vars
  PROVE  IInv'
<1> USE DEF vars
<1>1. TypeOK' /\ AvatarIsThere'
  BY DEF IInv, TypeOK, AvatarIsThere
<1>2. CallInv' /\ SeenInv'
  BY DEF IInv, CallInv, CallOK, SeenInv, SeenOK, OwnPicture, Written, Uploads, User
<1>3. NamedInv' /\ ReplacedInv' /\ AccountedInv'
  BY DEF IInv, NamedInv, NamedOK, ReplacedInv, ReplacedOK, AccountedInv, Accounted,
         OwnPicture, Written, User
<1> QED
  BY <1>1, <1>2, <1>3 DEF IInv

LEMMA NextIInv ==
  ASSUME IInv, [Next]_vars
  PROVE  IInv'
<1>1. TypeOK'
  BY TypeStep DEF IInv
<1>2. CASE \E r \in Requests : Arrive(r)
  BY <1>1, <1>2, UploadReadStep, RemoveReadStep DEF Arrive
<1>3. CASE \E r \in Requests : Step(r)
  BY <1>1, <1>3, UpdateAvatarStep, CommitAvatarStep, DeletePreviousStep, UndoUploadStep DEF Step
<1>4. CASE Crash
  BY <1>1, <1>4, CrashStep
<1>5. CASE Quiet \/ UNCHANGED vars
  BY <1>5, IdleStep DEF Quiet
<1> QED
  BY <1>2, <1>3, <1>4, <1>5 DEF Next

-----------------------------------------------------------------------------
(* IInv holds in every state of every behaviour.                           *)
THEOREM Invariance == Spec => []IInv
<1>1. Init => IInv
  BY InitIInv
<1>2. IInv /\ [Next]_vars => IInv'
  BY NextIInv
<1> QED
  BY <1>1, <1>2, PTL DEF Spec

(* Columns, locks, storage and the local state of every request keep their *)
(* types.                                                                  *)
THEOREM TypeCorrect == Spec => []TypeOK
<1>1. IInv => TypeOK
  BY DEF IInv
<1> QED
  BY <1>1, Invariance, PTL

(* avatar_uploader_controller.py 38-41 and avatar_remover_controller.py    *)
(* 29-30: deleting last never takes the picture a row names, however many  *)
(* requests of the user overlap; only the compensation of an upload whose  *)
(* durable update raised does.                                             *)
THEOREM PicturesAreThere == Spec => []AvatarIsThere
<1>1. IInv => AvatarIsThere
  BY DEF IInv
<1> QED
  BY <1>1, Invariance, PTL

(* A picture is left in the storage for one of the causes listed, and for  *)
(* no other.                                                               *)
THEOREM OrphansHaveCauses == Spec => []EveryOrphanAvatarHasACause
<1>1. IInv => EveryOrphanAvatarHasACause
  <2> SUFFICES ASSUME IInv, NEW f \in Orphans, f \notin logged
               PROVE  \/ /\ f \in Requests /\ ~Written(f)
                         /\ \/ pc[f] \in {"updateAvatar", "commitAvatar", "undoUpload", "dead"}
                            \/ reply[f] = "saveError"
                      \/ \E w \in updates :
                           /\ w.old = f
                           /\ \/ \E v \in updates : v.by = f /\ w.by \in v.readers
                              \/ pc[w.by] \in {"deletePrevious", "dead"}
                              \/ reply[w.by] = "error" /\ "ack" \in Faults
    BY DEF EveryOrphanAvatarHasACause
  <2>1. f \in avatars /\ f \in Requests \cup Pictured /\ f # None
        /\ \A u \in Users : avatar[u] # f
    BY NamesAssumption DEF Orphans, IInv, TypeOK
  <2>2. CASE f \in Requests /\ ~Written(f)
    BY <2>1, <2>2 DEF IInv, CallInv, CallOK
  <2>3. CASE f \in Pictured \/ Written(f)
    <3>1. PICK w \in updates : w.old = f
      BY <2>1, <2>3 DEF IInv, AccountedInv, Accounted
    <3> QED
      BY <2>1, <3>1 DEF IInv, ReplacedInv, ReplacedOK
  <2> QED
    BY <2>1, <2>2, <2>3
<1> QED
  BY <1>1, Invariance, PTL
============================================================================
