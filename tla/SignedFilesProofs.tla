-------------------------- MODULE SignedFilesProofs --------------------------
(***************************************************************************)
(* Proofs, for any people, refunds, pictures and lifetimes, that a stale   *)
(* role expires with its token, that a link shows its reader nothing else  *)
(* than what the rows entitle him to and not for longer than it may, and   *)
(* that it works as long as a row names its file.                          *)
(***************************************************************************)
EXTENDS SignedFiles, FiniteSetTheorems, TLAPS

USE AccountsAssumption, FilesAssumption DEF Roles, LongAgo, Ages, NoCopy

LEMMA UptoType == ASSUME NEW bound \in Nat, NEW age \in 0..bound
                  PROVE  /\ Upto(bound, age) \in 0..bound
                         /\ Upto(bound, age) <= age + 1
                         /\ age <= Upto(bound, age)
                         /\ Upto(bound, age) = age + 1 \/ Upto(bound, age) = bound
BY DEF Upto

LEMMA CopyType == ASSUME NEW copy \in NoCopy..CacheTime
                  PROVE  /\ OlderCopy(copy) \in NoCopy..CacheTime
                         /\ OlderCopy(copy) # NoCopy => copy # NoCopy /\ OlderCopy(copy) = copy + 1
BY DEF OlderCopy

LEMMA FileTypes ==
  /\ \A r \in Refunds : Receipt(r) \in Files /\ Payment(r) \in Files
  /\ \A n \in Pictures : Picture(n) \in Files
BY DEF Files, Receipt, Payment, Picture

LEMMA AccountsStepType == AccountsTypeOK /\ AccountsNext => AccountsTypeOK'
<1> SUFFICES ASSUME AccountsTypeOK, AccountsNext PROVE AccountsTypeOK'
  OBVIOUS
<1> USE DEF AccountsTypeOK, Tasks, Begin
<1>1. ASSUME NEW p \in Requests, NEW e \in Emails, InsertUser(p, e) PROVE AccountsTypeOK'
  BY <1>1 DEF InsertUser
<1>2. ASSUME NEW p \in Requests, NEW e \in Emails, Login(p, e) PROVE AccountsTypeOK'
  BY <1>2 DEF Login, Exists
<1>3. ASSUME NEW p \in Requests, CommitUser(p) PROVE AccountsTypeOK'
  <2>1. doing[p] \in Tasks
    BY <1>3 DEF CommitUser
  <2> QED
    BY <1>3, <2>1 DEF CommitUser
<1>4. ASSUME NEW p \in Requests, CreateToken(p) PROVE AccountsTypeOK'
  <2>1. doing[p] \in Tasks
    BY <1>4 DEF CreateToken
  <2>2. tokens' \subseteq [user: Emails, role: Roles, age: 0..TokenLife]
    BY <1>4, <2>1 DEF CreateToken
  <2> QED
    BY <1>4, <2>2 DEF CreateToken
<1>5. ASSUME NEW e \in Emails, Promote(e) PROVE AccountsTypeOK'
  BY <1>5 DEF Promote
<1> QED
  BY <1>1, <1>2, <1>3, <1>4, <1>5 DEF AccountsNext

LEMMA AccountsAgeType == AccountsTypeOK /\ AccountsAge => AccountsTypeOK'
<1> SUFFICES ASSUME AccountsTypeOK, AccountsAge PROVE AccountsTypeOK'
  OBVIOUS
<1> USE DEF AccountsTypeOK, AccountsAge
<1>1. tokens' \subseteq [user: Emails, role: Roles, age: 0..TokenLife]
  BY UptoType
<1>2. sinceAdmin' \in [Emails -> 0..LongAgo]
  <2>1. ASSUME NEW e \in Emails PROVE Upto(LongAgo, sinceAdmin[e]) \in 0..LongAgo
    BY DEF Upto
  <2> QED
    BY <2>1
<1>3. doing' \in [Requests -> {NoTask} \cup Tasks]
  BY DEF Tasks
<1> QED
  BY <1>1, <1>2, <1>3

LEMMA InitIInv == Init => IInv
<1> SUFFICES ASSUME Init PROVE IInv
  OBVIOUS
<1>1. TypeOK
  BY DEF Init, AccountsInit, TypeOK, AccountsTypeOK
<1>2. \A f \in Files : ~Named(f)
  BY DEF Init, Named, Files
<1> QED
  BY <1>1, <1>2 DEF Init, AccountsInit, IInv, RolesAreRemembered, RowsHaveTheirFiles,
     GrantsWereAllowed, CopiesAreYoung

(* A file is of one of three kinds. *)
LEMMA FileKinds ==
  ASSUME NEW f \in Files
  PROVE  \/ f.storage = "receipts" /\ f.of \in Refunds /\ f = Receipt(f.of)
         \/ f.storage = "payments" /\ f.of \in Refunds /\ f = Payment(f.of)
         \/ f.storage = "avatars" /\ f.of \in Pictures /\ f = Picture(f.of)
BY DEF Files, Receipt, Payment, Picture

LEMMA TypeStep == TypeOK /\ RowsHaveTheirFiles /\ [Next]_vars => TypeOK'
<1> SUFFICES ASSUME TypeOK, RowsHaveTheirFiles, [Next]_vars PROVE TypeOK'
  OBVIOUS
<1> USE FileTypes DEF TypeOK, rows, storage
<1>1. CASE AccountsNext /\ UNCHANGED <<rows, storage, reading, links>>
  <2>1. AccountsTypeOK'
    BY <1>1, AccountsStepType
  <2> QED
    BY <1>1, <2>1
<1>2. ASSUME NEW f \in Files, Save(f) \/ GiveUp(f) \/ Discard(f) PROVE TypeOK'
  <2>1. AccountsTypeOK'
    BY <1>2 DEF Save, GiveUp, Discard, accounts, AccountsTypeOK
  <2>2. UNCHANGED <<refunds, avatar, reading, links>>
    BY <1>2 DEF Save, GiveUp, Discard
  <2>3. CASE Save(f)
    BY <2>1, <2>2, <2>3 DEF Save
  <2>4. CASE GiveUp(f)
    BY <2>1, <2>2, <2>4 DEF GiveUp
  <2>5. CASE Discard(f)
    <3>1. f \notin uploads /\ saved \subseteq Files
      BY <2>5, \A g \in Files : g \in uploads => g \notin trash DEF Discard, RowsHaveTheirFiles
    <3> QED
      BY <2>1, <2>2, <2>5, <3>1 DEF Discard
  <2> QED
    BY <1>2, <2>3, <2>4, <2>5
<1>3. ASSUME NEW r \in Refunds, Create(r) \/ Approve(r) \/ Pay(r) \/ Delete(r) PROVE TypeOK'
  <2>1. AccountsTypeOK'
    BY <1>3 DEF Create, Approve, Pay, Delete, SetRefund, accounts, AccountsTypeOK
  <2>2. refunds' \in [Refunds -> {"none", "pending", "approved", "paid", "deleted"}]
    BY <1>3 DEF Create, Approve, Pay, Delete, SetRefund
  <2>3. Delete(r) => Receipt(r) \in saved
    BY DEF Delete, SetRefund, RowsHaveTheirFiles, Named, Receipt
  <2>4. uploads' \subseteq files /\ trash' \subseteq saved /\ doubted' \subseteq saved
    BY <1>3, <2>3 DEF Create, Approve, Pay, Delete, Settle
  <2>5. UNCHANGED <<avatar, saved, files, reading, links>>
    BY <1>3 DEF Create, Approve, Pay, Delete, SetRefund
  <2> QED
    BY <2>1, <2>2, <2>4, <2>5
<1>4. ASSUME NEW e \in Emails, NEW new \in Pictures \cup {NoPicture}, SetAvatar(e, new)
      PROVE  TypeOK'
  <2>1. AccountsTypeOK'
    BY <1>4 DEF SetAvatar, accounts, AccountsTypeOK
  <2>2. avatar[e] # NoPicture => Picture(avatar[e]) \in saved
    BY DEF RowsHaveTheirFiles, Named, Picture
  <2>3. uploads' \subseteq files /\ trash' \subseteq saved /\ doubted' \subseteq saved
    BY <1>4, <2>2 DEF SetAvatar, Replaced, Settle
  <2>4. avatar' \in [Emails -> Pictures \cup {NoPicture}]
    BY <1>4 DEF SetAvatar
  <2> QED
    BY <1>4, <2>1, <2>3, <2>4 DEF SetAvatar
<1>5. ASSUME NEW p \in Finders, NEW t \in tokens, NEW f \in Files, Find(p, t, f) PROVE TypeOK'
  <2>1. AccountsTypeOK' /\ t.user \in Emails
    BY <1>5 DEF Find, accounts, AccountsTypeOK
  <2> QED
    BY <1>5, <2>1 DEF Find
<1>6. ASSUME NEW p \in Finders, GetUrl(p) PROVE TypeOK'
  <2>1. AccountsTypeOK'
    BY <1>6 DEF GetUrl, accounts, AccountsTypeOK
  <2>2. links' \subseteq [file: Files, user: Emails, age: Ages, copy: NoCopy..CacheTime]
    BY <1>6 DEF GetUrl
  <2> QED
    BY <1>6, <2>1, <2>2 DEF GetUrl
<1>7. ASSUME NEW l \in links, Fetch(l) PROVE TypeOK'
  <2>1. AccountsTypeOK'
    BY <1>7 DEF Fetch, accounts, AccountsTypeOK
  <2>2. links' \subseteq [file: Files, user: Emails, age: Ages, copy: NoCopy..CacheTime]
    BY <1>7 DEF Fetch
  <2> QED
    BY <1>7, <2>1, <2>2 DEF Fetch
<1>8. CASE Tick
  <2>1. AccountsTypeOK'
    BY <1>8, AccountsAgeType DEF Tick
  <2>2. reading' \in [Finders -> {NoRequest} \cup [user: Emails, file: Files, age: 0..RequestTime]]
    <3>1. ASSUME NEW p \in Finders, reading[p] # NoRequest
          PROVE  [reading[p] EXCEPT !.age = @ + 1] \in [user: Emails, file: Files, age: 0..RequestTime]
      <4>1. reading[p] \in [user: Emails, file: Files, age: 0..RequestTime]
        BY <3>1
      <4>2. reading[p].age < RequestTime
        BY <1>8, <3>1 DEF Tick
      <4> HIDE DEF TypeOK
      <4> QED
        BY <4>1, <4>2
    <3> QED
      BY <1>8, <3>1 DEF Tick
  <2>3. links' \subseteq [file: Files, user: Emails, age: Ages, copy: NoCopy..CacheTime]
    <3>1. ASSUME NEW l \in links
          PROVE  OlderLink(l) \in [file: Files, user: Emails, age: Ages, copy: NoCopy..CacheTime]
      <4>1. l \in [file: Files, user: Emails, age: Ages, copy: NoCopy..CacheTime]
        OBVIOUS
      <4>2. Upto(Lasting(OlderCopy(l.copy)), l.age) \in Ages
        BY <4>1 DEF Upto, Lasting
      <4>3. OlderCopy(l.copy) \in NoCopy..CacheTime
        BY <4>1, CopyType
      <4> HIDE DEF TypeOK, Ages
      <4> QED
        BY <4>1, <4>2, <4>3 DEF OlderLink
    <3>2. links' = {OlderLink(l) : l \in links}
      BY <1>8 DEF Tick
    <3> QED
      BY <3>1, <3>2
  <2> QED
    BY <1>8, <2>1, <2>2, <2>3 DEF Tick
<1>9. CASE UNCHANGED vars
  BY <1>9 DEF vars, accounts, AccountsTypeOK
<1> QED
  BY <1>1, <1>2, <1>3, <1>4, <1>5, <1>6, <1>7, <1>8, <1>9 DEF Next

(* No step lets a row name a file that is not there.                       *)
LEMMA FilesStep == TypeOK /\ RowsHaveTheirFiles /\ [Next]_vars => RowsHaveTheirFiles'
<1> SUFFICES ASSUME TypeOK, RowsHaveTheirFiles, [Next]_vars PROVE RowsHaveTheirFiles'
  OBVIOUS
<1> USE DEF TypeOK, rows, storage, RowsHaveTheirFiles
<1>1. CASE UNCHANGED <<rows, storage>>
  BY <1>1 DEF Named
<1>2. ASSUME NEW g \in Files, Save(g) \/ GiveUp(g) \/ Discard(g) PROVE RowsHaveTheirFiles'
  <2>1. \A f \in Files : Named(f)' <=> Named(f)
    BY <1>2 DEF Save, GiveUp, Discard, Named
  <2>2. UNCHANGED avatar
    BY <1>2 DEF Save, GiveUp, Discard
  <2>3. CASE Save(g)
    BY <2>1, <2>2, <2>3 DEF Save
  <2>4. CASE GiveUp(g)
    BY <2>1, <2>2, <2>4 DEF GiveUp
  <2>5. CASE Discard(g)
    BY <2>1, <2>2, <2>5 DEF Discard
  <2> QED
    BY <1>2, <2>3, <2>4, <2>5
<1>3. ASSUME NEW r \in Refunds, Create(r) PROVE RowsHaveTheirFiles'
  <2>1. ASSUME NEW f \in Files, Named(f)' PROVE Named(f) \/ f = Receipt(r)
    BY <1>3, <2>1, FileKinds DEF Create, SetRefund, Named
  <2> QED
    BY <1>3, <2>1 DEF Create, SetRefund, Settle
<1>4. ASSUME NEW r \in Refunds, Approve(r) PROVE RowsHaveTheirFiles'
  <2>1. ASSUME NEW f \in Files, Named(f)' PROVE Named(f)
    BY <1>4, <2>1, FileKinds DEF Approve, SetRefund, Named
  <2> QED
    BY <1>4, <2>1 DEF Approve, SetRefund
<1>5. ASSUME NEW r \in Refunds, Pay(r) PROVE RowsHaveTheirFiles'
  <2>1. ASSUME NEW f \in Files, Named(f)' PROVE Named(f) \/ f = Payment(r)
    BY <1>5, <2>1, FileKinds DEF Pay, SetRefund, Named
  <2> QED
    BY <1>5, <2>1 DEF Pay, SetRefund, Settle
<1>6. ASSUME NEW r \in Refunds, Delete(r) PROVE RowsHaveTheirFiles'
  <2>1. ASSUME NEW f \in Files, Named(f)' PROVE Named(f) /\ f # Receipt(r)
    <3>1. \A x \in Refunds : refunds'[x] = IF x = r THEN "deleted" ELSE refunds[x]
      BY <1>6 DEF Delete, SetRefund
    <3>2. avatar' = avatar
      BY <1>6 DEF Delete, SetRefund
    <3>3. CASE f.storage = "receipts" /\ f.of \in Refunds
      BY <2>1, <3>1, <3>3 DEF Named, Receipt
    <3>4. CASE f.storage = "payments" /\ f.of \in Refunds
      BY <2>1, <3>1, <3>4 DEF Named, Receipt
    <3>5. CASE f.storage = "avatars"
      BY <2>1, <3>2, <3>5 DEF Named, Receipt
    <3> QED
      BY <3>3, <3>4, <3>5, FileKinds
  <2>2. Named(Receipt(r)) /\ Receipt(r) \in Files
    BY <1>6, FileTypes DEF Delete, SetRefund, Named, Receipt
  <2> QED
    BY <1>6, <2>1, <2>2 DEF Delete, SetRefund
<1>7. ASSUME NEW e \in Emails, NEW new \in Pictures \cup {NoPicture}, SetAvatar(e, new)
      PROVE  RowsHaveTheirFiles'
  <2>1. \A x \in Emails : avatar'[x] # NoPicture => Uploader[avatar'[x]] = x
    BY <1>7 DEF SetAvatar
  <2>2. avatar[e] # NoPicture => /\ Named(Picture(avatar[e]))
                                 /\ Picture(avatar[e]) \in Files
    BY FileTypes DEF Named, Picture
  <2>3. new # NoPicture => Picture(new) \in uploads
    BY <1>7 DEF SetAvatar
  <2>4. ASSUME NEW f \in Files, Named(f)'
        PROVE  \/ Named(f) /\ f \notin Replaced(avatar[e], new)
               \/ new # NoPicture /\ f = Picture(new) /\ f \notin Replaced(avatar[e], new)
                  /\ f \notin uploads'
    <3>1. CASE f.storage # "avatars"
      <4>1. Named(f)
        BY <1>7, <2>4, <3>1, FileKinds DEF SetAvatar, Named
      <4>2. \A n : Picture(n).storage = "avatars"
        BY DEF Picture
      <4> QED
        BY <3>1, <4>1, <4>2 DEF Replaced
    <3>2. CASE f.storage = "avatars"
      <4>1. PICK x \in Emails : avatar'[x] = f.of
        BY <2>4, <3>2 DEF Named
      <4>2. f.of \in Pictures /\ f = Picture(f.of)
        BY <3>2, FileKinds
      <4>3. CASE x = e
        <5>1. f.of = new /\ new # NoPicture
          BY <1>7, <4>1, <4>2, <4>3 DEF SetAvatar
        <5>2. f \notin uploads'
          BY <1>7, <3>2, <5>1 DEF SetAvatar
        <5>3. f \notin Replaced(avatar[e], new)
          BY <2>2, <2>3, <4>2, <5>1 DEF Replaced
        <5> QED
          BY <4>2, <5>1, <5>2, <5>3
      <4>4. CASE x # e
        <5>1. avatar[x] = f.of
          BY <1>7, <4>1, <4>4 DEF SetAvatar
        <5>2. Named(f)
          BY <3>2, <5>1 DEF Named
        <5>3. avatar[e] # f.of
          BY <4>2, <4>4, <5>1
        <5> QED
          BY <5>2, <5>3 DEF Replaced, Picture
      <4> QED
        BY <4>3, <4>4
    <3> QED
      BY <3>1, <3>2
  <2>5. \A f \in Replaced(avatar[e], new) : f \notin uploads
    BY <2>2 DEF Replaced
  <2>6. \/ trash' = trash \cup Replaced(avatar[e], new) /\ doubted' = doubted
        \/ /\ new # NoPicture /\ trash' = trash \cup {Picture(new)}
           /\ doubted' = doubted \cup {Picture(new)}
    BY <1>7 DEF SetAvatar, Settle
  <2>7. uploads' \subseteq uploads /\ UNCHANGED <<saved, files>>
    BY <1>7 DEF SetAvatar
  <2>8. Picture(new) \in uploads => Picture(new) \notin uploads'
    BY <1>7 DEF SetAvatar, Picture
  <2> QED
    BY <2>1, <2>3, <2>4, <2>5, <2>6, <2>7, <2>8
<1> QED
  <2>1. AccountsNext /\ UNCHANGED <<rows, storage, reading, links>> => UNCHANGED <<rows, storage>>
    OBVIOUS
  <2>2. (\E p \in Finders : GetUrl(p) \/ \E t \in tokens, f \in Files : Find(p, t, f))
          => UNCHANGED <<rows, storage>>
    BY DEF GetUrl, Find
  <2>3. (\E l \in links : Fetch(l)) \/ Tick \/ UNCHANGED vars => UNCHANGED <<rows, storage>>
    BY DEF Fetch, Tick, vars
  <2> QED
    BY <1>1, <1>2, <1>3, <1>4, <1>5, <1>6, <1>7, <2>1, <2>2, <2>3 DEF Next

-----------------------------------------------------------------------------
(* An account stays and an admin stays one.                                *)
LEMMA RolesGrow ==
  ASSUME TypeOK, RolesAreRemembered, [Next]_vars, NEW e \in Emails
  PROVE  /\ users[e] # "nobody" => users'[e] # "nobody"
         /\ users[e] = "admin" => users'[e] = "admin"
<1> USE DEF TypeOK, AccountsTypeOK
<1>1. ASSUME NEW p \in Requests, CommitUser(p)
      PROVE  \/ users[e] = "nobody"
             \/ users'[e] = users[e]
  <2>1. doing[p] # NoTask /\ doing[p].step = "inserted"
    BY <1>1 DEF CommitUser
  <2>2. users[doing[p].user] = "nobody"
    BY <2>1 DEF RolesAreRemembered
  <2>3. e # doing[p].user => users'[e] = users[e]
    BY <1>1 DEF CommitUser
  <2> QED
    BY <2>2, <2>3
<1>2. ASSUME NEW x \in Emails, Promote(x)
      PROVE  \/ users'[e] = users[e]
             \/ users[e] = "standard" /\ users'[e] = "admin"
  <2>1. users' = [users EXCEPT ![x] = "admin"] /\ users[x] = "standard"
    BY <1>2 DEF Promote
  <2>2. x # e => users'[e] = users[e]
    BY <2>1
  <2>3. users'[x] = "admin"
    BY <2>1
  <2> QED
    BY <2>1, <2>2, <2>3
<1>3. CASE AccountsNext
  BY <1>1, <1>2, <1>3 DEF AccountsNext, InsertUser, Login, CreateToken
<1>4. ASSUME ~AccountsNext PROVE users' = users
  BY <1>4 DEF Next, Save, GiveUp, Discard, Create, Approve, Pay, Delete, SetRefund, SetAvatar,
     GetUrl, Find, Fetch, Tick, AccountsAge, accounts, vars
<1> QED
  BY <1>3, <1>4

LEMMA EntitledForever ==
  ASSUME TypeOK, RolesAreRemembered, [Next]_vars, NEW e \in Emails, NEW f \in Files,
         Entitled(e, f)
  PROVE  Entitled(e, f)'
BY RolesGrow DEF Entitled

(* What was true of a role a while ago was true a longer while ago.        *)
LEMMA WasTrueForever ==
  ASSUME TypeOK, NEW e \in Emails, NEW role \in Roles, NEW ago \in Nat, NEW later \in Nat,
         ago <= later, WasTrue(e, role, ago)
  PROVE  WasTrue(e, role, later)
BY DEF WasTrue, TypeOK, AccountsTypeOK

(* What RolesAreRemembered says of a request. *)
LoginRemembers(p) == WasTrue(doing[p].user, doing[p].role, doing[p].age)

InsertIsAlone(p) ==
  /\ users[doing[p].user] = "nobody" /\ doing[p].role = "standard"
  /\ \A q \in Requests : doing[q] # NoTask /\ doing[q].user = doing[p].user
                         /\ doing[q].step = "inserted" => q = p

TaskRemembers(p) ==
  doing[p] # NoTask => IF doing[p].step = "loggingIn" THEN LoginRemembers(p) ELSE InsertIsAlone(p)

TokenRemembers(t) == WasTrue(t.user, t.role, t.age + RequestTime)

LEMMA RolesParts ==
  RolesAreRemembered <=> /\ \A t \in tokens : TokenRemembers(t)
                         /\ \A p \in Requests : TaskRemembers(p)
BY DEF RolesAreRemembered, TokenRemembers, TaskRemembers, LoginRemembers, InsertIsAlone

LEMMA TaskTypes ==
  ASSUME TypeOK, NEW p \in Requests, doing[p] # NoTask
  PROVE  /\ doing[p] \in Tasks
         /\ doing[p].step \in {"inserted", "loggingIn"}
         /\ doing[p].user \in Emails /\ doing[p].role \in Roles
         /\ doing[p].age \in 0..RequestTime /\ doing[p].age \in Nat
<1>1. doing[p] \in Tasks
  BY DEF TypeOK, AccountsTypeOK
<1> QED
  BY <1>1 DEF Tasks

LEMMA TokenTypes ==
  ASSUME TypeOK, NEW t \in tokens
  PROVE  /\ t \in [user: Emails, role: Roles, age: 0..TokenLife]
         /\ t.user \in Emails /\ t.role \in Roles /\ t.age \in 0..TokenLife /\ t.age \in Nat
BY DEF TypeOK, AccountsTypeOK

LEMMA RolesStep == TypeOK /\ RolesAreRemembered /\ [Next]_vars => RolesAreRemembered'
<1> SUFFICES ASSUME TypeOK, RolesAreRemembered, [Next]_vars PROVE RolesAreRemembered'
  OBVIOUS
<1>1. /\ users \in [Emails -> Roles \cup {"nobody"}]
      /\ sinceAdmin \in [Emails -> 0..LongAgo]
      /\ doing \in [Requests -> {NoTask} \cup Tasks]
  BY DEF TypeOK, AccountsTypeOK
<1>2. /\ \A t \in tokens : TokenRemembers(t)
      /\ \A p \in Requests : TaskRemembers(p)
  BY RolesParts
<1>3. SUFFICES /\ \A t \in tokens' : TokenRemembers(t)'
               /\ \A p \in Requests : TaskRemembers(p)'
  BY RolesParts DEF RolesAreRemembered, TokenRemembers, TaskRemembers, LoginRemembers, InsertIsAlone
<1>4. CASE UNCHANGED accounts
  BY <1>2, <1>4 DEF accounts, TokenRemembers, TaskRemembers, LoginRemembers, InsertIsAlone, WasTrue
<1>5. ASSUME NEW p \in Requests, NEW e \in Emails, InsertUser(p, e)
      PROVE  /\ \A t \in tokens' : TokenRemembers(t)'
             /\ \A q \in Requests : TaskRemembers(q)'
  <2>1. doing' = [doing EXCEPT ![p] =
                    [step |-> "inserted", user |-> e, role |-> "standard", age |-> 0]]
    BY <1>5 DEF InsertUser, Begin
  <2>2. UNCHANGED <<users, sinceAdmin, tokens>>
    BY <1>5 DEF InsertUser
  <2>3. users[e] = "nobody" /\ \A q \in Requests : doing[q] # NoTask /\ doing[q].user = e
                                                   => doing[q].step # "inserted"
    BY <1>5 DEF InsertUser, IsFree
  <2>4. ASSUME NEW q \in Requests PROVE TaskRemembers(q)'
    <3>1. CASE q = p
      <4>1. InsertIsAlone(q)'
        BY <1>1, <2>1, <2>2, <2>3, <3>1 DEF InsertIsAlone
      <4>2. doing'[q].step = "inserted"
        BY <1>1, <2>1, <3>1
      <4> QED
        BY <4>1, <4>2 DEF TaskRemembers
    <3>2. CASE q # p
      <4>1. doing'[q] = doing[q] /\ TaskRemembers(q)
        BY <1>1, <1>2, <2>1, <3>2
      <4>2. LoginRemembers(q) => LoginRemembers(q)'
        BY <2>2, <4>1 DEF LoginRemembers, WasTrue
      <4>3. ASSUME doing[q] # NoTask, doing[q].step # "loggingIn", InsertIsAlone(q)
            PROVE  InsertIsAlone(q)'
        <5>1. doing[q].user # e
          BY <2>3, <4>3, TaskTypes
        <5> QED
          BY <1>1, <2>1, <2>2, <4>1, <4>3, <5>1 DEF InsertIsAlone
      <4> QED
        BY <4>1, <4>2, <4>3 DEF TaskRemembers
    <3> QED
      BY <3>1, <3>2
  <2> QED
    BY <1>2, <2>2, <2>4 DEF TokenRemembers, WasTrue
<1>6. ASSUME NEW p \in Requests, NEW e \in Emails, Login(p, e)
      PROVE  /\ \A t \in tokens' : TokenRemembers(t)'
             /\ \A q \in Requests : TaskRemembers(q)'
  <2>1. doing' = [doing EXCEPT ![p] =
                    [step |-> "loggingIn", user |-> e, role |-> users[e], age |-> 0]]
    BY <1>6 DEF Login, Begin
  <2>2. UNCHANGED <<users, sinceAdmin, tokens>>
    BY <1>6 DEF Login
  <2>3. ASSUME NEW q \in Requests PROVE TaskRemembers(q)'
    <3>1. CASE q = p
      BY <1>1, <2>1, <2>2, <3>1 DEF TaskRemembers, LoginRemembers, WasTrue
    <3>2. CASE q # p
      <4>1. doing'[q] = doing[q] /\ TaskRemembers(q)
        BY <1>1, <1>2, <2>1, <3>2
      <4>2. LoginRemembers(q) => LoginRemembers(q)'
        BY <2>2, <4>1 DEF LoginRemembers, WasTrue
      <4>3. InsertIsAlone(q) => InsertIsAlone(q)'
        BY <1>1, <2>1, <2>2, <4>1 DEF InsertIsAlone
      <4> QED
        BY <4>1, <4>2, <4>3 DEF TaskRemembers
    <3> QED
      BY <3>1, <3>2
  <2> QED
    BY <1>2, <2>2, <2>3 DEF TokenRemembers, WasTrue
<1>7. ASSUME NEW p \in Requests, CommitUser(p)
      PROVE  /\ \A t \in tokens' : TokenRemembers(t)'
             /\ \A q \in Requests : TaskRemembers(q)'
  <2>1. doing[p] # NoTask /\ doing[p].step = "inserted"
    BY <1>7 DEF CommitUser
  <2>2. InsertIsAlone(p)
    BY <1>2, <2>1 DEF TaskRemembers
  <2>3. doing' = [doing EXCEPT ![p] = NoTask] /\ UNCHANGED <<sinceAdmin, tokens>>
    BY <1>7 DEF CommitUser
  <2>4. \A e \in Emails : e # doing[p].user => users'[e] = users[e]
    BY <1>1, <1>7 DEF CommitUser
  <2>5. ASSUME NEW t \in tokens PROVE TokenRemembers(t)'
    <3>1. t.user # doing[p].user
      BY <1>2, <2>2, TokenTypes DEF TokenRemembers, InsertIsAlone, WasTrue
    <3> QED
      BY <1>2, <2>3, <2>4, <3>1, TokenTypes DEF TokenRemembers, WasTrue
  <2>6. ASSUME NEW q \in Requests PROVE TaskRemembers(q)'
    <3>1. SUFFICES ASSUME doing'[q] # NoTask PROVE TaskRemembers(q)'
      BY DEF TaskRemembers
    <3>2. q # p /\ doing'[q] = doing[q] /\ doing[q] # NoTask
      BY <1>1, <2>3, <3>1
    <3>3. doing[q].user # doing[p].user
      BY <1>2, <2>2, <3>2, TaskTypes DEF TaskRemembers, LoginRemembers, InsertIsAlone, WasTrue
    <3>4. users'[doing[q].user] = users[doing[q].user]
      BY <2>4, <3>2, <3>3, TaskTypes
    <3>5. LoginRemembers(q) => LoginRemembers(q)'
      BY <2>3, <3>2, <3>4 DEF LoginRemembers, WasTrue
    <3>6. InsertIsAlone(q) => InsertIsAlone(q)'
      BY <1>1, <2>3, <3>2, <3>4 DEF InsertIsAlone
    <3> QED
      BY <1>2, <3>2, <3>5, <3>6 DEF TaskRemembers
  <2> QED
    BY <2>3, <2>5, <2>6
<1>8. ASSUME NEW p \in Requests, CreateToken(p)
      PROVE  /\ \A t \in tokens' : TokenRemembers(t)'
             /\ \A q \in Requests : TaskRemembers(q)'
  <2>1. doing[p] # NoTask /\ LoginRemembers(p)
    BY <1>2, <1>8 DEF CreateToken, TaskRemembers
  <2>2. doing' = [doing EXCEPT ![p] = NoTask] /\ UNCHANGED <<users, sinceAdmin>>
    BY <1>8 DEF CreateToken
  <2>3. ASSUME NEW t \in tokens' PROVE TokenRemembers(t)'
    <3>1. t \in tokens \/ t = [user |-> doing[p].user, role |-> doing[p].role, age |-> 0]
      BY <1>8, <2>3 DEF CreateToken
    <3>2. CASE t \in tokens
      BY <1>2, <2>2, <3>2 DEF TokenRemembers, WasTrue
    <3>3. CASE t = [user |-> doing[p].user, role |-> doing[p].role, age |-> 0]
      <4>1. WasTrue(doing[p].user, doing[p].role, RequestTime)
        BY <2>1, TaskTypes, WasTrueForever DEF LoginRemembers
      <4>2. t.user = doing[p].user /\ t.role = doing[p].role /\ t.age + RequestTime = RequestTime
        BY <3>3
      <4> QED
        BY <2>2, <4>1, <4>2 DEF TokenRemembers, WasTrue
    <3> QED
      BY <3>1, <3>2, <3>3
  <2>4. ASSUME NEW q \in Requests PROVE TaskRemembers(q)'
    <3>1. SUFFICES ASSUME doing'[q] # NoTask PROVE TaskRemembers(q)'
      BY DEF TaskRemembers
    <3>2. q # p /\ doing'[q] = doing[q] /\ doing[q] # NoTask
      BY <1>1, <2>2, <3>1
    <3>3. LoginRemembers(q) => LoginRemembers(q)'
      BY <2>2, <3>2 DEF LoginRemembers, WasTrue
    <3>4. InsertIsAlone(q) => InsertIsAlone(q)'
      BY <1>1, <2>2, <3>2 DEF InsertIsAlone
    <3> QED
      BY <1>2, <3>2, <3>3, <3>4 DEF TaskRemembers
  <2> QED
    BY <2>3, <2>4
<1>9. ASSUME NEW e \in Emails, Promote(e)
      PROVE  /\ \A t \in tokens' : TokenRemembers(t)'
             /\ \A q \in Requests : TaskRemembers(q)'
  <2>1. /\ users[e] = "standard"
        /\ users' = [users EXCEPT ![e] = "admin"]
        /\ sinceAdmin' = [sinceAdmin EXCEPT ![e] = 0]
        /\ UNCHANGED <<tokens, doing>>
    BY <1>9 DEF Promote
  <2>2. ASSUME NEW x \in Emails, NEW role \in Roles, NEW ago \in Nat, WasTrue(x, role, ago)
        PROVE  WasTrue(x, role, ago)'
    BY <1>1, <2>1, <2>2 DEF WasTrue
  <2>3. ASSUME NEW t \in tokens PROVE TokenRemembers(t)'
    BY <1>2, <2>2, TokenTypes DEF TokenRemembers
  <2>4. ASSUME NEW q \in Requests PROVE TaskRemembers(q)'
    <3>1. CASE doing[q] = NoTask
      BY <2>1, <3>1 DEF TaskRemembers
    <3>2. CASE doing[q] # NoTask /\ doing[q].step = "loggingIn"
      <4>1. \/ doing[q].role = users'[doing[q].user]
            \/ /\ doing[q].role = "standard" /\ users'[doing[q].user] = "admin"
               /\ sinceAdmin'[doing[q].user] <= doing[q].age
        BY <1>1, <1>2, <2>1, <3>2, TaskTypes DEF TaskRemembers, LoginRemembers, WasTrue
      <4> QED
        BY <2>1, <3>2, <4>1 DEF TaskRemembers, LoginRemembers, WasTrue
    <3>3. CASE doing[q] # NoTask /\ doing[q].step # "loggingIn"
      <4>1. InsertIsAlone(q)
        BY <1>2, <3>3 DEF TaskRemembers
      <4>2. InsertIsAlone(q)'
        BY <1>1, <2>1, <3>3, <4>1, TaskTypes DEF InsertIsAlone
      <4> QED
        BY <2>1, <3>3, <4>2 DEF TaskRemembers
    <3> QED
      BY <3>1, <3>2, <3>3
  <2> QED
    BY <2>1, <2>3, <2>4
<1>10. ASSUME Tick
       PROVE  /\ \A t \in tokens' : TokenRemembers(t)'
              /\ \A q \in Requests : TaskRemembers(q)'
  <2>1. AccountsAge
    BY <1>10 DEF Tick
  <2>2. ASSUME NEW e \in Emails
        PROVE  users'[e] = users[e] /\ sinceAdmin'[e] = Upto(LongAgo, sinceAdmin[e])
    BY <2>1 DEF AccountsAge
  <2>3. ASSUME NEW e \in Emails, NEW role \in Roles, NEW ago \in Nat, WasTrue(e, role, ago)
        PROVE  WasTrue(e, role, ago + 1)' /\ (ago >= LongAgo => WasTrue(e, role, ago)')
    BY <1>1, <2>2, <2>3 DEF WasTrue, Upto
  <2>4. ASSUME NEW u \in tokens' PROVE TokenRemembers(u)'
    <3>1. PICK t \in tokens : u = [t EXCEPT !.age = Upto(TokenLife, @)]
      BY <2>1 DEF AccountsAge
    <3>2. u.user = t.user /\ u.role = t.role /\ u.age = Upto(TokenLife, t.age)
      BY <3>1, TokenTypes
    <3>3. t.user \in Emails /\ t.role \in Roles /\ t.age \in 0..TokenLife
      BY TokenTypes
    <3>4. WasTrue(t.user, t.role, t.age + RequestTime)
      BY <1>2 DEF TokenRemembers
    <3>5. CASE t.age < TokenLife
      <4>1. u.age + RequestTime = (t.age + RequestTime) + 1
        BY <3>2, <3>3, <3>5 DEF Upto
      <4>2. WasTrue(t.user, t.role, (t.age + RequestTime) + 1)'
        BY <2>3, <3>3, <3>4
      <4> QED
        BY <3>2, <4>1, <4>2 DEF TokenRemembers, WasTrue
    <3>6. CASE t.age = TokenLife
      <4>1. u.age + RequestTime = t.age + RequestTime /\ t.age + RequestTime >= LongAgo
        BY <3>2, <3>3, <3>6 DEF Upto
      <4>2. WasTrue(t.user, t.role, t.age + RequestTime)'
        BY <2>3, <3>3, <3>4, <4>1
      <4> QED
        BY <3>2, <4>1, <4>2 DEF TokenRemembers, WasTrue
    <3> QED
      BY <3>3, <3>5, <3>6
  <2>5. ASSUME NEW x \in Requests, doing'[x] # NoTask
        PROVE  /\ doing[x] # NoTask
               /\ doing'[x].user = doing[x].user /\ doing'[x].role = doing[x].role
               /\ doing'[x].step = doing[x].step /\ doing'[x].age = doing[x].age + 1
    <3>1. doing[x] # NoTask /\ doing'[x] = [doing[x] EXCEPT !.age = @ + 1]
      BY <2>1, <2>5 DEF AccountsAge
    <3>2. doing[x] \in Tasks
      BY <3>1, TaskTypes
    <3> QED
      BY <3>1, <3>2 DEF Tasks
  <2>6. ASSUME NEW q \in Requests PROVE TaskRemembers(q)'
    <3>1. SUFFICES ASSUME doing'[q] # NoTask PROVE TaskRemembers(q)'
      BY DEF TaskRemembers
    <3>2. doing[q] # NoTask
      BY <2>5, <3>1
    <3>3. CASE doing[q].step = "loggingIn"
      <4>1. \/ doing[q].role = users'[doing[q].user]
            \/ /\ doing[q].role = "standard" /\ users'[doing[q].user] = "admin"
               /\ sinceAdmin'[doing[q].user] <= doing[q].age + 1
        BY <1>1, <1>2, <2>2, <3>2, <3>3, TaskTypes
           DEF TaskRemembers, LoginRemembers, WasTrue, Upto
      <4> QED
        BY <2>5, <3>1, <3>3, <4>1 DEF TaskRemembers, LoginRemembers, WasTrue
    <3>4. CASE doing[q].step # "loggingIn"
      <4>1. InsertIsAlone(q)
        BY <1>2, <3>2, <3>4 DEF TaskRemembers
      <4>2. users'[doing'[q].user] = "nobody" /\ doing'[q].role = "standard"
        BY <2>2, <2>5, <3>1, <3>2, <4>1, TaskTypes DEF InsertIsAlone
      <4>3. ASSUME NEW x \in Requests, doing'[x] # NoTask, doing'[x].user = doing'[q].user,
                   doing'[x].step = "inserted"
            PROVE  x = q
        BY <2>5, <3>1, <4>1, <4>3 DEF InsertIsAlone
      <4> QED
        BY <2>5, <3>1, <3>4, <4>2, <4>3 DEF TaskRemembers, InsertIsAlone
    <3> QED
      BY <3>3, <3>4
  <2> QED
    BY <2>4, <2>6
<1>11. [Next]_vars => AccountsNext \/ Tick \/ UNCHANGED accounts
  BY DEF Next, Save, GiveUp, Discard, Create, Approve, Pay, Delete, SetRefund, SetAvatar,
     GetUrl, Find, Fetch, vars
<1> QED
  BY <1>4, <1>5, <1>6, <1>7, <1>8, <1>9, <1>10, <1>11 DEF AccountsNext

(* What GrantsWereAllowed says of a finder and of a link.                  *)
FinderIsAllowed(p) == reading[p] # NoRequest => Entitled(reading[p].user, reading[p].file)

LinkIsAllowed(l) == Entitled(l.user, l.file)

LEMMA GrantsParts ==
  GrantsWereAllowed <=> /\ \A p \in Finders : FinderIsAllowed(p)
                        /\ \A l \in links : LinkIsAllowed(l)
BY DEF GrantsWereAllowed, FinderIsAllowed, LinkIsAllowed

LEMMA FinderTypes ==
  ASSUME TypeOK, NEW p \in Finders, reading[p] # NoRequest
  PROVE  /\ reading[p] \in [user: Emails, file: Files, age: 0..RequestTime]
         /\ reading[p].user \in Emails /\ reading[p].file \in Files
BY DEF TypeOK

LEMMA LinkTypes ==
  ASSUME TypeOK, NEW l \in links
  PROVE  /\ l \in [file: Files, user: Emails, age: Ages, copy: NoCopy..CacheTime]
         /\ l.user \in Emails /\ l.file \in Files
         /\ l.age \in 0..(LinkLife + CacheTime) /\ l.copy \in NoCopy..CacheTime
<1>1. l \in [file: Files, user: Emails, age: Ages, copy: NoCopy..CacheTime]
  BY DEF TypeOK
<1> QED
  BY <1>1

(* Links stay what their readers are entitled to.                          *)
LEMMA GrantsStep ==
  ASSUME TypeOK, RolesAreRemembered, GrantsWereAllowed, [Next]_vars
  PROVE  GrantsWereAllowed'
<1>1. /\ \A p \in Finders : FinderIsAllowed(p)
      /\ \A l \in links : LinkIsAllowed(l)
  BY GrantsParts
<1>2. SUFFICES /\ \A p \in Finders : FinderIsAllowed(p)'
               /\ \A l \in links' : LinkIsAllowed(l)'
  BY DEF GrantsWereAllowed, FinderIsAllowed, LinkIsAllowed
<1>3. ASSUME NEW p \in Finders, reading'[p] = reading[p] PROVE FinderIsAllowed(p)'
  BY <1>1, <1>3, FinderTypes, EntitledForever DEF FinderIsAllowed
<1>4. ASSUME NEW l \in links PROVE LinkIsAllowed(l)'
  BY <1>1, LinkTypes, EntitledForever DEF LinkIsAllowed
<1>5. ASSUME NEW p \in Finders, NEW t \in tokens, NEW f \in Files, Find(p, t, f)
      PROVE  /\ \A q \in Finders : FinderIsAllowed(q)'
             /\ \A l \in links' : LinkIsAllowed(l)'
  <2>1. WasTrue(t.user, t.role, t.age + RequestTime)
    BY DEF RolesAreRemembered
  <2>2. users[t.user] # "nobody" /\ (t.role = "admin" => users[t.user] = "admin")
    BY <2>1, TokenTypes DEF WasTrue
  <2>3. Entitled(t.user, f)
    BY <1>5, <2>2, FileKinds DEF Find, MaySee, Entitled
  <2>4. Entitled(t.user, f)'
    BY <2>3, TokenTypes, EntitledForever
  <2>5. reading' = [reading EXCEPT ![p] = [user |-> t.user, file |-> f, age |-> 0]]
        /\ UNCHANGED links /\ reading \in [Finders -> {NoRequest} \cup
                                 [user: Emails, file: Files, age: 0..RequestTime]]
    BY <1>5 DEF Find, TypeOK
  <2>6. ASSUME NEW q \in Finders PROVE FinderIsAllowed(q)'
    <3>1. CASE q = p
      BY <2>4, <2>5, <3>1 DEF FinderIsAllowed, Entitled
    <3>2. CASE q # p
      BY <1>3, <2>5, <3>2
    <3> QED
      BY <3>1, <3>2
  <2> QED
    BY <1>4, <2>5, <2>6
<1>6. ASSUME NEW p \in Finders, GetUrl(p)
      PROVE  /\ \A q \in Finders : FinderIsAllowed(q)'
             /\ \A l \in links' : LinkIsAllowed(l)'
  <2>1. reading[p] # NoRequest /\ reading' = [reading EXCEPT ![p] = NoRequest]
    BY <1>6 DEF GetUrl
  <2>2. ASSUME NEW q \in Finders PROVE FinderIsAllowed(q)'
    <3>1. reading'[q] = NoRequest \/ reading'[q] = reading[q]
      BY <2>1 DEF TypeOK
    <3> QED
      BY <1>3, <3>1 DEF FinderIsAllowed
  <2>3. ASSUME NEW l \in links' PROVE LinkIsAllowed(l)'
    <3>1. \/ l \in links
          \/ l = [file |-> reading[p].file, user |-> reading[p].user, age |-> 0, copy |-> NoCopy]
      BY <1>6, <2>3 DEF GetUrl
    <3>2. CASE l \notin links
      <4>1. l.user = reading[p].user /\ l.file = reading[p].file
        BY <3>1, <3>2
      <4>2. l.user \in Emails /\ l.file \in Files /\ Entitled(l.user, l.file)
        BY <1>1, <2>1, <4>1, FinderTypes DEF FinderIsAllowed
      <4> QED
        BY <4>2, EntitledForever DEF LinkIsAllowed
    <3> QED
      BY <1>4, <3>2
  <2> QED
    BY <2>2, <2>3
<1>7. ASSUME NEW k \in links, Fetch(k)
      PROVE  /\ \A q \in Finders : FinderIsAllowed(q)'
             /\ \A l \in links' : LinkIsAllowed(l)'
  <2>1. ASSUME NEW l \in links' PROVE LinkIsAllowed(l)'
    <3>1. l \in links \/ l = [k EXCEPT !.copy = 0]
      BY <1>7, <2>1 DEF Fetch
    <3>2. l = [k EXCEPT !.copy = 0] => l.user = k.user /\ l.file = k.file
      BY LinkTypes
    <3> QED
      BY <1>4, <3>1, <3>2 DEF LinkIsAllowed, Entitled
  <2> QED
    BY <1>3, <1>7, <2>1 DEF Fetch
<1>8. ASSUME Tick
      PROVE  /\ \A q \in Finders : FinderIsAllowed(q)'
             /\ \A l \in links' : LinkIsAllowed(l)'
  <2>1. ASSUME NEW l \in links' PROVE LinkIsAllowed(l)'
    <3>1. PICK m \in links : l = OlderLink(m)
      BY <1>8, <2>1 DEF Tick
    <3>2. l.user = m.user /\ l.file = m.file
      BY <3>1, LinkTypes DEF OlderLink
    <3> QED
      BY <1>4, <3>2 DEF LinkIsAllowed, Entitled
  <2>2. ASSUME NEW q \in Finders PROVE FinderIsAllowed(q)'
    <3>1. SUFFICES ASSUME reading'[q] # NoRequest PROVE FinderIsAllowed(q)'
      BY DEF FinderIsAllowed
    <3>2. reading[q] # NoRequest /\ reading'[q] = [reading[q] EXCEPT !.age = @ + 1]
      BY <1>8, <3>1 DEF Tick
    <3>3. reading'[q].user = reading[q].user /\ reading'[q].file = reading[q].file
      BY <3>2, FinderTypes
    <3>4. Entitled(reading[q].user, reading[q].file)
      BY <1>1, <3>2 DEF FinderIsAllowed
    <3>5. PICK user \in Emails, f \in Files : user = reading[q].user /\ f = reading[q].file
      BY <3>2, FinderTypes
    <3>6. Entitled(user, f)'
      BY <3>4, <3>5, EntitledForever
    <3> QED
      BY <3>3, <3>5, <3>6 DEF FinderIsAllowed, Entitled
  <2> QED
    BY <2>1, <2>2
<1>9. UNCHANGED vars => UNCHANGED <<reading, links>>
  BY DEF vars
<1> QED
  BY <1>3, <1>4, <1>5, <1>6, <1>7, <1>8, <1>9 DEF Next, Save, GiveUp, Discard, Create, Approve,
     Pay, Delete, SetRefund, SetAvatar

LEMMA CopiesStep == TypeOK /\ CopiesAreYoung /\ [Next]_vars => CopiesAreYoung'
<1> SUFFICES ASSUME TypeOK, CopiesAreYoung, [Next]_vars PROVE CopiesAreYoung'
  OBVIOUS
<1> USE DEF TypeOK, CopiesAreYoung
<1>1. ASSUME UNCHANGED links PROVE CopiesAreYoung'
  BY <1>1
<1>2. ASSUME NEW p \in Finders, GetUrl(p) PROVE CopiesAreYoung'
  BY <1>2 DEF GetUrl
<1>3. ASSUME NEW k \in links, Fetch(k) PROVE CopiesAreYoung'
  <2>1. k.age < LinkLife
    BY <1>3 DEF Fetch, Serves, Accepts
  <2>2. k \in [file: Files, user: Emails, age: Ages, copy: NoCopy..CacheTime]
    OBVIOUS
  <2>3. [k EXCEPT !.copy = 0].age = k.age /\ [k EXCEPT !.copy = 0].copy = 0
    BY <2>2
  <2> QED
    BY <1>3, <2>1, <2>2, <2>3 DEF Fetch
<1>4. CASE Tick
  <2>1. ASSUME NEW l \in links', l.copy # NoCopy PROVE l.age < LinkLife + l.copy
    <3>1. PICK m \in links : l = OlderLink(m)
      BY <1>4 DEF Tick
    <3>2. m \in [file: Files, user: Emails, age: Ages, copy: NoCopy..CacheTime]
      OBVIOUS
    <3>3. l.age = Upto(LinkLife + CacheTime, m.age) /\ l.copy = OlderCopy(m.copy)
      BY <2>1, <3>1, <3>2 DEF OlderLink, Lasting
    <3>4. m.age \in Ages /\ m.copy \in NoCopy..CacheTime
      BY <3>2
    <3>5. m.copy # NoCopy /\ l.copy = m.copy + 1
      BY <2>1, <3>3, <3>4 DEF OlderCopy
    <3>6. m.age < LinkLife + m.copy
      BY <3>5
    <3>7. l.age <= m.age + 1
      BY <3>3, <3>4 DEF Upto
    <3>8. l.age \in Ages
      BY <3>3, <3>4 DEF Upto
    <3> QED
      BY <3>4, <3>5, <3>6, <3>7, <3>8
  <2> QED
    BY <2>1
<1>5. UNCHANGED vars => UNCHANGED links
  BY DEF vars
<1> QED
  BY <1>1, <1>2, <1>3, <1>4, <1>5 DEF Next, Save, GiveUp, Discard, Create, Approve, Pay,
     Delete, SetRefund, SetAvatar, Find

(* The properties follow from the invariant.                               *)
LEMMA Consequences ==
  ASSUME IInv
  PROVE  /\ StaleRolesExpire /\ LinksShowOnlyTheirReadersFiles
         /\ NothingIsShownLate /\ LinksWorkWhileARowNamesTheFile
<1> USE DEF IInv, TypeOK
<1>1. StaleRolesExpire
  <2>1. ASSUME NEW t \in tokens, IsValid(t)
        PROVE  \/ t.role = users[t.user]
               \/ /\ t.role = "standard" /\ users[t.user] = "admin"
                  /\ sinceAdmin[t.user] < LongAgo
    <3>1. t.user \in Emails /\ t.age \in 0..TokenLife /\ sinceAdmin[t.user] \in 0..LongAgo
      BY DEF AccountsTypeOK
    <3>2. WasTrue(t.user, t.role, t.age + RequestTime)
      BY DEF RolesAreRemembered
    <3> QED
      BY <2>1, <3>1, <3>2 DEF WasTrue, IsValid
  <2> QED
    BY <2>1 DEF StaleRolesExpire
<1>2. LinksShowOnlyTheirReadersFiles
  BY DEF GrantsWereAllowed, LinksShowOnlyTheirReadersFiles, Shows, Serves, Accepts
<1>3. NothingIsShownLate
  <2>1. ASSUME NEW l \in links, l.copy # NoCopy PROVE l.age < LinkLife + CacheTime
    <3>1. l.copy \in 0..CacheTime
      BY <2>1, LinkTypes
    <3>2. l.age < LinkLife + l.copy
      BY <2>1 DEF CopiesAreYoung
    <3> QED
      BY <3>1, <3>2, LinkTypes
  <2> QED
    BY <2>1 DEF NothingIsShownLate
<1>4. LinksWorkWhileARowNamesTheFile
  BY DEF RowsHaveTheirFiles, LinksWorkWhileARowNamesTheFile, Serves, Accepts
<1> QED
  BY <1>1, <1>2, <1>3, <1>4

-----------------------------------------------------------------------------
LEMMA Invariance == Spec => []IInv
<1>1. IInv /\ [Next]_vars => IInv'
  <2> SUFFICES ASSUME IInv, [Next]_vars PROVE IInv'
    OBVIOUS
  <2> QED
    BY TypeStep, FilesStep, RolesStep, GrantsStep, CopiesStep DEF IInv
<1> QED
  BY <1>1, InitIInv, PTL DEF Spec

(* Type correctness.                                                       *)
THEOREM TypeCorrect == Spec => []TypeOK
<1>1. IInv => TypeOK
  BY DEF IInv
<1> QED
  BY <1>1, Invariance, PTL

(* A role in a token that is still accepted is at most a token's life and  *)
(* a request old, and never more than the user has.                        *)
THEOREM TokensCatchUp == Spec => []StaleRolesExpire
BY Invariance, Consequences, PTL

(* A link shows a file to nobody else than those the rows let see it.      *)
THEOREM LinksKeepToTheirReaders == Spec => []LinksShowOnlyTheirReadersFiles
BY Invariance, Consequences, PTL

(* A link and the copy behind it are over after the link's life and the    *)
(* cache's.                                                                *)
THEOREM LinksEnd == Spec => []NothingIsShownLate
BY Invariance, Consequences, PTL

(* Until a link expires, it works as long as a row names its file, unless  *)
(* the answer of the commit that named it was lost.                        *)
THEOREM LinksWork == Spec => []LinksWorkWhileARowNamesTheFile
BY Invariance, Consequences, PTL

(* No step takes an account or an admin's role away.                       *)
THEOREM RolesStay == Spec => RolesOnlyGrow
<1>1. IInv /\ [Next]_vars =>
        [\A e \in Emails : /\ users[e] # "nobody" => users'[e] # "nobody"
                           /\ users[e] = "admin" => users'[e] = "admin"]_accounts
  <2> SUFFICES ASSUME IInv, [Next]_vars
               PROVE  \A e \in Emails : /\ users[e] # "nobody" => users'[e] # "nobody"
                                        /\ users[e] = "admin" => users'[e] = "admin"
    OBVIOUS
  <2> QED
    BY RolesGrow DEF IInv
<1> QED
  BY <1>1, Invariance, PTL DEF Spec, RolesOnlyGrow

=============================================================================
