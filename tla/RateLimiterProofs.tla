------------------------- MODULE RateLimiterProofs -------------------------
(***************************************************************************)
(* Proofs, for every limit, window and set of clients, that the deques of  *)
(* RateLimiter answer as the full history would and that no window holds   *)
(* more than its limit.                                                    *)
(***************************************************************************)
EXTENDS RateLimiter, TLAPS, WellFoundedInduction, SequenceTheorems

(* The loop of popleft stops somewhere: it keeps a tail of the deque whose *)
(* first attempt has not expired, and drops expired attempts only.         *)
LEMMA DropExpiredStops ==
  ASSUME NEW attempts \in Seq(Nat), NEW cutoff \in Int
  PROVE  \E n \in 0..Len(attempts) :
           /\ DropExpired(attempts, cutoff) = SubSeq(attempts, n + 1, Len(attempts))
           /\ \A i \in 1..n : attempts[i] <= cutoff
           /\ n < Len(attempts) => attempts[n + 1] > cutoff
<1> DEFINE R == OpToRel(<, Nat)
           T == {n \in 0..Len(attempts) : n < Len(attempts) => attempts[n + 1] > cutoff}
           Stop(n) == /\ \A i \in 1..n : Expired(attempts[i], cutoff)
                      /\ n < Len(attempts) => ~Expired(attempts[n + 1], cutoff)
<1>1. Len(attempts) \in T /\ T \subseteq Nat
  OBVIOUS
<1>2. IsWellFoundedOn(R, Nat)
  BY NatLessThanWellFounded
<1>3. PICK m \in T : \A k \in T : <<k, m>> \notin R
  <2> HIDE DEF R, T
  <2> QED
    BY <1>1, <1>2, WFMin
<1>4. \A k \in T : ~(k < m)
  <2> SUFFICES ASSUME NEW k \in T, k < m PROVE FALSE
    OBVIOUS
  <2>1. <<k, m>> \in R
    BY DEF OpToRel
  <2> QED
    BY <1>3, <2>1
<1>5. Stop(m)
  <2> SUFFICES ASSUME NEW i \in 1..m PROVE attempts[i] <= cutoff
    BY DEF Expired
  <2>1. i - 1 \in 0..Len(attempts) /\ i - 1 < m
    OBVIOUS
  <2>2. i - 1 \notin T
    BY <1>4, <2>1
  <2> QED
    BY <2>1, <2>2
<1>6. \E n \in 0..Len(attempts) : Stop(n)
  BY <1>5
<1>7. PICK n \in 0..Len(attempts) : /\ Stop(n)
                                    /\ DropExpired(attempts, cutoff) = SubSeq(attempts, n + 1, Len(attempts))
  BY <1>6 DEF DropExpired
<1> QED
  BY <1>7 DEF Expired

LEMMA SeqElements ==
  ASSUME NEW s \in Seq(Nat)
  PROVE  Len(s) \in Nat /\ DOMAIN s = 1..Len(s) /\ \A i \in 1..Len(s) : s[i] \in Nat
OBVIOUS

LEMMA LimitIsPositive == ASSUME NEW k \in Keys PROVE Limit[k] \in Nat \ {0}
BY SettingsAssumption DEF Keys, Limit

(* What the loop leaves of the deque of a key: the tail of the history     *)
(* that is still inside the window.                                        *)
LEMMA KeptIsTail ==
  ASSUME IInv, NEW k \in Keys, NEW kept, kept = DropExpired(hits[k], clock - Window)
  PROVE  /\ kept \in Seq(Nat)
         /\ Len(kept) <= Len(accepted[k]) /\ Len(kept) <= Limit[k]
         /\ \A i \in 1..Len(kept) : kept[i] = accepted[k][(Len(accepted[k]) - Len(kept)) + i]
         /\ \A i \in 1..(Len(accepted[k]) - Len(kept)) : accepted[k][i] <= clock - Window
         /\ Len(kept) > 0 =>
              accepted[k][(Len(accepted[k]) - Len(kept)) + 1] > clock - Window
<1> DEFINE a == hits[k]
           acc == accepted[k]
           cutoff == clock - Window
<1>1. a \in Seq(Nat) /\ acc \in Seq(Nat) /\ cutoff \in Int /\ Limit[k] \in Nat
  BY SettingsAssumption, LimitIsPositive DEF IInv, TypeOK
<1>2. /\ Len(a) <= Len(acc) /\ Len(a) <= Limit[k]
      /\ \A i \in 1..Len(a) : a[i] = acc[(Len(acc) - Len(a)) + i]
      /\ \A i \in 1..(Len(acc) - Len(a)) : acc[i] <= cutoff
  <2>1. DequeIsTail(k) /\ DOMAIN a = 1..Len(a)
    BY <1>1 DEF IInv
  <2> QED
    BY <2>1 DEF DequeIsTail
<1>3. PICK n \in 0..Len(a) : /\ kept = SubSeq(a, n + 1, Len(a))
                             /\ \A i \in 1..n : a[i] <= cutoff
                             /\ n < Len(a) => a[n + 1] > cutoff
  BY <1>1, DropExpiredStops
<1> HIDE DEF a, acc, cutoff
<1>4. /\ kept \in Seq(Nat) /\ Len(kept) = Len(a) - n
      /\ \A i \in 1..Len(kept) : kept[i] = a[n + i]
  <2>1. n + 1 \in Int /\ Len(a) \in Nat /\ \A i \in (n + 1)..Len(a) : a[i] \in Nat
    BY <1>1
  <2> DEFINE m == n + 1
  <2>2. m \in Int /\ \A i \in m..Len(a) : a[i] \in Nat
    BY <2>1
  <2>3. /\ SubSeq(a, m, Len(a)) \in Seq(Nat)
        /\ Len(SubSeq(a, m, Len(a))) = IF m <= Len(a) THEN Len(a) - m + 1 ELSE 0
        /\ \A i \in 1..(Len(a) - m + 1) : SubSeq(a, m, Len(a))[i] = a[m + i - 1]
    <3> HIDE DEF m
    <3> QED
      BY <2>1, <2>2, SubSeqProperties, SMTT(30)
  <2>4. kept = SubSeq(a, m, Len(a))
    BY <1>3
  <2>5. Len(kept) = Len(a) - n
    BY <2>1, <2>3, <2>4
  <2>6. ASSUME NEW i \in 1..Len(kept) PROVE kept[i] = a[n + i]
    <3>1. i \in 1..(Len(a) - m + 1) /\ m + i - 1 = n + i
      BY <2>1, <2>5
    <3> QED
      BY <2>3, <2>4, <3>1
  <2> QED
    BY <2>3, <2>4, <2>5, <2>6
<1>5. \A i \in 1..Len(kept) : kept[i] = acc[(Len(acc) - Len(kept)) + i]
  <2> SUFFICES ASSUME NEW i \in 1..Len(kept) PROVE kept[i] = acc[(Len(acc) - Len(kept)) + i]
    OBVIOUS
  <2>1. n + i \in 1..Len(a) /\ kept[i] = a[n + i]
    BY <1>1, <1>4
  <2>2. a[n + i] = acc[(Len(acc) - Len(a)) + (n + i)]
    BY <1>2, <2>1
  <2>3. (Len(acc) - Len(a)) + (n + i) = (Len(acc) - Len(kept)) + i
    <3>1. Len(acc) \in Nat /\ Len(a) \in Nat /\ Len(kept) = Len(a) - n /\ n \in Nat /\ i \in Nat
      BY <1>1, <1>4
    <3> QED
      BY <3>1
  <2> QED
    BY <2>1, <2>2, <2>3
<1>6. \A i \in 1..(Len(acc) - Len(kept)) : acc[i] <= cutoff
  <2> SUFFICES ASSUME NEW i \in 1..(Len(acc) - Len(kept)) PROVE acc[i] <= cutoff
    OBVIOUS
  <2>1. CASE i <= Len(acc) - Len(a)
    BY <1>1, <1>2, <2>1
  <2>2. CASE i > Len(acc) - Len(a)
    <3> DEFINE j == i - (Len(acc) - Len(a))
    <3>1. j \in 1..n /\ j \in 1..Len(a) /\ i = (Len(acc) - Len(a)) + j
      BY <1>1, <1>4, <2>2
    <3> HIDE DEF j
    <3> QED
      BY <1>2, <1>3, <3>1
  <2> QED
    BY <1>1, <1>4, <2>1, <2>2
<1>7. Len(kept) > 0 => acc[(Len(acc) - Len(kept)) + 1] > cutoff
  <2> SUFFICES ASSUME Len(kept) > 0 PROVE acc[(Len(acc) - Len(kept)) + 1] > cutoff
    OBVIOUS
  <2>1. kept[1] = acc[(Len(acc) - Len(kept)) + 1]
    <3>1. 1 \in 1..Len(kept)
      BY <1>4
    <3> QED
      BY <1>5, <3>1
  <2>2. kept[1] = a[n + 1] /\ n < Len(a)
    BY <1>1, <1>4
  <2> QED
    BY <1>3, <2>1, <2>2
<1>8. Len(kept) <= Len(acc) /\ Len(kept) <= Limit[k]
  BY <1>1, <1>2, <1>4
<1> QED
  BY <1>4, <1>5, <1>6, <1>7, <1>8 DEF acc, cutoff

(* The short deque and the full history agree on whether to refuse.        *)
LEMMA FullMeansRefused ==
  ASSUME IInv, NEW k \in Keys
  PROVE  IsFull(DropExpired(hits[k], clock - Window), k) <=> ~Rolling!MayPass(k)
<1> DEFINE kept == DropExpired(hits[k], clock - Window)
           acc == accepted[k]
           L == Limit[k]
           cutoff == clock - Window
<1>1. /\ Len(kept) \in Nat /\ Len(kept) <= Len(acc) /\ Len(kept) <= L
      /\ \A i \in 1..(Len(acc) - Len(kept)) : acc[i] <= cutoff
      /\ Len(kept) > 0 => acc[(Len(acc) - Len(kept)) + 1] > cutoff
  <2> HIDE DEF kept
  <2>1. kept = DropExpired(hits[k], clock - Window)
    BY DEF kept
  <2> QED
    BY <2>1, KeptIsTail
<1>2. acc \in Seq(Nat) /\ Len(acc) \in Nat /\ cutoff \in Int /\ L \in Nat \ {0}
  BY SettingsAssumption, LimitIsPositive DEF IInv, TypeOK
<1>3. IsFull(kept, k) <=> Len(kept) >= L
  BY DEF IsFull
<1>4. Rolling!MayPass(k) <=> (Len(acc) < L \/ acc[Len(acc) - L + 1] <= cutoff)
  BY DEF Rolling!MayPass
<1> HIDE DEF kept, acc, L, cutoff
<1>5. CASE Len(kept) >= L
  <2>1. Len(kept) = L /\ acc[(Len(acc) - L) + 1] > cutoff
    BY <1>1, <1>2, <1>5
  <2>2. acc[(Len(acc) - L) + 1] \in Nat
    BY <1>1, <1>2, <1>5
  <2> QED
    BY <1>1, <1>2, <1>3, <1>4, <1>5, <2>1, <2>2 DEF kept
<1>6. CASE Len(kept) < L
  <2>1. Len(acc) >= L => Len(acc) - L + 1 \in 1..(Len(acc) - Len(kept))
    BY <1>1, <1>2, <1>6
  <2> QED
    BY <1>1, <1>2, <1>3, <1>4, <1>6, <2>1 DEF kept
<1> QED
  BY <1>1, <1>2, <1>5, <1>6 DEF kept

-----------------------------------------------------------------------------
LEMMA InitIInv == Init => IInv
<1> SUFFICES ASSUME Init PROVE IInv
  OBVIOUS
<1>1. TypeOK
  BY SettingsAssumption DEF Init, TypeOK
<1>2. NoWindowExceedsLimit
  BY DEF Init, NoWindowExceedsLimit
<1>3. ASSUME NEW k \in Keys PROVE InOrder(k) /\ DequeIsTail(k)
  BY LimitIsPositive DEF Init, InOrder, DequeIsTail
<1> QED
  BY <1>1, <1>2, <1>3 DEF IInv

(* A refused attempt only trims its deque.                                 *)
LEMMA RefusedStep ==
  ASSUME IInv, NEW k \in Keys, NEW kept, kept = DropExpired(hits[k], clock - Window),
         hits' = [hits EXCEPT ![k] = kept],
         verdict' \in {NoAttempt} \cup [key: Keys, at: Nat, allowed: BOOLEAN],
         UNCHANGED <<clock, accepted, restarts>>
  PROVE  IInv'
<1>1. /\ kept \in Seq(Nat)
      /\ Len(kept) <= Len(accepted[k]) /\ Len(kept) <= Limit[k]
      /\ \A i \in 1..Len(kept) : kept[i] = accepted[k][(Len(accepted[k]) - Len(kept)) + i]
      /\ \A i \in 1..(Len(accepted[k]) - Len(kept)) : accepted[k][i] <= clock - Window
  BY KeptIsTail
<1>2. TypeOK'
  BY <1>1 DEF IInv, TypeOK
<1>3. NoWindowExceedsLimit'
  BY DEF IInv, NoWindowExceedsLimit
<1>4. ASSUME NEW q \in Keys PROVE InOrder(q)' /\ DequeIsTail(q)'
  <2>1. InOrder(q)'
    BY DEF IInv, InOrder
  <2>2. CASE q = k
    <3>1. hits'[q] = kept /\ DOMAIN kept = 1..Len(kept)
      BY <1>1, <2>2 DEF IInv, TypeOK
    <3> QED
      BY <1>1, <2>1, <2>2, <3>1 DEF DequeIsTail
  <2>3. CASE q # k
    <3>1. hits'[q] = hits[q]
      BY <2>3 DEF IInv, TypeOK
    <3> QED
      BY <2>1, <3>1 DEF IInv, DequeIsTail
  <2> QED
    BY <2>2, <2>3
<1> QED
  BY <1>2, <1>3, <1>4 DEF IInv

(* An accepted attempt goes to the end of the deque and of the history.    *)
LEMMA AcceptedStep ==
  ASSUME IInv, NEW k \in Keys, NEW kept, kept = DropExpired(hits[k], clock - Window),
         ~IsFull(kept, k),
         hits' = [hits EXCEPT ![k] = Append(kept, clock)],
         accepted' = [accepted EXCEPT ![k] = Append(@, clock)],
         verdict' \in {NoAttempt} \cup [key: Keys, at: Nat, allowed: BOOLEAN],
         UNCHANGED <<clock, restarts>>
  PROVE  IInv'
<1> DEFINE acc == accepted[k]
           n == Len(acc)
           m == Len(kept)
           acc2 == accepted'[k]
           kept2 == hits'[k]
<1>1. /\ kept \in Seq(Nat)
      /\ m <= n /\ m <= Limit[k]
      /\ \A i \in 1..m : kept[i] = acc[(n - m) + i]
      /\ \A i \in 1..(n - m) : acc[i] <= clock - Window
  BY KeptIsTail
<1>2. /\ acc \in Seq(Nat) /\ n \in Nat /\ m \in Nat /\ clock \in Nat /\ Window \in Nat
      /\ Limit[k] \in Nat \ {0} /\ m < Limit[k]
  BY <1>1, SettingsAssumption, LimitIsPositive DEF IInv, TypeOK, IsFull
<1>3. /\ kept2 = Append(kept, clock) /\ acc2 = Append(acc, clock)
      /\ \A q \in Keys \ {k} : hits'[q] = hits[q] /\ accepted'[q] = accepted[q]
  BY DEF IInv, TypeOK
<1>4. TypeOK'
  BY <1>1, <1>2 DEF IInv, TypeOK
<1>5. /\ Len(acc2) = n + 1 /\ DOMAIN acc2 = 1..(n + 1)
      /\ \A i \in 1..n : acc2[i] = acc[i]
      /\ acc2[n + 1] = clock
      /\ Len(kept2) = m + 1 /\ DOMAIN kept2 = 1..(m + 1)
      /\ \A i \in 1..m : kept2[i] = kept[i]
      /\ kept2[m + 1] = clock
  <2> HIDE DEF acc, acc2, kept2
  <2> QED
    BY <1>1, <1>2, <1>3
<1>6. /\ \A i \in 1..n : acc[i] \in Nat /\ acc[i] <= clock
      /\ \A i, j \in 1..n : i <= j => acc[i] <= acc[j]
      /\ \A i, j \in 1..n : j = i + Limit[k] => acc[j] - acc[i] >= Window
  <2>1. InOrder(k) /\ DOMAIN acc = 1..n /\ \A i \in 1..n : acc[i] \in Nat
    BY <1>2, SeqElements DEF IInv
  <2>2. \A i, j \in DOMAIN accepted[k] :
          j = i + Limit[k] => accepted[k][j] - accepted[k][i] >= Window
    BY DEF IInv, NoWindowExceedsLimit
  <2> QED
    BY <2>1, <2>2 DEF InOrder
<1>7. /\ \A i \in 1..(n + 1) : acc2[i] <= clock
      /\ \A i, j \in 1..(n + 1) : i <= j => acc2[i] <= acc2[j]
      /\ \A i, j \in 1..(n + 1) : j = i + Limit[k] => acc2[j] - acc2[i] >= Window
      /\ \A i \in 1..(m + 1) : kept2[i] = acc2[(n - m) + i]
      /\ \A i \in 1..(n - m) : acc2[i] <= clock - Window
  <2> HIDE DEF acc, n, m, acc2, kept2
  <2>1. \A i \in 1..n : acc[i] \in Nat /\ acc[i] <= clock /\ acc2[i] = acc[i]
    BY <1>5, <1>6
  <2>2. ASSUME NEW i \in 1..(n + 1) PROVE acc2[i] <= clock
    <3>1. i \in 1..n \/ i = n + 1
      BY <1>2
    <3>2. acc2[n + 1] = clock /\ clock \in Nat
      BY <1>2, <1>5
    <3> QED
      BY <2>1, <3>1, <3>2
  <2>3. \A i, j \in 1..(n + 1) : i <= j => acc2[i] <= acc2[j]
    BY <1>2, <1>5, <1>6, <2>1
  <2>4. ASSUME NEW i \in 1..(n + 1), NEW j \in 1..(n + 1), j = i + Limit[k]
        PROVE  acc2[j] - acc2[i] >= Window
    <3>1. CASE j \in 1..n
      <4>1. i \in 1..n
        BY <1>2, <2>4, <3>1
      <4> QED
        BY <1>6, <2>1, <2>4, <3>1, <4>1
    <3>2. CASE j = n + 1
      <4>1. i \in 1..n /\ i \in 1..(n - m)
        BY <1>2, <2>4, <3>2
      <4>2. acc[i] <= clock - Window /\ acc[i] \in Nat /\ acc2[i] = acc[i] /\ acc2[j] = clock
        BY <1>1, <1>5, <2>1, <3>2, <4>1
      <4> QED
        BY <1>2, <4>2
    <3> QED
      BY <1>2, <3>1, <3>2
  <2>5. ASSUME NEW i \in 1..(m + 1) PROVE kept2[i] = acc2[(n - m) + i]
    <3>1. CASE i \in 1..m
      <4>1. (n - m) + i \in 1..n
        BY <1>1, <1>2, <3>1
      <4> QED
        BY <1>1, <1>5, <2>1, <3>1, <4>1
    <3>2. CASE i = m + 1
      <4>1. (n - m) + i = n + 1
        BY <1>2, <3>2
      <4> QED
        BY <1>5, <3>2, <4>1
    <3> QED
      BY <1>2, <3>1, <3>2
  <2>6. ASSUME NEW i \in 1..(n - m) PROVE acc2[i] <= clock - Window
    <3>1. i \in 1..n
      BY <1>1, <1>2
    <3> QED
      BY <1>1, <2>1, <3>1
  <2> QED
    BY <2>2, <2>3, <2>4, <2>5, <2>6
<1>8. NoWindowExceedsLimit'
  <2> SUFFICES ASSUME NEW q \in Keys, NEW i \in DOMAIN accepted'[q], NEW j \in DOMAIN accepted'[q],
                      j = i + Limit[q]
               PROVE  accepted'[q][j] - accepted'[q][i] >= Window
    BY DEF NoWindowExceedsLimit
  <2>1. CASE q # k
    BY <1>3, <2>1 DEF IInv, NoWindowExceedsLimit
  <2>2. CASE q = k
    <3> HIDE DEF n
    <3> QED
      BY <1>5, <1>7, <2>2
  <2> QED
    BY <2>1, <2>2
<1>9. ASSUME NEW q \in Keys PROVE InOrder(q)' /\ DequeIsTail(q)'
  <2>1. CASE q # k
    <3>1. InOrder(q) /\ DequeIsTail(q) /\ hits'[q] = hits[q] /\ accepted'[q] = accepted[q]
      BY <1>3, <2>1 DEF IInv
    <3> QED
      BY <3>1 DEF InOrder, DequeIsTail
  <2>2. CASE q = k
    <3>1. Len(acc2) - Len(kept2) = n - m /\ Len(kept2) <= Len(acc2) /\ Len(kept2) <= Limit[k]
      <4> HIDE DEF n, m, acc2, kept2
      <4> QED
        BY <1>1, <1>2, <1>5
    <3>2. InOrder(k)'
      <4> HIDE DEF n
      <4> QED
        BY <1>5, <1>7 DEF InOrder
    <3>3. DequeIsTail(k)'
      <4> HIDE DEF n, m
      <4> QED
        BY <1>5, <1>7, <3>1 DEF DequeIsTail
    <3> QED
      BY <2>2, <3>2, <3>3
  <2> QED
    BY <2>1, <2>2
<1> QED
  BY <1>4, <1>8, <1>9 DEF IInv

LEMMA AllowStep ==
  ASSUME IInv, NEW k \in Keys, Allow(k)
  PROVE  IInv'
<1>1. PICK kept : kept = DropExpired(hits[k], clock - Window)
  OBVIOUS
<1>2. verdict' \in [key: Keys, at: Nat, allowed: BOOLEAN]
  BY DEF Allow, IInv, TypeOK, IsFull
<1>3. CASE IsFull(kept, k)
  BY <1>1, <1>2, <1>3, RefusedStep DEF Allow
<1>4. CASE ~IsFull(kept, k)
  BY <1>1, <1>2, <1>4, AcceptedStep DEF Allow
<1> QED
  BY <1>3, <1>4

LEMMA TickStep ==
  ASSUME IInv, Tick
  PROVE  IInv'
<1>1. clock \in Nat /\ clock' \in Nat /\ clock' > clock /\ Window \in Nat
      /\ UNCHANGED <<hits, accepted, verdict, restarts>>
  BY SettingsAssumption DEF Tick, IInv, TypeOK
<1>2. TypeOK'
  BY SettingsAssumption DEF Tick, IInv, TypeOK
<1>3. NoWindowExceedsLimit'
  BY <1>1 DEF IInv, NoWindowExceedsLimit
<1>4. ASSUME NEW k \in Keys PROVE InOrder(k)' /\ DequeIsTail(k)'
  <2>1. InOrder(k) /\ DequeIsTail(k) /\ accepted[k] \in Seq(Nat) /\ hits[k] \in Seq(Nat)
    BY <1>4 DEF IInv, TypeOK
  <2>2. \A i \in DOMAIN accepted[k] : accepted[k][i] \in Nat
    BY <2>1, SeqElements
  <2>3. InOrder(k)'
    BY <1>1, <2>1, <2>2 DEF InOrder
  <2>4. DequeIsTail(k)'
    <3> DEFINE n == Len(accepted[k])
               m == Len(hits[k])
    <3>1. DOMAIN accepted[k] = 1..n /\ n \in Nat /\ m \in Nat
      BY <2>1, SeqElements
    <3>2. \A i \in 1..(n - m) : i \in 1..n
      <4> HIDE DEF n, m
      <4> QED
        BY <3>1
    <3>3. \A i \in 1..(n - m) : accepted[k][i] \in Nat
      <4> HIDE DEF n, m
      <4> QED
        BY <2>2, <3>1, <3>2
    <3>4. \A i \in 1..(n - m) : accepted[k][i] <= clock' - Window
      <4>1. \A i \in 1..(n - m) : accepted[k][i] <= clock - Window
        BY <2>1 DEF DequeIsTail
      <4> HIDE DEF n, m
      <4> QED
        BY <1>1, <3>3, <4>1
    <3> QED
      BY <1>1, <2>1, <3>4 DEF DequeIsTail
  <2> QED
    BY <2>3, <2>4
<1> QED
  BY <1>2, <1>3, <1>4 DEF IInv

LEMMA RestartStep ==
  ASSUME IInv, Restart
  PROVE  IInv'
<1>1. TypeOK'
  BY SettingsAssumption DEF Restart, IInv, TypeOK
<1>2. NoWindowExceedsLimit'
  BY DEF Restart, NoWindowExceedsLimit
<1>3. ASSUME NEW k \in Keys PROVE InOrder(k)' /\ DequeIsTail(k)'
  BY LimitIsPositive DEF Restart, InOrder, DequeIsTail
<1> QED
  BY <1>1, <1>2, <1>3 DEF IInv

LEMMA NextIInv ==
  ASSUME IInv, [Next]_vars
  PROVE  IInv'
<1>1. CASE UNCHANGED vars
  BY <1>1 DEF vars, IInv, TypeOK, NoWindowExceedsLimit, InOrder, DequeIsTail
<1> QED
  BY <1>1, AllowStep, TickStep, RestartStep DEF Next

-----------------------------------------------------------------------------
(* IInv holds in every state of every behaviour.                           *)
THEOREM Invariance == Spec => []IInv
<1>1. Init => IInv
  BY InitIInv
<1>2. IInv /\ [Next]_vars => IInv'
  BY NextIInv
<1> QED
  BY <1>1, <1>2, PTL DEF Spec

(* The types of the clock, the deques, the history and the verdict.        *)
THEOREM TypeCorrect == Spec => []TypeOK
<1>1. IInv => TypeOK
  BY DEF IInv
<1> QED
  BY <1>1, Invariance, PTL

(* rate_limit.py 38-40: for every limit and every window length, no span   *)
(* of one window holds more accepted attempts of a key than its limit.     *)
THEOREM BurstsAreBounded == Spec => []NoWindowExceedsLimit
<1>1. IInv => NoWindowExceedsLimit
  BY DEF IInv
<1> QED
  BY <1>1, Invariance, PTL

(* allow() answers, key by key, what the whole history calls for.          *)
THEOREM RefinesSlidingWindow == Spec => ImplementsSlidingWindow
<1>1. Init => Rolling!Init
  BY DEF Init, Rolling!Init, NoAttempt, Rolling!NoAttempt
<1>2. IInv /\ [Next]_vars => [Rolling!Next]_Rolling!vars
  <2> SUFFICES ASSUME IInv, [Next]_vars PROVE [Rolling!Next]_Rolling!vars
    OBVIOUS
  <2>1. ASSUME NEW k \in Keys, Allow(k) PROVE Rolling!Attempt(k)
    <3>1. IsFull(DropExpired(hits[k], clock - Window), k) <=> ~Rolling!MayPass(k)
      BY FullMeansRefused
    <3>2. verdict' = [key |-> k, at |-> clock, allowed |-> Rolling!MayPass(k)]
      <4>1. Rolling!MayPass(k) \in BOOLEAN /\ IsFull(DropExpired(hits[k], clock - Window), k) \in BOOLEAN
        BY DEF Rolling!MayPass, IsFull
      <4> QED
        BY <2>1, <3>1, <4>1 DEF Allow
    <3>3. accepted' = IF Rolling!MayPass(k)
                      THEN [accepted EXCEPT ![k] = Append(@, clock)] ELSE accepted
      BY <2>1, <3>1 DEF Allow
    <3> QED
      BY <2>1, <3>2, <3>3 DEF Allow, Rolling!Attempt
  <2>2. CASE Tick
    BY <2>2, SettingsAssumption DEF Tick, Rolling!Next, Rolling!Tick, IInv, TypeOK
  <2>3. CASE Restart
    BY <2>3 DEF Restart, Rolling!Next, Rolling!Restart, NoAttempt, Rolling!NoAttempt
  <2>4. CASE UNCHANGED vars
    BY <2>4 DEF vars, Rolling!vars
  <2> QED
    BY <2>1, <2>2, <2>3, <2>4 DEF Next, Rolling!Next
<1> QED
  BY <1>1, <1>2, Invariance, PTL DEF Spec, ImplementsSlidingWindow, Rolling!Spec
============================================================================
