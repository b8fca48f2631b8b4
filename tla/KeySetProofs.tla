---------------------------- MODULE KeySetProofs ----------------------------
(* Theorems about KeySet: any number of callers and keys, any failures.    *)
EXTENDS KeySet, SequenceTheorems, TLAPS

(***************************************************************************)
(* The key set as a sequence.                                              *)
(***************************************************************************)

LEMMA KIDType ==
    ASSUME NEW ks \in Seq(Key), NEW i \in DOMAIN ks
    PROVE  ks[i].kid \in Nat
<1>1. DOMAIN ks = 1..Len(ks) /\ ks[i] \in Key
  OBVIOUS
<1>2. ks[i].kid \in KID
  BY <1>1 DEF Key
<1>3. QED
  BY <1>2 DEF KID

LEMMA KIDsAre ==
    ASSUME NEW ks \in Seq(Key), NEW x
    PROVE  x \in KIDs(ks) <=> \E i \in DOMAIN ks : ks[i].kid = x
<1>1. ASSUME NEW i \in DOMAIN ks PROVE ks[i].kid \in KIDs(ks)
  BY <1>1 DEF KIDs, Range
<1>2. ASSUME x \in KIDs(ks) PROVE \E i \in DOMAIN ks : ks[i].kid = x
  BY <1>2 DEF KIDs, Range
<1>3. QED
  BY <1>1, <1>2

(* A key generated at the end of the list. *)
LEMMA Appended ==
    ASSUME NEW ks \in Seq(Key), NEW k \in Key
    PROVE  /\ Append(ks, k) \in Seq(Key)
           /\ DOMAIN Append(ks, k) = 1..(Len(ks) + 1)
           /\ DOMAIN ks = 1..Len(ks)
           /\ Len(ks) \in Nat
           /\ Append(ks, k)[Len(ks) + 1] = k
           /\ \A i \in DOMAIN ks : Append(ks, k)[i] = ks[i]
OBVIOUS

(* A key generated ahead of those loaded. *)
LEMMA Prepended ==
    ASSUME NEW ks \in Seq(Key), NEW k \in Key
    PROVE  /\ <<k>> \o ks \in Seq(Key)
           /\ DOMAIN (<<k>> \o ks) = 1..(Len(ks) + 1)
           /\ DOMAIN ks = 1..Len(ks)
           /\ Len(ks) \in Nat
           /\ (<<k>> \o ks)[1] = k
           /\ \A i \in DOMAIN ks : (<<k>> \o ks)[i + 1] = ks[i]
           /\ Tail(<<k>> \o ks) = ks
<1>1. /\ <<k>> \in Seq(Key)
      /\ Len(<<k>>) = 1
      /\ <<k>>[1] = k
  OBVIOUS
<1>2. /\ <<k>> \o ks \in Seq(Key)
      /\ Len(<<k>> \o ks) = 1 + Len(ks)
      /\ \A i \in 1..(1 + Len(ks)) :
            (<<k>> \o ks)[i] = IF i <= 1 THEN <<k>>[i] ELSE ks[i - 1]
  BY <1>1
<1>3. DOMAIN ks = 1..Len(ks) /\ Len(ks) \in Nat
  OBVIOUS
<1>4. \A i \in DOMAIN ks : (<<k>> \o ks)[i + 1] = ks[i]
  BY <1>2, <1>3
<1>5. <<k>> \o ks # <<>>
  BY <1>2
<1>6. /\ Tail(<<k>> \o ks) \in Seq(Key)
      /\ Len(Tail(<<k>> \o ks)) = Len(ks)
      /\ \A i \in 1..Len(ks) : Tail(<<k>> \o ks)[i] = (<<k>> \o ks)[i + 1]
  BY <1>2, <1>5
<1>7. Tail(<<k>> \o ks) = ks
  BY <1>3, <1>4, <1>6, SeqEqual
<1>8. QED
  BY <1>1, <1>2, <1>3, <1>4, <1>7

(* What promote and retire do to the list: positions and KIDs stay. *)
LEMMA StatusSet ==
    ASSUME NEW ks \in Seq(Key), NEW kid, NEW s \in Status
    PROVE  /\ SetStatus(ks, kid, s) \in Seq(Key)
           /\ DOMAIN SetStatus(ks, kid, s) = DOMAIN ks
           /\ \A i \in DOMAIN ks :
                 /\ SetStatus(ks, kid, s)[i].kid = ks[i].kid
                 /\ SetStatus(ks, kid, s)[i].status = IF ks[i].kid = kid THEN s ELSE ks[i].status
<1>1. DOMAIN ks = 1..Len(ks) /\ Len(ks) \in Nat /\ \A i \in DOMAIN ks : ks[i] \in Key
  OBVIOUS
<1>2. \A i \in DOMAIN ks : SetStatus(ks, kid, s)[i] \in Key
  BY <1>1 DEF SetStatus, Key
<1>3. DOMAIN SetStatus(ks, kid, s) = 1..Len(ks)
  BY <1>1 DEF SetStatus
<1>4. SetStatus(ks, kid, s) \in [1..Len(ks) -> Key]
  BY <1>1, <1>2, <1>3 DEF SetStatus
<1>5. \A i \in DOMAIN ks :
         /\ SetStatus(ks, kid, s)[i].kid = ks[i].kid
         /\ SetStatus(ks, kid, s)[i].status = IF ks[i].kid = kid THEN s ELSE ks[i].status
  BY <1>1 DEF SetStatus, Key
<1>6. QED
  BY <1>1, <1>3, <1>4, <1>5

LEMMA Demoted ==
    ASSUME NEW ks \in Seq(Key)
    PROVE  /\ Demote(ks) \in Seq(Key)
           /\ DOMAIN Demote(ks) = DOMAIN ks
           /\ \A i \in DOMAIN ks :
                 Demote(ks)[i].kid = ks[i].kid /\ Demote(ks)[i].status # "active"
<1>1. DOMAIN ks = 1..Len(ks) /\ Len(ks) \in Nat /\ \A i \in DOMAIN ks : ks[i] \in Key
  OBVIOUS
<1>2. \A i \in DOMAIN ks : Demote(ks)[i] \in Key
  BY <1>1 DEF Demote, Key, Status
<1>3. DOMAIN Demote(ks) = 1..Len(ks)
  BY <1>1 DEF Demote
<1>4. Demote(ks) \in [1..Len(ks) -> Key]
  BY <1>1, <1>2, <1>3 DEF Demote
<1>5. \A i \in DOMAIN ks : Demote(ks)[i].kid = ks[i].kid /\ Demote(ks)[i].status # "active"
  BY <1>1 DEF Demote, Key
<1>6. QED
  BY <1>1, <1>3, <1>4, <1>5

LEMMA NextKeyType ==
    ASSUME TypeOK, NEW s \in Status
    PROVE  [kid |-> generated + 1, status |-> s] \in Key
BY DEF TypeOK, Key, KID

(***************************************************************************)
(* Type correctness.                                                       *)
(***************************************************************************)

LEMMA StartType == ASSUME TypeOK, NEW r \in Replicas, Start(r) PROVE TypeOK'
<1> USE DEF Start, New, Import
<1>1. keys' \in [Replicas -> Seq(Key)]
  <2>1. [kid |-> generated + 1, status |-> "active"] \in Key
    BY NextKeyType DEF Status
  <2>2. <<[kid |-> generated + 1, status |-> "active"]>> \o stored \in Seq(Key)
    BY <2>1, Prepended DEF TypeOK
  <2>3. QED
    BY <2>2 DEF TypeOK
<1>2. generated' \in Nat /\ up' \in [Replicas -> BOOLEAN]
  BY DEF TypeOK
<1>3. outcome' \in [Replicas -> {"none", "saved", "failed"}]
  BY DEF TypeOK
<1>4. settled' \in [Replicas -> BOOLEAN]
  BY DEF TypeOK
<1>5. QED
  BY <1>1, <1>2, <1>3, <1>4 DEF TypeOK

LEMMA TornType ==
    ASSUME TypeOK, NEW cs \in SUBSET Callers
    PROVE  Torn(cs) \subseteq Seq(Key)
BY DEF TypeOK, Torn

LEMMA CrashType == ASSUME TypeOK, NEW r \in Replicas, Crash(r) PROVE TypeOK'
<1> USE DEF Crash
<1>1. stored' \in Seq(Key)
  BY TornType DEF CallersOf
<1>2. up' \in [Replicas -> BOOLEAN] /\ failures' \in Nat
  BY DEF TypeOK
<1>3. keys' \in [Replicas -> Seq(Key)]
  BY DEF TypeOK
<1>4. pc' \in [Callers -> {"idle", "notify", "save"}]
  BY DEF TypeOK
<1>5. copy' \in [Callers -> Seq(Key)]
  BY DEF TypeOK
<1>6. QED
  BY <1>1, <1>2, <1>3, <1>4, <1>5 DEF TypeOK

LEMMA HomeType == ASSUME NEW c \in Callers PROVE Home[c] \in Replicas
BY KeySetAssumption

LEMMA MutateType ==
    ASSUME TypeOK, NEW c \in Callers, NEW ks \in Seq(Key), Mutate(c, ks),
           generated' \in Nat, settled' \in [Replicas -> BOOLEAN]
    PROVE  TypeOK'
<1> USE DEF Mutate
<1>1. keys' \in [Replicas -> Seq(Key)]
  BY HomeType DEF TypeOK
<1>2. pc' \in [Callers -> {"idle", "notify", "save"}]
  BY DEF TypeOK
<1>3. QED
  BY <1>1, <1>2 DEF TypeOK

(* The lists the three mutations leave. *)
LEMMA MutationTypes ==
    ASSUME TypeOK, NEW c \in Callers, NEW kid
    PROVE  /\ keys[Home[c]] \in Seq(Key)
           /\ Append(keys[Home[c]], [kid |-> generated + 1, status |-> "announced"]) \in Seq(Key)
           /\ SetStatus(Demote(keys[Home[c]]), kid, "active") \in Seq(Key)
           /\ SetStatus(keys[Home[c]], kid, "retired") \in Seq(Key)
<1>1. keys[Home[c]] \in Seq(Key)
  BY HomeType DEF TypeOK
<1>2. [kid |-> generated + 1, status |-> "announced"] \in Key
  BY NextKeyType DEF Status
<1>3. "active" \in Status /\ "retired" \in Status
  BY DEF Status
<1>4. Demote(keys[Home[c]]) \in Seq(Key)
  BY <1>1, Demoted
<1>5. QED
  BY <1>1, <1>2, <1>3, <1>4, Appended, StatusSet

LEMMA NotifyType == ASSUME TypeOK, NEW c \in Callers, Notify(c) PROVE TypeOK'
<1>1. CASE Export(c)
  <2> USE <1>1 DEF Export
  <2>1. keys[Home[c]] \in Seq(Key)
    BY HomeType DEF TypeOK
  <2>2. copy' \in [Callers -> Seq(Key)]
    BY <2>1 DEF TypeOK
  <2>3. pc' \in [Callers -> {"idle", "notify", "save"}]
    BY DEF TypeOK
  <2>4. QED
    BY <2>2, <2>3 DEF TypeOK
<1>2. ASSUME NEW res \in {"saved", "failed"}, Return(c, res), stored' \in Seq(Key), failures' \in Nat
      PROVE  TypeOK'
  <2> USE <1>2 DEF Return
  <2>1. pc' \in [Callers -> {"idle", "notify", "save"}]
    BY DEF TypeOK
  <2>2. copy' \in [Callers -> Seq(Key)]
    BY DEF TypeOK
  <2>3. outcome' \in [Replicas -> {"none", "saved", "failed"}]
    BY HomeType DEF TypeOK
  <2>4. QED
    BY <2>1, <2>2, <2>3 DEF TypeOK
<1>3. CASE Save(c)
  <2>1. stored' \in Seq(Key) /\ failures' \in Nat
    BY <1>3 DEF Save, TypeOK
  <2>2. QED
    BY <1>2, <1>3, <2>1 DEF Save
<1>4. CASE SaveError(c)
  <2>1. Torn({c}) \subseteq Seq(Key)
    <3>1. {c} \in SUBSET Callers
      OBVIOUS
    <3>2. QED
      BY <3>1, TornType
  <2>2. stored' \in Seq(Key)
    BY <1>4, <2>1 DEF SaveError
  <2>3. failures' \in Nat
    BY <1>4 DEF SaveError, TypeOK
  <2>4. QED
    BY <1>2, <1>4, <2>2, <2>3 DEF SaveError
<1>5. QED
  BY <1>1, <1>3, <1>4 DEF Notify

LEMMA TypeStep == TypeOK /\ [Next]_vars => TypeOK'
<1> SUFFICES ASSUME TypeOK, [Next]_vars PROVE TypeOK'
  OBVIOUS
<1>1. ASSUME NEW r \in Replicas, Start(r) \/ Crash(r) PROVE TypeOK'
  BY <1>1, StartType, CrashType
<1>2. ASSUME NEW c \in Callers, Announce(c) PROVE TypeOK'
  <2>1. generated' \in Nat /\ settled' \in [Replicas -> BOOLEAN]
    BY <1>2 DEF Announce, TypeOK
  <2>2. QED
    BY <1>2, <2>1, MutationTypes, MutateType DEF Announce
<1>3. ASSUME NEW c \in Callers, NEW kid, Promote(c, kid) PROVE TypeOK'
  <2>1. generated' \in Nat /\ settled' \in [Replicas -> BOOLEAN]
    BY <1>3, HomeType DEF Promote, TypeOK
  <2>2. QED
    BY <1>3, <2>1, MutationTypes, MutateType DEF Promote
<1>4. ASSUME NEW c \in Callers, NEW kid, Retire(c, kid) PROVE TypeOK'
  <2>1. generated' \in Nat /\ settled' \in [Replicas -> BOOLEAN]
    BY <1>4 DEF Retire, TypeOK
  <2>2. QED
    BY <1>4, <2>1, MutationTypes, MutateType DEF Retire
<1>5. ASSUME NEW c \in Callers, Notify(c) PROVE TypeOK'
  BY <1>5, NotifyType
<1>6. CASE UNCHANGED vars
  BY <1>6 DEF vars, TypeOK
<1>7. QED
  BY <1>1, <1>2, <1>3, <1>4, <1>5, <1>6 DEF Next

LEMMA TypeInit == Init => TypeOK
BY KeySetAssumption DEF Init, TypeOK

(* Every variable keeps its type: key sets are lists of keys with one of   *)
(* the four statuses, in memory, exported and stored.                      *)
THEOREM TypeCorrect == Spec => []TypeOK
BY TypeInit, TypeStep, PTL DEF Spec

(***************************************************************************)
(* One key signs.  Promote demotes every active key, but the key it makes  *)
(* active is one only if no KID is in the list twice: so the lists are     *)
(* numbered, and every number given out so far.                            *)
(***************************************************************************)

Numbered(ks, n) ==
    /\ \A i, j \in DOMAIN ks : ks[i].kid = ks[j].kid => i = j
    /\ \A i \in DOMAIN ks : ks[i].kid <= n

AllNumbered ==
    /\ Numbered(stored, generated)
    /\ \A r \in Replicas : Numbered(keys[r], generated)
    /\ \A c \in Callers : Numbered(copy[c], generated)

SignerInv == TypeOK /\ AllNumbered /\ SoleSigner

LEMMA EmptyNumbered == ASSUME NEW n PROVE Numbered(<<>>, n)
BY DEF Numbered

LEMMA NumberedMore ==
    ASSUME NEW ks \in Seq(Key), NEW n \in Nat, Numbered(ks, n)
    PROVE  Numbered(ks, n + 1)
<1>1. \A i \in DOMAIN ks : ks[i].kid \in Nat
  BY KIDType
<1>2. QED
  BY <1>1 DEF Numbered

LEMMA NumberedAppend ==
    ASSUME NEW ks \in Seq(Key), NEW n \in Nat, Numbered(ks, n), NEW s \in Status
    PROVE  Numbered(Append(ks, [kid |-> n + 1, status |-> s]), n + 1)
<1> DEFINE k == [kid |-> n + 1, status |-> s]
<1>1. k \in Key /\ k.kid = n + 1
  BY DEF Key, KID
<1>2. \A i \in DOMAIN ks : ks[i].kid \in Nat /\ ks[i].kid <= n
  BY KIDType DEF Numbered
<1> HIDE DEF k
<1>3. \A i \in 1..(Len(ks) + 1) :
         \/ i \in DOMAIN ks /\ Append(ks, k)[i] = ks[i]
         \/ i = Len(ks) + 1 /\ Append(ks, k)[i] = k
  BY <1>1, Appended
<1>4. Numbered(Append(ks, k), n + 1)
  BY <1>1, <1>2, <1>3, Appended DEF Numbered
<1>5. QED
  BY <1>4 DEF k

LEMMA NumberedPrepend ==
    ASSUME NEW ks \in Seq(Key), NEW n \in Nat, Numbered(ks, n), NEW s \in Status
    PROVE  Numbered(<<[kid |-> n + 1, status |-> s]>> \o ks, n + 1)
<1> DEFINE k == [kid |-> n + 1, status |-> s]
<1>1. k \in Key /\ k.kid = n + 1
  BY DEF Key, KID
<1>2. \A i \in DOMAIN ks : ks[i].kid \in Nat /\ ks[i].kid <= n
  BY KIDType DEF Numbered
<1> HIDE DEF k
<1> DEFINE ls == <<k>> \o ks
<1>3. /\ DOMAIN ls = 1..(Len(ks) + 1)
      /\ DOMAIN ks = 1..Len(ks)
      /\ Len(ks) \in Nat
      /\ ls[1] = k
      /\ \A i \in DOMAIN ks : ls[i + 1] = ks[i]
  BY <1>1, Prepended
<1> HIDE DEF ls
<1>4. \A i \in DOMAIN ls : i = 1 \/ (i - 1 \in DOMAIN ks /\ ls[i] = ks[i - 1])
  BY <1>3
<1>5. \A i \in DOMAIN ls : ls[i].kid <= n + 1
  BY <1>1, <1>2, <1>3, <1>4
<1>6. ASSUME NEW i \in DOMAIN ls, NEW j \in DOMAIN ls, ls[i].kid = ls[j].kid PROVE i = j
  BY <1>1, <1>2, <1>3, <1>4, <1>6 DEF Numbered
<1>7. QED
  BY <1>5, <1>6 DEF Numbered, ls, k

(* A list with the same KIDs in the same places. *)
LEMMA NumberedSame ==
    ASSUME NEW ks, NEW ls, NEW n, Numbered(ks, n),
           DOMAIN ls = DOMAIN ks, \A i \in DOMAIN ks : ls[i].kid = ks[i].kid
    PROVE  Numbered(ls, n)
BY DEF Numbered

LEMMA NumberedMutations ==
    ASSUME NEW ks \in Seq(Key), NEW n, Numbered(ks, n), NEW kid
    PROVE  /\ Numbered(SetStatus(Demote(ks), kid, "active"), n)
           /\ Numbered(SetStatus(ks, kid, "retired"), n)
<1>1. "active" \in Status /\ "retired" \in Status
  BY DEF Status
<1>2. Numbered(Demote(ks), n) /\ Demote(ks) \in Seq(Key)
  BY Demoted, NumberedSame
<1>3. QED
  BY <1>1, <1>2, StatusSet, NumberedSame

OneActive(ks) == \A i, j \in With(ks, "active") : i = j

LEMMA OneActivePromoted ==
    ASSUME NEW ks \in Seq(Key), NEW n, Numbered(ks, n), NEW kid
    PROVE  OneActive(SetStatus(Demote(ks), kid, "active"))
<1>1. "active" \in Status
  BY DEF Status
<1>2. /\ Demote(ks) \in Seq(Key)
      /\ DOMAIN Demote(ks) = DOMAIN ks
      /\ \A i \in DOMAIN ks : Demote(ks)[i].kid = ks[i].kid /\ Demote(ks)[i].status # "active"
  BY Demoted
<1> DEFINE ls == SetStatus(Demote(ks), kid, "active")
<1>3. DOMAIN ls = DOMAIN ks /\ \A i \in DOMAIN ks : ls[i].status = "active" => ks[i].kid = kid
  BY <1>1, <1>2, StatusSet
<1> HIDE DEF ls
<1>4. \A i, j \in With(ls, "active") : i = j
  BY <1>3 DEF With, Numbered
<1>5. QED
  BY <1>4 DEF OneActive, ls

LEMMA OneActiveRetired ==
    ASSUME NEW ks \in Seq(Key), NEW kid, OneActive(ks)
    PROVE  OneActive(SetStatus(ks, kid, "retired"))
<1>1. "retired" \in Status
  BY DEF Status
<1> DEFINE ls == SetStatus(ks, kid, "retired")
<1>2. DOMAIN ls = DOMAIN ks /\ \A i \in DOMAIN ks : ls[i].status = "active" => ks[i].status = "active"
  BY <1>1, StatusSet
<1> HIDE DEF ls
<1>3. With(ls, "active") \subseteq With(ks, "active")
  BY <1>2 DEF With
<1>4. QED
  BY <1>3 DEF OneActive, ls

LEMMA OneActiveAnnounced ==
    ASSUME NEW ks \in Seq(Key), NEW k \in Key, k.status # "active", OneActive(ks)
    PROVE  OneActive(Append(ks, k))
<1> DEFINE ls == Append(ks, k)
<1>1. \A i \in DOMAIN ls : (i \in DOMAIN ks /\ ls[i] = ks[i]) \/ ls[i] = k
  BY Appended
<1> HIDE DEF ls
<1>2. With(ls, "active") \subseteq With(ks, "active")
  BY <1>1 DEF With
<1>3. QED
  BY <1>2 DEF OneActive, ls

LEMMA OneActiveStarted ==
    ASSUME NEW k \in Key PROVE OneActive(<<k>> \o <<>>)
<1>1. <<k>> \o <<>> = <<k>> /\ DOMAIN <<k>> = {1}
  OBVIOUS
<1>2. QED
  BY <1>1 DEF OneActive, With

LEMMA SignerInit == Init => SignerInv
<1> SUFFICES ASSUME Init PROVE SignerInv
  OBVIOUS
<1>1. AllNumbered
  BY EmptyNumbered DEF Init, AllNumbered
<1>2. SoleSigner
  BY DEF Init, SoleSigner
<1>3. QED
  BY <1>1, <1>2, TypeInit DEF SignerInv

LEMMA SignerStart == ASSUME SignerInv, NEW r \in Replicas, Start(r) PROVE AllNumbered' /\ SoleSigner'
<1> DEFINE k == [kid |-> generated + 1, status |-> "active"]
<1>1. /\ TypeOK /\ AllNumbered /\ SoleSigner
      /\ generated \in Nat /\ stored \in Seq(Key) /\ copy \in [Callers -> Seq(Key)]
      /\ keys \in [Replicas -> Seq(Key)] /\ settled \in [Replicas -> BOOLEAN]
  BY DEF SignerInv, TypeOK
<1>2. k \in Key /\ "active" \in Status
  BY <1>1, NextKeyType DEF Status
<1>3. /\ generated' = generated + 1 /\ stored' = stored /\ copy' = copy
      /\ keys' = [keys EXCEPT ![r] = <<k>> \o stored]
      /\ settled' = [settled EXCEPT ![r] = stored = <<>>]
  BY DEF Start, New, Import
<1>4. Numbered(<<k>> \o stored, generated + 1)
  BY <1>1, <1>2, NumberedPrepend DEF AllNumbered
<1> HIDE DEF k
<1>5. AllNumbered'
  <2>1. Numbered(stored, generated + 1)
    BY <1>1, NumberedMore DEF AllNumbered
  <2>2. \A c \in Callers : Numbered(copy[c], generated + 1)
    BY <1>1, NumberedMore DEF AllNumbered
  <2>3. \A q \in Replicas : Numbered(keys[q], generated + 1)
    BY <1>1, NumberedMore DEF AllNumbered
  <2>4. \A q \in Replicas : Numbered(keys'[q], generated + 1)
    BY <1>1, <1>3, <1>4, <2>3
  <2>5. QED
    BY <1>3, <2>1, <2>2, <2>4 DEF AllNumbered
<1>6. SoleSigner'
  <2>1. \A q \in Replicas : settled[q] => OneActive(keys[q])
    BY <1>1 DEF SoleSigner, OneActive
  <2>2. stored = <<>> => OneActive(<<k>> \o stored)
    BY <1>2, OneActiveStarted
  <2>3. \A q \in Replicas : settled'[q] => OneActive(keys'[q])
    BY <1>1, <1>3, <2>1, <2>2
  <2>4. QED
    BY <2>3 DEF SoleSigner, OneActive
<1>7. QED
  BY <1>5, <1>6

LEMMA SignerMutate ==
    ASSUME SignerInv, NEW c \in Callers, NEW ks \in Seq(Key), Mutate(c, ks),
           generated' \in {generated, generated + 1},
           Numbered(ks, generated'),
           settled' = settled \/ settled' = [settled EXCEPT ![Home[c]] = TRUE],
           settled'[Home[c]] => OneActive(ks)
    PROVE  AllNumbered' /\ SoleSigner'
<1>1. /\ TypeOK /\ AllNumbered /\ SoleSigner
      /\ generated \in Nat /\ stored \in Seq(Key) /\ copy \in [Callers -> Seq(Key)]
      /\ keys \in [Replicas -> Seq(Key)] /\ settled \in [Replicas -> BOOLEAN]
  BY DEF SignerInv, TypeOK
<1>2. stored' = stored /\ copy' = copy /\ keys' = [keys EXCEPT ![Home[c]] = ks]
  BY DEF Mutate
<1>3. AllNumbered'
  <2>1. Numbered(stored, generated')
    BY <1>1, NumberedMore DEF AllNumbered
  <2>2. \A d \in Callers : Numbered(copy[d], generated')
    BY <1>1, NumberedMore DEF AllNumbered
  <2>3. \A q \in Replicas : Numbered(keys[q], generated')
    BY <1>1, NumberedMore DEF AllNumbered
  <2>4. \A q \in Replicas : Numbered(keys'[q], generated')
    BY <1>1, <1>2, <2>3
  <2>5. QED
    BY <1>2, <2>1, <2>2, <2>4 DEF AllNumbered
<1>4. SoleSigner'
  <2>1. \A q \in Replicas : settled[q] => OneActive(keys[q])
    BY <1>1 DEF SoleSigner, OneActive
  <2>2. \A q \in Replicas : q # Home[c] => settled'[q] = settled[q]
    BY <1>1
  <2>3. \A q \in Replicas : settled'[q] => OneActive(keys'[q])
    BY <1>1, <1>2, <2>1, <2>2
  <2>4. QED
    BY <2>3 DEF SoleSigner, OneActive
<1>5. QED
  BY <1>3, <1>4

LEMMA SignerStep == SignerInv /\ [Next]_vars => SignerInv'
<1> SUFFICES ASSUME SignerInv, [Next]_vars PROVE SignerInv'
  OBVIOUS
<1>1. /\ TypeOK /\ AllNumbered /\ SoleSigner
      /\ generated \in Nat /\ settled \in [Replicas -> BOOLEAN]
  BY DEF SignerInv, TypeOK
<1>2. TypeOK'
  BY <1>1, TypeStep
<1>3. ASSUME NEW c \in Callers
      PROVE  /\ keys[Home[c]] \in Seq(Key) /\ Numbered(keys[Home[c]], generated)
             /\ settled[Home[c]] => OneActive(keys[Home[c]])
  BY <1>1, HomeType DEF TypeOK, AllNumbered, SoleSigner, OneActive
<1>4. ASSUME NEW r \in Replicas, Start(r) PROVE AllNumbered' /\ SoleSigner'
  BY <1>4, SignerStart
<1>5. ASSUME NEW r \in Replicas, Crash(r) PROVE AllNumbered' /\ SoleSigner'
  <2> USE <1>5 DEF Crash
  <2>1. Numbered(stored', generated)
    BY <1>1 DEF Torn, CallersOf, AllNumbered
  <2>2. \A c \in Callers : Numbered(copy'[c], generated)
    BY <1>1, EmptyNumbered DEF AllNumbered
  <2>3. \A q \in Replicas : keys'[q] = keys[q] \/ keys'[q] = <<>>
    BY <1>1 DEF TypeOK
  <2>4. \A q \in Replicas : Numbered(keys'[q], generated)
    BY <1>1, <2>3, EmptyNumbered DEF AllNumbered
  <2>5. SoleSigner'
    BY <1>1, <2>3 DEF SoleSigner, With
  <2>6. QED
    BY <2>1, <2>2, <2>4, <2>5 DEF AllNumbered
<1>6. ASSUME NEW c \in Callers, Announce(c) PROVE AllNumbered' /\ SoleSigner'
  <2> DEFINE k == [kid |-> generated + 1, status |-> "announced"]
  <2>1. k \in Key /\ k.status # "active" /\ "announced" \in Status
    BY <1>1, NextKeyType DEF Status
  <2>2. Numbered(Append(keys[Home[c]], k), generated + 1)
    BY <1>1, <1>3, <2>1, NumberedAppend
  <2>3. settled[Home[c]] => OneActive(Append(keys[Home[c]], k))
    BY <1>3, <2>1, OneActiveAnnounced
  <2>4. Append(keys[Home[c]], k) \in Seq(Key)
    BY <1>3, <2>1, Appended
  <2>5. Mutate(c, Append(keys[Home[c]], k)) /\ generated' = generated + 1 /\ settled' = settled
    BY <1>6 DEF Announce
  <2> HIDE DEF k
  <2>6. QED
    BY <2>2, <2>3, <2>4, <2>5, SignerMutate
<1>7. ASSUME NEW c \in Callers, NEW kid, Promote(c, kid) PROVE AllNumbered' /\ SoleSigner'
  <2> DEFINE ks == SetStatus(Demote(keys[Home[c]]), kid, "active")
  <2>1. ks \in Seq(Key) /\ Numbered(ks, generated) /\ OneActive(ks)
    BY <1>1, <1>3, MutationTypes, NumberedMutations, OneActivePromoted
  <2>2. /\ Mutate(c, ks) /\ generated' = generated
        /\ settled' = [settled EXCEPT ![Home[c]] = TRUE]
    BY <1>7 DEF Promote
  <2> HIDE DEF ks
  <2>3. QED
    BY <2>1, <2>2, SignerMutate
<1>8. ASSUME NEW c \in Callers, NEW kid, Retire(c, kid) PROVE AllNumbered' /\ SoleSigner'
  <2> DEFINE ks == SetStatus(keys[Home[c]], kid, "retired")
  <2>1. ks \in Seq(Key) /\ Numbered(ks, generated)
    BY <1>1, <1>3, MutationTypes, NumberedMutations
  <2>2. settled[Home[c]] => OneActive(ks)
    BY <1>3, OneActiveRetired
  <2>3. Mutate(c, ks) /\ generated' = generated /\ settled' = settled
    BY <1>8 DEF Retire
  <2> HIDE DEF ks
  <2>4. QED
    BY <2>1, <2>2, <2>3, SignerMutate
<1>9. ASSUME NEW c \in Callers, Export(c) PROVE AllNumbered' /\ SoleSigner'
  <2>1. \A d \in Callers : Numbered(copy'[d], generated)
    BY <1>1, <1>3, <1>9 DEF Export, AllNumbered, TypeOK
  <2>2. QED
    BY <1>1, <1>9, <2>1 DEF Export, AllNumbered, SoleSigner
<1>10. ASSUME NEW c \in Callers, NEW res, Return(c, res), stored' \in {stored, copy[c]}
       PROVE  AllNumbered' /\ SoleSigner'
  <2>1. \A d \in Callers : Numbered(copy'[d], generated)
    BY <1>1, <1>10, EmptyNumbered DEF Return, AllNumbered, TypeOK
  <2>2. Numbered(stored', generated)
    BY <1>1, <1>10 DEF AllNumbered
  <2>3. QED
    BY <1>1, <1>10, <2>1, <2>2 DEF Return, AllNumbered, SoleSigner
<1>11. ASSUME NEW c \in Callers, Save(c) \/ SaveError(c) PROVE AllNumbered' /\ SoleSigner'
  <2>1. CASE Save(c)
    BY <1>10, <2>1 DEF Save
  <2>2. CASE SaveError(c)
    <3>1. stored' \in Torn({c}) /\ Return(c, "failed")
      BY <2>2 DEF SaveError
    <3>2. Torn({c}) \subseteq {stored, copy[c]}
      BY DEF Torn
    <3>3. QED
      BY <1>10, <3>1, <3>2
  <2>3. QED
    BY <1>11, <2>1, <2>2
<1>12. ASSUME UNCHANGED vars PROVE AllNumbered' /\ SoleSigner'
  BY <1>1, <1>12 DEF vars, AllNumbered, SoleSigner
<1>13. AllNumbered' /\ SoleSigner'
  BY <1>4, <1>5, <1>6, <1>7, <1>8, <1>9, <1>11, <1>12 DEF Next, Notify
<1>14. QED
  BY <1>2, <1>13 DEF SignerInv

(* "Any previously-active key becomes retiring, so only one key signs at a *)
(* time" (keyset.go): in a replica that loaded nothing, or in which a key  *)
(* was promoted since, at most one key is active.                          *)
THEOREM OneKeySigns == Spec => []SoleSigner
<1>1. SignerInv => SoleSigner
  BY DEF SignerInv
<1>2. QED
  BY <1>1, SignerInit, SignerStep, PTL DEF Spec

(***************************************************************************)
(* One replica and its store.  The copy being saved is the key set of the  *)
(* replica, unless somebody has changed it since and waits to save it in   *)
(* turn; nobody else saves meanwhile.                                      *)
(***************************************************************************)

Alone == \A r, s \in Replicas : r = s

AtWork == \A c \in Callers : pc[c] # "idle" => durable /\ up[Home[c]]

OneSaver ==
    \A c, d \in Callers : Home[c] = Home[d] /\ pc[c] = "save" /\ pc[d] = "save" => c = d

CopyIsCurrent ==
    \A c \in Callers :
        pc[c] = "save" /\ (\A d \in CallersOf(Home[c]) : pc[d] # "notify") => copy[c] = keys[Home[c]]

KeysKept ==
    /\ \A r \in Replicas : up[r] => KIDs(stored) \subseteq KIDs(keys[r])
    /\ \A c \in Callers : pc[c] = "save" =>
           KIDs(stored) \subseteq KIDs(copy[c]) /\ KIDs(copy[c]) \subseteq KIDs(keys[Home[c]])

StoreInv == TypeOK /\ AtWork /\ OneSaver /\ CopyIsCurrent /\ StoreIsCurrent /\ KeysKept

(* No operation takes a key out of a list. *)
LEMMA KIDsSame ==
    ASSUME NEW ks \in Seq(Key), NEW ls \in Seq(Key),
           DOMAIN ls = DOMAIN ks, \A i \in DOMAIN ks : ls[i].kid = ks[i].kid
    PROVE  KIDs(ks) \subseteq KIDs(ls)
BY KIDsAre

LEMMA KIDsMutations ==
    ASSUME NEW ks \in Seq(Key), NEW kid, NEW k \in Key
    PROVE  /\ KIDs(ks) \subseteq KIDs(Append(ks, k))
           /\ KIDs(ks) \subseteq KIDs(SetStatus(Demote(ks), kid, "active"))
           /\ KIDs(ks) \subseteq KIDs(SetStatus(ks, kid, "retired"))
           /\ KIDs(ks) \subseteq KIDs(<<k>> \o ks)
<1>1. "active" \in Status /\ "retired" \in Status
  BY DEF Status
<1>2. KIDs(ks) \subseteq KIDs(Append(ks, k))
  <2> DEFINE ls == Append(ks, k)
  <2>1. ls \in Seq(Key) /\ \A i \in DOMAIN ks : i \in DOMAIN ls /\ ls[i] = ks[i]
    BY Appended
  <2> HIDE DEF ls
  <2>2. KIDs(ks) \subseteq KIDs(ls)
    BY <2>1, KIDsAre
  <2>3. QED
    BY <2>2 DEF ls
<1>3. KIDs(ks) \subseteq KIDs(<<k>> \o ks)
  <2> DEFINE ls == <<k>> \o ks
  <2>1. ls \in Seq(Key) /\ \A i \in DOMAIN ks : i + 1 \in DOMAIN ls /\ ls[i + 1] = ks[i]
    BY Prepended
  <2> HIDE DEF ls
  <2>2. KIDs(ks) \subseteq KIDs(ls)
    BY <2>1, KIDsAre
  <2>3. QED
    BY <2>2 DEF ls
<1>4. KIDs(ks) \subseteq KIDs(Demote(ks)) /\ Demote(ks) \in Seq(Key)
  BY Demoted, KIDsSame
<1>5. KIDs(Demote(ks)) \subseteq KIDs(SetStatus(Demote(ks), kid, "active"))
  BY <1>1, <1>4, StatusSet, KIDsSame
<1>6. KIDs(ks) \subseteq KIDs(SetStatus(ks, kid, "retired"))
  BY <1>1, StatusSet, KIDsSame
<1>7. QED
  BY <1>2, <1>3, <1>4, <1>5, <1>6

LEMMA StoreInit == Init => StoreInv
BY TypeInit DEF Init, StoreInv, AtWork, OneSaver, CopyIsCurrent, StoreIsCurrent, KeysKept

LEMMA StoreStart ==
    ASSUME StoreInv, NEW r \in Replicas, Start(r)
    PROVE  (AtWork /\ OneSaver /\ CopyIsCurrent /\ StoreIsCurrent /\ KeysKept)'
<1> DEFINE k == [kid |-> generated + 1, status |-> "active"]
<1>1. /\ TypeOK /\ AtWork /\ OneSaver /\ CopyIsCurrent /\ StoreIsCurrent /\ KeysKept
      /\ stored \in Seq(Key) /\ keys \in [Replicas -> Seq(Key)] /\ up \in [Replicas -> BOOLEAN]
      /\ outcome \in [Replicas -> {"none", "saved", "failed"}]
  BY DEF StoreInv, TypeOK
<1>2. k \in Key
  BY <1>1, NextKeyType DEF Status
<1>3. /\ ~up[r] /\ durable' = durable /\ stored' = stored /\ pc' = pc /\ copy' = copy
      /\ up' = [up EXCEPT ![r] = TRUE]
      /\ keys' = [keys EXCEPT ![r] = <<k>> \o stored]
      /\ outcome' = [outcome EXCEPT ![r] = "none"]
  BY DEF Start, New, Import
<1>4. Tail(<<k>> \o stored) = stored /\ KIDs(stored) \subseteq KIDs(<<k>> \o stored)
  BY <1>1, <1>2, Prepended, KIDsMutations
<1> HIDE DEF k
<1>5. \A c \in Callers : pc[c] # "idle" => Home[c] # r /\ keys'[Home[c]] = keys[Home[c]]
  BY <1>1, <1>3, HomeType DEF AtWork
<1>6. AtWork' /\ OneSaver'
  BY <1>1, <1>3, HomeType DEF AtWork, OneSaver
<1>7. CopyIsCurrent'
  BY <1>1, <1>3, <1>5 DEF CopyIsCurrent, CallersOf
<1>8. StoreIsCurrent'
  BY <1>1, <1>3, <1>4 DEF StoreIsCurrent, Quiet, CallersOf
<1>9. KeysKept'
  BY <1>1, <1>3, <1>4, <1>5 DEF KeysKept
<1>10. QED
  BY <1>6, <1>7, <1>8, <1>9

LEMMA StoreCrash ==
    ASSUME StoreInv, Alone, NEW r \in Replicas, Crash(r)
    PROVE  (AtWork /\ OneSaver /\ CopyIsCurrent /\ StoreIsCurrent /\ KeysKept)'
<1>1. \A q \in Replicas : q = r
  BY DEF Alone
<1>2. \A c \in Callers : pc'[c] = "idle"
  BY <1>1, HomeType DEF Crash
<1>3. \A q \in Replicas : ~up'[q]
  BY <1>1 DEF Crash, StoreInv, TypeOK
<1>4. QED
  BY <1>2, <1>3 DEF AtWork, OneSaver, CopyIsCurrent, StoreIsCurrent, KeysKept

LEMMA StoreMutate ==
    ASSUME StoreInv, Alone, NEW c \in Callers, NEW ks \in Seq(Key), Mutate(c, ks),
           KIDs(keys[Home[c]]) \subseteq KIDs(ks)
    PROVE  (AtWork /\ OneSaver /\ CopyIsCurrent /\ StoreIsCurrent /\ KeysKept)'
<1>1. /\ TypeOK /\ AtWork /\ OneSaver /\ CopyIsCurrent /\ StoreIsCurrent /\ KeysKept
      /\ keys \in [Replicas -> Seq(Key)] /\ pc \in [Callers -> {"idle", "notify", "save"}]
      /\ durable \in BOOLEAN
  BY DEF StoreInv, TypeOK
<1>2. /\ up[Home[c]] /\ pc[c] = "idle"
      /\ durable' = durable /\ stored' = stored /\ up' = up /\ copy' = copy /\ outcome' = outcome
      /\ keys' = [keys EXCEPT ![Home[c]] = ks]
      /\ pc' = [pc EXCEPT ![c] = IF durable THEN "notify" ELSE "idle"]
  BY DEF Mutate
<1>3. \A q \in Replicas : q = Home[c]
  BY HomeType DEF Alone
<1>4. \A d \in Callers : (pc'[d] = "save" <=> pc[d] = "save") /\ (d # c => pc'[d] = pc[d])
  BY <1>1, <1>2
<1>5. durable => pc'[c] = "notify"
  BY <1>1, <1>2
<1>6. AtWork' /\ OneSaver'
  BY <1>1, <1>2, <1>4, HomeType DEF AtWork, OneSaver
<1>7. CopyIsCurrent'
  <2> SUFFICES ASSUME NEW d \in Callers, pc'[d] = "save" PROVE c \in CallersOf(Home[d]) /\ pc'[c] = "notify"
    BY DEF CopyIsCurrent, CallersOf
  <2>1. durable
    BY <1>1, <1>4 DEF AtWork
  <2>2. QED
    BY <1>3, <1>5, <2>1, HomeType DEF CallersOf
<1>8. StoreIsCurrent'
  <2> SUFFICES ASSUME NEW q \in Replicas, durable PROVE c \in CallersOf(q) /\ pc'[c] # "idle"
    BY <1>2 DEF StoreIsCurrent, Quiet, CallersOf
  <2>1. QED
    BY <1>3, <1>5 DEF CallersOf
<1>9. KeysKept'
  <2>1. \A q \in Replicas : KIDs(keys[q]) \subseteq KIDs(keys'[q])
    BY <1>1, <1>2
  <2>2. QED
    BY <1>1, <1>2, <1>4, <2>1, HomeType DEF KeysKept
<1>10. QED
  BY <1>6, <1>7, <1>8, <1>9

LEMMA StoreExport ==
    ASSUME StoreInv, NEW c \in Callers, Export(c)
    PROVE  (AtWork /\ OneSaver /\ CopyIsCurrent /\ StoreIsCurrent /\ KeysKept)'
<1>1. /\ TypeOK /\ AtWork /\ OneSaver /\ CopyIsCurrent /\ StoreIsCurrent /\ KeysKept
      /\ copy \in [Callers -> Seq(Key)] /\ pc \in [Callers -> {"idle", "notify", "save"}]
  BY DEF StoreInv, TypeOK
<1>2. /\ pc[c] = "notify"
      /\ \A d \in CallersOf(Home[c]) : pc[d] # "save"
      /\ durable' = durable /\ stored' = stored /\ up' = up /\ keys' = keys /\ outcome' = outcome
      /\ pc' = [pc EXCEPT ![c] = "save"]
      /\ copy' = [copy EXCEPT ![c] = keys[Home[c]]]
  BY DEF Export
<1>3. AtWork' /\ OneSaver'
  BY <1>1, <1>2 DEF AtWork, OneSaver, CallersOf
<1>4. CopyIsCurrent'
  <2> SUFFICES ASSUME NEW d \in Callers, pc'[d] = "save", d # c,
                      \A e \in CallersOf(Home[d]) : pc'[e] # "notify"
               PROVE  copy'[d] = keys'[Home[d]]
    BY <1>1, <1>2 DEF CopyIsCurrent, CallersOf
  <2>1. pc[d] = "save" /\ Home[d] # Home[c]
    BY <1>1, <1>2 DEF CallersOf
  <2>2. \A e \in CallersOf(Home[d]) : pc[e] # "notify"
    BY <1>1, <1>2, <2>1 DEF CallersOf
  <2>3. QED
    BY <1>1, <1>2, <2>1, <2>2 DEF CopyIsCurrent
<1>5. StoreIsCurrent'
  <2>1. \A q \in Replicas : Quiet(q)' => Quiet(q)
    BY <1>1, <1>2 DEF Quiet, CallersOf
  <2>2. QED
    BY <1>1, <1>2, <2>1 DEF StoreIsCurrent
<1>6. KeysKept'
  <2>1. up[Home[c]]
    BY <1>1, <1>2 DEF AtWork
  <2>2. QED
    BY <1>1, <1>2, <2>1, HomeType DEF KeysKept
<1>7. QED
  BY <1>3, <1>4, <1>5, <1>6

(* A save lands, or fails and lands or not. *)
LEMMA StoreReturn ==
    ASSUME StoreInv, Alone, NEW c \in Callers, NEW res \in {"saved", "failed"}, Return(c, res),
           stored' \in {stored, copy[c]}, res = "saved" => stored' = copy[c]
    PROVE  (AtWork /\ OneSaver /\ CopyIsCurrent /\ StoreIsCurrent /\ KeysKept)'
<1>1. /\ TypeOK /\ AtWork /\ OneSaver /\ CopyIsCurrent /\ StoreIsCurrent /\ KeysKept
      /\ copy \in [Callers -> Seq(Key)] /\ pc \in [Callers -> {"idle", "notify", "save"}]
      /\ outcome \in [Replicas -> {"none", "saved", "failed"}]
  BY DEF StoreInv, TypeOK
<1>2. /\ pc[c] = "save"
      /\ durable' = durable /\ up' = up /\ keys' = keys
      /\ pc' = [pc EXCEPT ![c] = "idle"]
      /\ copy' = [copy EXCEPT ![c] = <<>>]
      /\ outcome' = [outcome EXCEPT ![Home[c]] = res]
  BY DEF Return
<1>3. \A d \in Callers : Home[d] = Home[c] /\ Home[d] \in Replicas
  BY HomeType DEF Alone
<1>4. \A d \in Callers : pc'[d] # "save"
  BY <1>1, <1>2, <1>3 DEF OneSaver
<1>5. AtWork' /\ OneSaver'
  BY <1>1, <1>2, <1>4 DEF AtWork, OneSaver
<1>6. CopyIsCurrent'
  BY <1>4 DEF CopyIsCurrent
<1>7. StoreIsCurrent'
  <2> SUFFICES ASSUME NEW q \in Replicas, Quiet(q)', outcome'[q] # "failed"
               PROVE  outcome'[q] = "saved" /\ stored' = keys'[q]
    BY DEF StoreIsCurrent
  <2>1. q = Home[c] /\ res = "saved" /\ outcome'[q] = "saved"
    BY <1>1, <1>2, <1>3 DEF Alone
  <2>2. \A d \in CallersOf(Home[c]) : pc[d] # "notify"
    BY <1>1, <1>2, <2>1 DEF Quiet, CallersOf
  <2>3. copy[c] = keys[q]
    BY <1>1, <1>2, <2>1, <2>2 DEF CopyIsCurrent
  <2>4. QED
    BY <1>2, <2>1, <2>3
<1>8. KeysKept'
  <2>1. \A r \in Replicas : up[r] => KIDs(stored') \subseteq KIDs(keys[r])
    <3> SUFFICES ASSUME NEW r \in Replicas, up[r] PROVE KIDs(stored') \subseteq KIDs(keys[r])
      OBVIOUS
    <3>1. r = Home[c]
      BY <1>3 DEF Alone
    <3>2. QED
      BY <1>1, <1>2, <3>1 DEF KeysKept
  <2>2. QED
    BY <1>2, <1>4, <2>1 DEF KeysKept
<1>9. QED
  BY <1>5, <1>6, <1>7, <1>8

LEMMA StoreStep ==
    ASSUME Alone
    PROVE  StoreInv /\ [Next]_vars => StoreInv'
<1> SUFFICES ASSUME StoreInv, [Next]_vars PROVE StoreInv'
  OBVIOUS
<1> DEFINE Rest == AtWork /\ OneSaver /\ CopyIsCurrent /\ StoreIsCurrent /\ KeysKept
<1>1. TypeOK /\ Rest
  BY DEF StoreInv
<1>2. TypeOK'
  BY <1>1, TypeStep
<1>3. ASSUME NEW r \in Replicas, Start(r) \/ Crash(r) PROVE Rest'
  BY <1>3, StoreStart, StoreCrash
<1>4. ASSUME NEW c \in Callers PROVE keys[Home[c]] \in Seq(Key)
  BY <1>1, HomeType DEF TypeOK
<1>5. ASSUME NEW c \in Callers, Announce(c) PROVE Rest'
  <2>1. [kid |-> generated + 1, status |-> "announced"] \in Key
    BY <1>1, NextKeyType DEF Status
  <2>2. Mutate(c, Append(keys[Home[c]], [kid |-> generated + 1, status |-> "announced"]))
    BY <1>5 DEF Announce
  <2>3. QED
    BY <1>1, <1>4, <2>1, <2>2, MutationTypes, KIDsMutations, StoreMutate
<1>6. [kid |-> 1, status |-> "active"] \in Key
  BY DEF Key, KID, Status
<1>7. ASSUME NEW c \in Callers, NEW kid, Promote(c, kid) PROVE Rest'
  <2>1. Mutate(c, SetStatus(Demote(keys[Home[c]]), kid, "active"))
    BY <1>7 DEF Promote
  <2>2. QED
    BY <1>1, <1>4, <1>6, <2>1, MutationTypes, KIDsMutations, StoreMutate
<1>8. ASSUME NEW c \in Callers, NEW kid, Retire(c, kid) PROVE Rest'
  <2>1. Mutate(c, SetStatus(keys[Home[c]], kid, "retired"))
    BY <1>8 DEF Retire
  <2>2. QED
    BY <1>1, <1>4, <1>6, <2>1, MutationTypes, KIDsMutations, StoreMutate
<1>9. ASSUME NEW c \in Callers, Export(c) PROVE Rest'
  BY <1>9, StoreExport
<1>10. ASSUME NEW c \in Callers, Save(c) PROVE Rest'
  BY <1>10, StoreReturn DEF Save
<1>11. ASSUME NEW c \in Callers, SaveError(c) PROVE Rest'
  <2>1. stored' \in Torn({c}) /\ Return(c, "failed")
    BY <1>11 DEF SaveError
  <2>2. Torn({c}) \subseteq {stored, copy[c]}
    BY DEF Torn
  <2>3. QED
    BY <2>1, <2>2, StoreReturn
<1>12. ASSUME UNCHANGED vars PROVE Rest'
  BY <1>1, <1>12 DEF vars, AtWork, OneSaver, CopyIsCurrent, StoreIsCurrent, Quiet, KeysKept
<1>13. Rest'
  BY <1>3, <1>5, <1>7, <1>8, <1>9, <1>10, <1>11, <1>12 DEF Next, Notify
<1>14. QED
  BY <1>2, <1>13 DEF StoreInv

(* "two concurrent mutations cannot race their persists" (persist.go): a   *)
(* quiet replica's key set is what its store holds, unless its last save   *)
(* failed.  For one replica, any number of callers.                        *)
THEOREM SavesDoNotRace ==
    ASSUME Alone
    PROVE  Spec => []StoreIsCurrent
<1>1. StoreInv => StoreIsCurrent
  BY DEF StoreInv
<1>2. StoreInv /\ [Next]_vars => StoreInv'
  BY StoreStep
<1>3. QED
  BY <1>1, <1>2, StoreInit, PTL DEF Spec

LEMMA KeptStep ==
    ASSUME StoreInv, [Next]_vars
    PROVE  KIDs(stored) \subseteq KIDs(stored')
<1>1. \A c \in Callers : pc[c] = "save" => KIDs(stored) \subseteq KIDs(copy[c])
  BY DEF StoreInv, KeysKept
<1>2. ASSUME NEW cs \in SUBSET Callers, stored' \in Torn(cs) PROVE KIDs(stored) \subseteq KIDs(stored')
  BY <1>1, <1>2 DEF Torn
<1>3. ASSUME NEW r \in Replicas, Crash(r) PROVE KIDs(stored) \subseteq KIDs(stored')
  BY <1>2, <1>3 DEF Crash, CallersOf
<1>4. ASSUME NEW c \in Callers, Save(c) PROVE KIDs(stored) \subseteq KIDs(stored')
  BY <1>1, <1>4 DEF Save, Return
<1>5. ASSUME NEW c \in Callers, SaveError(c) PROVE KIDs(stored) \subseteq KIDs(stored')
  <2>1. {c} \in SUBSET Callers /\ stored' \in Torn({c})
    BY <1>5 DEF SaveError
  <2>2. QED
    BY <1>2, <2>1
<1>6. ASSUME NEW r \in Replicas, Start(r) PROVE stored' = stored
  BY <1>6 DEF Start, New, Import
<1>7. ASSUME NEW c \in Callers, NEW kid, Announce(c) \/ Promote(c, kid) \/ Retire(c, kid) \/ Export(c)
      PROVE  stored' = stored
  BY <1>7 DEF Announce, Promote, Retire, Export, Mutate
<1>8. ASSUME UNCHANGED vars PROVE stored' = stored
  BY <1>8 DEF vars
<1>9. QED
  BY <1>3, <1>4, <1>5, <1>6, <1>7, <1>8 DEF Next, Notify

(* Canary keys survive (KI-09): with one replica, no save, failed save,    *)
(* crash or restart ever takes a key out of the store.                     *)
THEOREM KeysAreKept ==
    ASSUME Alone
    PROVE  Spec => KeysNeverDropped
<1>1. StoreInv /\ [Next]_vars => StoreInv'
  BY StoreStep
<1>2. StoreInv /\ [Next]_vars => [KIDs(stored) \subseteq KIDs(stored')]_vars
  BY KeptStep
<1>3. QED
  BY <1>1, <1>2, StoreInit, PTL DEF Spec, KeysNeverDropped
=============================================================================
