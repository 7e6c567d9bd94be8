------------------------ MODULE ParliaSnapshotProofs ------------------------
(***************************************************************************)
(* The Parlia snapshot for every number of validators, every epoch length  *)
(* and every set of turn lengths the contract may announce.                *)
(***************************************************************************)
EXTENDS ParliaSnapshot, FiniteSetTheorems, WellFoundedInduction, TLAPS

(* Division by the epoch length: quotient and remainder.                   *)
LEMMA DivMod ==
    ASSUME NEW n \in Nat
    PROVE  /\ n \div Epoch \in Nat /\ n % Epoch \in 0 .. Epoch - 1
           /\ n = (n \div Epoch) * Epoch + (n % Epoch)
<1>0. Epoch \in Nat \ {0}
  BY SnapshotAssumption
<1>1. n % Epoch \in 0 .. Epoch - 1
  BY <1>0
<1>2. n \div Epoch \in Int
  BY <1>0
<1>3. n = (n \div Epoch) * Epoch + (n % Epoch)
  BY <1>0
<1>4. n \div Epoch >= 0
  BY <1>0, <1>1, <1>2, <1>3
<1> QED BY <1>1, <1>2, <1>3, <1>4

(* They are determined by the equation.                                    *)
LEMMA DivModUnique ==
    ASSUME NEW n \in Nat, NEW q \in Nat, NEW r \in 0 .. Epoch - 1, n = q * Epoch + r
    PROVE  n \div Epoch = q /\ n % Epoch = r
BY SnapshotAssumption

(* The next block is the next of its epoch, or the first of a new one.     *)
LEMMA NextBlock ==
    ASSUME NEW n \in Nat
    PROVE  \/ /\ (n + 1) % Epoch = 0 /\ n % Epoch = Epoch - 1
              /\ (n + 1) \div Epoch = (n \div Epoch) + 1
              /\ n + 1 = ((n + 1) \div Epoch) * Epoch
           \/ /\ (n + 1) % Epoch = (n % Epoch) + 1 /\ (n + 1) % Epoch # 0
              /\ (n + 1) \div Epoch = n \div Epoch
<1> DEFINE q == n \div Epoch
           r == n % Epoch
<1>0. Epoch \in Nat \ {0}
  BY SnapshotAssumption
<1>1. q \in Nat /\ r \in 0 .. Epoch - 1 /\ n = q * Epoch + r
  BY DivMod
<1> HIDE DEF q, r
<1>2. CASE r = Epoch - 1
  <2>1. n + 1 = (q + 1) * Epoch + 0
    BY <1>0, <1>1, <1>2
  <2>2. (n + 1) \div Epoch = q + 1 /\ (n + 1) % Epoch = 0
    BY <1>0, <1>1, <2>1, DivModUnique
  <2> QED BY <1>0, <1>1, <1>2, <2>1, <2>2 DEF q, r
<1>3. CASE r # Epoch - 1
  <2>1. n + 1 = q * Epoch + (r + 1) /\ r + 1 \in 0 .. Epoch - 1
    BY <1>0, <1>1, <1>3
  <2>2. (n + 1) \div Epoch = q /\ (n + 1) % Epoch = r + 1
    BY <1>0, <1>1, <2>1, DivModUnique
  <2> QED BY <1>0, <1>1, <1>3, <2>1, <2>2 DEF q, r
<1> QED BY <1>2, <1>3

-----------------------------------------------------------------------------
(* Any family of subsets of a finite set has a minimal member.             *)
LEMMA MinimalSubset ==
    ASSUME NEW S, IsFiniteSet(S), NEW F \in SUBSET SUBSET S, F # {}
    PROVE  \E m \in F : \A U \in F : U \subseteq m => U = m
<1> DEFINE R == StrictSubsetOrdering(S)
<1>1. IsWellFoundedOn(R, FiniteSubsetsOf(S))
  BY FS_StrictSubsetOrderingWellFounded
<1>2. FiniteSubsetsOf(S) = SUBSET S
  BY FS_FiniteSubsetsOfFinite
<1>3. PICK m \in F : \A k \in F : ~ (<<k, m>> \in R)
  <2> HIDE DEF R
  <2> QED BY <1>1, <1>2, WFMin
<1>4. ASSUME NEW U \in F, U \subseteq m PROVE U = m
  BY <1>3, <1>4, Zenon DEF StrictSubsetOrdering
<1> QED BY <1>4

(* The entries of R signed by a member of U.                               *)
By(R, U) == {r \in R : r[2] \in U}

(* If each of a set of signers has signed t blocks of a window, the window *)
(* has at least t blocks for each of them.                                 *)
LEMMA SignersCounted ==
    ASSUME NEW R, IsFiniteSet(R), NEW S, IsFiniteSet(S), NEW t \in Nat,
           \A v \in S : Cardinality(By(R, {v})) >= t
    PROVE  Cardinality(S) * t <= Cardinality(R)
<1> DEFINE Short(U) == Cardinality(By(R, U)) < Cardinality(U) * t
           F == {U \in SUBSET S : Short(U)}
<1>0. ASSUME NEW U \in SUBSET S
      PROVE  /\ IsFiniteSet(By(R, U)) /\ IsFiniteSet(U)
             /\ Cardinality(By(R, U)) \in Nat /\ Cardinality(U) \in Nat
             /\ Cardinality(By(R, U)) <= Cardinality(R)
  <2>1. By(R, U) \in SUBSET R
    BY DEF By
  <2> QED BY <2>1, FS_Subset, FS_CardinalityType
<1>1. F = {}
  <2> SUFFICES ASSUME F # {} PROVE FALSE
    OBVIOUS
  <2>1. F \in SUBSET SUBSET S
    OBVIOUS
  <2>2. PICK m \in F : \A U \in F : U \subseteq m => U = m
    <3> HIDE DEF F
    <3> QED BY <2>1, MinimalSubset
  <2>3. m \in SUBSET S /\ Cardinality(By(R, m)) < Cardinality(m) * t
    OBVIOUS
  <2>4. \A U \in SUBSET S : Short(U) => U \in F
    OBVIOUS
  <2> HIDE DEF F, Short
  <2>5. m # {}
    <3>1. Cardinality({}) * t = 0
      BY FS_EmptySet
    <3>2. Cardinality(By(R, m)) \in Nat
      BY <1>0, <2>3
    <3> QED BY <2>3, <3>1, <3>2
  <2>6. PICK v \in m : TRUE
    BY <2>5
  <2> DEFINE U == m \ {v}
  <2>7. U \in SUBSET S /\ U # m /\ U \subseteq m
    BY <2>3, <2>6
  <2>8. ~ Short(U)
    BY <2>2, <2>7, <2>4
  <2>9. Cardinality(m) = Cardinality(U) + 1 /\ Cardinality(U) \in Nat
    <3>1. IsFiniteSet(m) /\ Cardinality(m) \in Nat
      BY <1>0, <2>3
    <3>2. Cardinality(U) \in Nat
      BY <1>0, <2>7
    <3>3. Cardinality(m \ {v}) = Cardinality(m) - 1
      BY <2>6, <3>1, FS_RemoveElement, Zenon
    <3> QED BY <3>1, <3>2, <3>3
  <2>10. Cardinality(By(R, m)) = Cardinality(By(R, U)) + Cardinality(By(R, {v}))
    <3>1. By(R, m) = By(R, U) \cup By(R, {v}) /\ By(R, U) \cap By(R, {v}) = {}
      BY DEF By
    <3>2. {v} \in SUBSET S
      BY <2>3
    <3>3. Cardinality(By(R, U) \cap By(R, {v})) = 0
      BY <3>1, FS_EmptySet, Zenon
    <3>4. /\ IsFiniteSet(By(R, U)) /\ IsFiniteSet(By(R, {v}))
          /\ Cardinality(By(R, U)) \in Nat /\ Cardinality(By(R, {v})) \in Nat
      BY <1>0, <2>7, <3>2
    <3> HIDE DEF U
    <3>5. Cardinality(By(R, U) \cup By(R, {v}))
              = Cardinality(By(R, U)) + Cardinality(By(R, {v})) - Cardinality(By(R, U) \cap By(R, {v}))
      BY <3>4, FS_Union, Zenon
    <3> QED BY <3>1, <3>3, <3>4, <3>5
  <2>11. Cardinality(By(R, {v})) >= t /\ Cardinality(By(R, {v})) \in Nat
    BY <1>0, <2>3
  <2>12. Cardinality(By(R, U)) >= Cardinality(U) * t /\ Cardinality(By(R, U)) \in Nat
    BY <1>0, <2>7, <2>8, <2>9 DEF Short
  <2>13. Cardinality(m) * t = Cardinality(U) * t + t
    BY <2>9
  <2>14. Cardinality(U) * t \in Nat
    BY <2>9
  <2> HIDE DEF U
  <2> QED BY <2>3, <2>10, <2>11, <2>12, <2>13, <2>14
<1>2. ~ Short(S)
  BY <1>1
<1>3. Cardinality(S) * t \in Nat /\ Cardinality(R) \in Nat
  BY FS_CardinalityType
<1> QED BY <1>0, <1>2, <1>3

-----------------------------------------------------------------------------
(* The headers a chain is made of, and the snapshots along it.             *)
Header == [signer : Validator \cup {"genesis"}, validators : SUBSET Validator, turnLength : Nat]

Snapshot ==
    [Number : Nat, TurnLength : TurnLengths \cup {defaultTurnLength}, Validators : Announced,
     Recents : SUBSET (Nat \X Validator), epochKey : SUBSET Nat, RecentForkHashes : SUBSET Nat]

(* A header that carries what the contract announced.                      *)
EpochHeader(h) == h.validators \in Announced /\ h.turnLength \in TurnLengths

(* The chain and the snapshots along it; every epoch starts with a header  *)
(* that carries what the contract announced.                               *)
ChainInv ==
    /\ chain \in Seq(Header) /\ snaps \in Seq(Snapshot)
    /\ Len(snaps) = Len(chain) /\ Len(chain) > 0
    /\ Snap.Number = Top
    /\ \A e \in Nat : e * Epoch <= Top => EpochHeader(chain[e * Epoch + 1])

(* What one application of apply does to a snapshot, written out: the      *)
(* recent signers with the oldest gone and v recorded, ...                 *)
Recorded(s, number, v) ==
    {r \in s.Recents : r[1] # number - (minerHistoryCheckLen(s) + 1)} \cup {<<number, v>>}

(* ... the condition under which the validator set is switched, ...        *)
SwitchNow(s, number) ==
    /\ number % Epoch = minerHistoryCheckLen(s)
    /\ IsBohr(number) => number \div Epoch \notin s.epochKey

(* ... the recent signers a smaller set still checks, ...                  *)
Trimmed(recents, number, oldVals, newVals) ==
    {r \in recents : r[1] \notin number - (Cardinality(oldVals) \div 2 + 1) + 1
                                 .. number - (Cardinality(newVals) \div 2 + 1)}

(* ... and the set, turn length, marker and history after a switch.        *)
Applied(s, u, headers, number, v) ==
    LET first == number - minerHistoryCheckLen(s)
        newVals == headers[first + 1].validators
    IN /\ u.Number = number
       /\ u.RecentForkHashes \in SUBSET (s.RecentForkHashes \cup {number})
       /\ ~SwitchNow(s, number) =>
             /\ u.Validators = s.Validators /\ u.TurnLength = s.TurnLength
             /\ u.epochKey = s.epochKey /\ u.Recents = Recorded(s, number, v)
       /\ SwitchNow(s, number) =>
             /\ u.Validators = newVals
             /\ u.TurnLength = parseTurnLength(headers, first, s.TurnLength)
             /\ u.epochKey = IF IsBohr(number) THEN {number \div Epoch} ELSE s.epochKey
             /\ u.Recents = IF IsBohr(number) THEN {}
                            ELSE Trimmed(Recorded(s, number, v), number, s.Validators, newVals)

(* u has the fields of a snapshot and no other.                            *)
IsSnapshot(u) ==
    u = [Number |-> u.Number, TurnLength |-> u.TurnLength, Validators |-> u.Validators,
         Recents |-> u.Recents, epochKey |-> u.epochKey, RecentForkHashes |-> u.RecentForkHashes]

(* The fields after each of the steps of apply.                            *)
LEMMA ForgetFields ==
    ASSUME NEW s, IsSnapshot(s), NEW number
    PROVE  LET f == ForgetOldest(s, number)
           IN /\ IsSnapshot(f) /\ f.Number = s.Number /\ f.TurnLength = s.TurnLength
              /\ f.Validators = s.Validators /\ f.epochKey = s.epochKey
              /\ f.Recents = {r \in s.Recents : r[1] # number - (minerHistoryCheckLen(s) + 1)}
              /\ f.RecentForkHashes = s.RecentForkHashes \ {number - versionHistoryCheckLen(s)}
<1> DEFINE R == {r \in s.Recents : r[1] # number - (minerHistoryCheckLen(s) + 1)}
           H == s.RecentForkHashes \ {number - versionHistoryCheckLen(s)}
<1>1. ForgetOldest(s, number) = [s EXCEPT !.Recents = R, !.RecentForkHashes = H]
  BY DEF ForgetOldest
<1> HIDE DEF R, H
<1>2. ForgetOldest(s, number) = [Number |-> s.Number, TurnLength |-> s.TurnLength, Validators |-> s.Validators,
                                 Recents |-> R, epochKey |-> s.epochKey, RecentForkHashes |-> H]
  BY <1>1, Zenon DEF IsSnapshot
<1> QED BY <1>2 DEF IsSnapshot, R, H

(* Record adds the signer to both histories and leaves the rest alone.     *)
LEMMA RecordFields ==
    ASSUME NEW s, IsSnapshot(s), NEW number, NEW v
    PROVE  LET f == Record(s, number, v)
           IN /\ IsSnapshot(f) /\ f.Number = s.Number /\ f.TurnLength = s.TurnLength
              /\ f.Validators = s.Validators /\ f.epochKey = s.epochKey
              /\ f.Recents = s.Recents \cup {<<number, v>>}
              /\ f.RecentForkHashes = s.RecentForkHashes \cup {number}
<1> DEFINE R == s.Recents \cup {<<number, v>>}
           H == s.RecentForkHashes \cup {number}
<1>1. Record(s, number, v) = [s EXCEPT !.Recents = R, !.RecentForkHashes = H]
  BY DEF Record
<1> HIDE DEF R, H
<1>2. Record(s, number, v) = [Number |-> s.Number, TurnLength |-> s.TurnLength, Validators |-> s.Validators,
                              Recents |-> R, epochKey |-> s.epochKey, RecentForkHashes |-> H]
  BY <1>1, Zenon DEF IsSnapshot
<1> QED BY <1>2 DEF IsSnapshot, R, H

(* f is s with the set of the epoch header in force.                       *)
SwitchedTo(s, f, headers, number) ==
    LET first == number - minerHistoryCheckLen(s)
        newVals == headers[first + 1].validators
        t == parseTurnLength(headers, first, s.TurnLength)
    IN /\ IsSnapshot(f) /\ f.Number = s.Number /\ f.TurnLength = t /\ f.Validators = newVals
       /\ f.epochKey = IF IsBohr(number) THEN {number \div Epoch} ELSE s.epochKey
       /\ f.Recents = IF IsBohr(number) THEN {} ELSE Trimmed(s.Recents, number, s.Validators, newVals)
       /\ f.RecentForkHashes = s.RecentForkHashes \
             (number - versionHistoryCheckLen(s) + 1 .. number - Cardinality(newVals) * t)

(* Switch puts the set of the epoch header in force.                       *)
LEMMA SwitchFields ==
    ASSUME NEW s, IsSnapshot(s), NEW headers, NEW number
    PROVE  SwitchedTo(s, Switch(s, headers, number), headers, number)
<1> DEFINE first == number - minerHistoryCheckLen(s)
           newVals == headers[first + 1].validators
           t == parseTurnLength(headers, first, s.TurnLength)
           K == IF IsBohr(number) THEN {number \div Epoch} ELSE s.epochKey
           R == IF IsBohr(number) THEN {} ELSE Trimmed(s.Recents, number, s.Validators, newVals)
           H == s.RecentForkHashes \
                    (number - versionHistoryCheckLen(s) + 1 .. number - Cardinality(newVals) * t)
<1>1. Switch(s, headers, number) = [s EXCEPT !.TurnLength = t, !.Validators = newVals, !.Recents = R,
                                             !.epochKey = K, !.RecentForkHashes = H]
  BY DEF Switch, Trimmed
<1> HIDE DEF first, newVals, t, K, R, H
<1>2. Switch(s, headers, number) = [Number |-> s.Number, TurnLength |-> t, Validators |-> newVals,
                                    Recents |-> R, epochKey |-> K, RecentForkHashes |-> H]
  BY <1>1, Zenon DEF IsSnapshot
<1> QED BY <1>2 DEF SwitchedTo, IsSnapshot, first, newVals, t, K, R, H

(* apply of one header is what Applied says.                               *)
LEMMA ApplyHeaderEffect ==
    ASSUME NEW s \in Snapshot, NEW headers, NEW number \in Nat \ {0},
           NEW u \in applyHeader(s, headers, number)
    PROVE  /\ IsSnapshot([u EXCEPT !.Number = number])
           /\ Applied(s, [u EXCEPT !.Number = number], headers, number, headers[number + 1].signer)
<1> DEFINE v == headers[number + 1].signer
           older == ForgetOldest(s, number)
           recorded == Record(older, number, v)
           w == [u EXCEPT !.Number = number]
<1>1. IsSnapshot(s)
  BY DEF Snapshot, IsSnapshot
<1>2. /\ IsSnapshot(recorded) /\ recorded.TurnLength = s.TurnLength /\ recorded.Validators = s.Validators
      /\ recorded.epochKey = s.epochKey /\ recorded.Recents = Recorded(s, number, v)
      /\ recorded.RecentForkHashes \in SUBSET (s.RecentForkHashes \cup {number})
  <2>1. /\ IsSnapshot(older) /\ older.TurnLength = s.TurnLength /\ older.Validators = s.Validators
        /\ older.epochKey = s.epochKey
        /\ older.Recents = {r \in s.Recents : r[1] # number - (minerHistoryCheckLen(s) + 1)}
        /\ older.RecentForkHashes \in SUBSET s.RecentForkHashes
    BY <1>1, ForgetFields
  <2> HIDE DEF older, v
  <2> QED BY <2>1, RecordFields DEF Recorded
<1>3. minerHistoryCheckLen(recorded) = minerHistoryCheckLen(s) /\ (Switches(recorded, number) <=> SwitchNow(s, number))
  BY <1>2 DEF minerHistoryCheckLen, Switches, SwitchNow
<1>4. /\ ~SwitchNow(s, number) => u = recorded
      /\ SwitchNow(s, number) => u = Switch(recorded, headers, number)
  BY <1>3 DEF applyHeader
<1>5. ASSUME IsSnapshot(u)
      PROVE  /\ IsSnapshot(w) /\ w.Number = number /\ w.TurnLength = u.TurnLength
             /\ w.Validators = u.Validators /\ w.Recents = u.Recents /\ w.epochKey = u.epochKey
             /\ w.RecentForkHashes = u.RecentForkHashes
  <2>1. w = [Number |-> number, TurnLength |-> u.TurnLength, Validators |-> u.Validators,
             Recents |-> u.Recents, epochKey |-> u.epochKey, RecentForkHashes |-> u.RecentForkHashes]
    BY <1>5 DEF IsSnapshot
  <2> QED BY <2>1 DEF IsSnapshot
<1> HIDE DEF recorded, older, w, v
<1>6. CASE ~SwitchNow(s, number)
  BY <1>2, <1>4, <1>5, <1>6 DEF Applied, v, w
<1>7. CASE SwitchNow(s, number)
  <2> DEFINE first == number - minerHistoryCheckLen(s)
             newVals == headers[first + 1].validators
  <2>1. /\ IsSnapshot(u) /\ u.TurnLength = parseTurnLength(headers, first, s.TurnLength) /\ u.Validators = newVals
        /\ u.epochKey = IF IsBohr(number) THEN {number \div Epoch} ELSE s.epochKey
        /\ u.Recents = IF IsBohr(number) THEN {}
                       ELSE Trimmed(Recorded(s, number, v), number, s.Validators, newVals)
        /\ u.RecentForkHashes \in SUBSET recorded.RecentForkHashes
    <3>1. u = Switch(recorded, headers, number)
      BY <1>4, <1>7
    <3>2. SwitchedTo(recorded, u, headers, number)
      BY <1>2, <3>1, SwitchFields
    <3> QED BY <1>2, <1>3, <3>2 DEF SwitchedTo
  <2> QED BY <1>2, <1>5, <1>7, <2>1 DEF Applied, v, w
<1> QED BY <1>6, <1>7

(* The history a snapshot checks fits in an epoch.                         *)
LEMMA HistoryLength ==
    ASSUME NEW s \in Snapshot
    PROVE  /\ s.Validators \subseteq Validator /\ IsFiniteSet(s.Validators) /\ s.TurnLength \in Nat \ {0}
           /\ Cardinality(s.Validators) \in Nat
           /\ minerHistoryCheckLen(s) = (Cardinality(s.Validators) \div 2 + 1) * s.TurnLength - 1
           /\ minerHistoryCheckLen(s) \in 0 .. Epoch - 1
<1>1. /\ s.Validators \in Announced /\ s.TurnLength \in TurnLengths \cup {defaultTurnLength}
  BY DEF Snapshot
<1>2. s.Validators \subseteq Validator /\ IsFiniteSet(s.Validators) /\ s.TurnLength \in Nat \ {0}
  <2>1. s.Validators \subseteq Validator /\ IsFiniteSet(s.Validators)
    BY <1>1, SnapshotAssumption
  <2>2. TurnLengths \subseteq Nat \ {0}
    BY SnapshotAssumption
  <2>3. s.TurnLength \in Nat \ {0}
    <3>1. s.TurnLength \in TurnLengths \/ s.TurnLength = 1
      BY <1>1 DEF defaultTurnLength
    <3>2. 1 \in Nat \ {0}
      OBVIOUS
    <3> QED BY <2>2, <3>1, <3>2, Zenon
  <2> QED BY <2>1, <2>3
<1>3. Cardinality(s.Validators) \in Nat
  BY <1>2, FS_CardinalityType
<1>4. CheckLen(Cardinality(s.Validators), s.TurnLength) < Epoch /\ Epoch \in Nat
  BY <1>1, SnapshotAssumption, Zenon
<1>5. Cardinality(s.Validators) \div 2 \in Nat
  BY <1>3
<1> DEFINE k == Cardinality(s.Validators) \div 2 + 1
<1>6. k \in Nat /\ k > 0
  BY <1>5
<1>7. CheckLen(Cardinality(s.Validators), s.TurnLength) = k * s.TurnLength - 1
  BY DEF CheckLen
<1> HIDE DEF k
<1>8. k * s.TurnLength \in Nat /\ k * s.TurnLength > 0
  <2> DEFINE t == s.TurnLength
  <2>1. t \in Nat /\ t > 0
    BY <1>2
  <2> HIDE DEF t
  <2>2. k * t \in Nat /\ k * t = (k - 1) * t + t /\ (k - 1) * t \in Nat
    BY <1>6, <2>1
  <2> QED BY <2>1, <2>2 DEF t
<1> QED BY <1>2, <1>3, <1>4, <1>7, <1>8 DEF minerHistoryCheckLen, CheckLen

(* What a sealed block changes.                                            *)
LEMMA SealEffect ==
    ASSUME ChainInv, NEW v \in Validator, NEW V \in SUBSET Validator, NEW t \in Nat, Seal(v, V, t)
    PROVE  /\ Top \in Nat /\ Snap \in Snapshot /\ Snap.Number = Top
           /\ chain' = Append(chain, [signer |-> v, validators |-> V, turnLength |-> t])
           /\ chain' \in Seq(Header) /\ Len(chain') = Len(chain) + 1
           /\ snaps' = Append(snaps, Snap') /\ Len(snaps') = Len(snaps) + 1 /\ Top' = Top + 1
           /\ \A i \in 1 .. Len(chain) : chain'[i] = chain[i] /\ snaps'[i] = snaps[i]
           /\ chain'[Top + 2] = [signer |-> v, validators |-> V, turnLength |-> t]
           /\ v \in Snap.Validators /\ ~SignRecently(Snap, v)
           /\ IsSnapshot(Snap') /\ Applied(Snap, Snap', chain', Top + 1, v)
<1> DEFINE hd == [signer |-> v, validators |-> V, turnLength |-> t]
<1>1. /\ chain \in Seq(Header) /\ snaps \in Seq(Snapshot) /\ Len(snaps) = Len(chain) /\ Len(chain) \in Nat \ {0}
      /\ Top = Len(chain) - 1 /\ Top \in Nat /\ Snap = snaps[Len(snaps)] /\ Snap.Number = Top
  BY DEF ChainInv, Top, Snap
<1>2. Snap \in Snapshot
  BY <1>1
<1>3. hd \in Header
  BY DEF Header
<1>4. /\ chain' = Append(chain, hd) /\ v \in Snap.Validators /\ ~SignRecently(Snap, v)
      /\ \E u \in applyHeader(Snap, chain', Top + 1) :
            snaps' = Append(snaps, [u EXCEPT !.Number = Top + 1])
  BY Zenon DEF Seal
<1>5. PICK u \in applyHeader(Snap, chain', Top + 1) : snaps' = Append(snaps, [u EXCEPT !.Number = Top + 1])
  BY <1>4, Zenon
<1> DEFINE w == [u EXCEPT !.Number = Top + 1]
<1> HIDE DEF hd, w
<1>6. /\ chain' \in Seq(Header) /\ Len(chain') = Len(chain) + 1
      /\ \A i \in 1 .. Len(chain) : chain'[i] = chain[i]
      /\ chain'[Len(chain) + 1] = hd
  BY <1>1, <1>3, <1>4
<1>7. /\ Len(snaps') = Len(snaps) + 1
      /\ \A i \in 1 .. Len(snaps) : snaps'[i] = snaps[i]
      /\ snaps'[Len(snaps) + 1] = w
  BY <1>1, <1>5 DEF w
<1>8. Snap' = w /\ Top' = Top + 1 /\ snaps' = Append(snaps, w)
  BY <1>1, <1>5, <1>6, <1>7 DEF Snap, Top, w
<1>9. chain'[Top + 2] = hd /\ chain'[(Top + 1) + 1].signer = v
  BY <1>1, <1>6 DEF hd
<1>10. Top + 1 \in Nat \ {0}
  BY <1>1
<1>11. IsSnapshot(w) /\ Applied(Snap, w, chain', Top + 1, v)
  BY <1>2, <1>5, <1>9, <1>10, ApplyHeaderEffect DEF w
<1> QED BY <1>1, <1>2, <1>4, <1>6, <1>7, <1>8, <1>9, <1>11 DEF hd

(* A block sealed as Next seals it: an epoch header carries the contract's *)
(* set and turn length.                                                    *)
SealedBy(v, V, t) ==
    /\ v \in Validator /\ V \in SUBSET Validator /\ t \in Nat
    /\ (Top + 1) % Epoch = 0 => V \in Announced /\ t \in TurnLengths
    /\ Seal(v, V, t)

(* Every step seals a block.                                               *)
LEMMA NextSeals ==
    ASSUME Next
    PROVE  \E v, V, t : SealedBy(v, V, t)
<1>1. CASE SealEpochBlock
  <2>1. PICK v \in Validator, V \in Announced, t \in TurnLengths : Seal(v, V, t)
    BY <1>1 DEF SealEpochBlock
  <2>2. V \in SUBSET Validator /\ t \in Nat
    BY SnapshotAssumption
  <2> QED BY <2>1, <2>2 DEF SealedBy
<1>2. CASE SealBlock
  <2>1. PICK v \in Validator : Seal(v, {}, 0)
    BY <1>2 DEF SealBlock
  <2>2. (Top + 1) % Epoch # 0
    BY <1>2 DEF SealBlock
  <2>3. {} \in SUBSET Validator /\ 0 \in Nat
    OBVIOUS
  <2> QED BY <2>1, <2>2, <2>3 DEF SealedBy
<1> QED BY <1>1, <1>2 DEF Next

(* Sealing keeps the epoch headers where they are, and adds one.           *)
LEMMA EpochHeaders ==
    ASSUME ChainInv, NEW v, NEW V, NEW t, SealedBy(v, V, t), NEW e \in Nat, e * Epoch <= Top + 1
    PROVE  /\ EpochHeader(chain'[e * Epoch + 1])
           /\ e * Epoch <= Top => chain'[e * Epoch + 1] = chain[e * Epoch + 1]
<1>0. v \in Validator /\ V \in SUBSET Validator /\ t \in Nat /\ Seal(v, V, t)
  BY DEF SealedBy
<1>1. /\ Top \in Nat /\ Top = Len(chain) - 1 /\ Len(chain) \in Nat
      /\ \A i \in 1 .. Len(chain) : chain'[i] = chain[i]
      /\ chain'[Top + 2] = [signer |-> v, validators |-> V, turnLength |-> t]
  <2>1. Top = Len(chain) - 1 /\ Len(chain) \in Nat
    BY DEF Top, ChainInv
  <2> QED BY <1>0, <2>1, SealEffect, Zenon
<1> DEFINE b == e * Epoch
<1>2. b \in Nat
  BY SnapshotAssumption
<1>3. b <= Top => EpochHeader(chain[b + 1])
  BY DEF ChainInv
<1>4. b = Top + 1 => V \in Announced /\ t \in TurnLengths
  <2> SUFFICES ASSUME b = Top + 1 PROVE (Top + 1) % Epoch = 0
    BY DEF SealedBy
  <2>1. Epoch \in Nat \ {0}
    BY SnapshotAssumption
  <2>2. Top + 1 = e * Epoch + 0 /\ 0 \in 0 .. Epoch - 1 /\ Top + 1 \in Nat
    BY <1>1, <2>1
  <2> QED BY <2>2, DivModUnique
<1> HIDE DEF b
<1>5. CASE b <= Top
  <2>1. b + 1 \in 1 .. Len(chain)
    BY <1>1, <1>2, <1>5
  <2> QED BY <1>1, <1>3, <1>5, <2>1 DEF b
<1>6. CASE b = Top + 1
  <2>1. b + 1 = Top + 2 /\ ~(b <= Top)
    BY <1>1, <1>6
  <2>2. EpochHeader(chain'[b + 1])
    BY <1>1, <1>4, <1>6, <2>1 DEF EpochHeader
  <2> QED BY <2>1, <2>2 DEF b
<1>7. b <= Top \/ b = Top + 1
  BY <1>1, <1>2 DEF b
<1> QED BY <1>5, <1>6, <1>7

(* The checkpoint of a switch is the header that began the epoch.          *)
LEMMA Checkpoint ==
    ASSUME NEW number \in Nat, NEW s \in Snapshot, number % Epoch = minerHistoryCheckLen(s)
    PROVE  /\ number - minerHistoryCheckLen(s) = (number \div Epoch) * Epoch
           /\ number \div Epoch \in Nat /\ (number \div Epoch) * Epoch \in Nat
           /\ (number \div Epoch) * Epoch <= number
<1>1. /\ number \div Epoch \in Nat /\ number % Epoch \in 0 .. Epoch - 1
      /\ number = (number \div Epoch) * Epoch + (number % Epoch)
  BY DivMod
<1>2. (number \div Epoch) * Epoch \in Nat /\ Epoch \in Nat
  BY <1>1, SnapshotAssumption
<1> QED BY <1>1, <1>2

(* A sealed block's snapshot is one, and the chain invariant is kept.      *)
LEMMA SealChain ==
    ASSUME ChainInv, NEW v, NEW V, NEW t, SealedBy(v, V, t)
    PROVE  Snap' \in Snapshot /\ ChainInv'
<1> DEFINE number == Top + 1
           L == minerHistoryCheckLen(Snap)
           first == number - L
<1>0. v \in Validator /\ V \in SUBSET Validator /\ t \in Nat /\ Seal(v, V, t)
  BY DEF SealedBy
<1>1. /\ Top \in Nat /\ Snap \in Snapshot /\ Snap.Number = Top
      /\ chain' \in Seq(Header) /\ Len(chain') = Len(chain) + 1
      /\ snaps' = Append(snaps, Snap') /\ Len(snaps') = Len(snaps) + 1 /\ Top' = Top + 1
      /\ IsSnapshot(Snap') /\ Applied(Snap, Snap', chain', Top + 1, v)
  BY <1>0, SealEffect, Zenon
<1>2. number \in Nat
  BY <1>1
<1>3. number % Epoch = L => EpochHeader(chain'[first + 1])
  <2> SUFFICES ASSUME number % Epoch = L PROVE EpochHeader(chain'[first + 1])
    OBVIOUS
  <2> HIDE DEF number, first
  <2>1. first = (number \div Epoch) * Epoch /\ number \div Epoch \in Nat /\ (number \div Epoch) * Epoch <= number
    BY <1>1, <1>2, Checkpoint DEF first
  <2> QED BY <2>1, EpochHeaders DEF number
<1>4. Snap' \in Snapshot
  <2>1. /\ Snap.Validators \in Announced /\ Snap.TurnLength \in TurnLengths \cup {defaultTurnLength}
        /\ Snap.Recents \in SUBSET (Nat \X Validator) /\ Snap.epochKey \in SUBSET Nat
        /\ Snap.RecentForkHashes \in SUBSET Nat
    BY <1>1 DEF Snapshot
  <2>2. Recorded(Snap, number, v) \in SUBSET (Nat \X Validator)
    BY <1>0, <1>2, <2>1 DEF Recorded
  <2>3. number \div Epoch \in Nat
    BY <1>2, DivMod
  <2>4. Snap'.Number \in Nat /\ Snap'.RecentForkHashes \in SUBSET Nat
    BY <1>1, <1>2, <2>1 DEF Applied
  <2> HIDE DEF number
  <2>5. Snap'.Validators \in Announced
    BY <1>1, <1>3, <2>1 DEF Applied, SwitchNow, EpochHeader, number
  <2>6. Snap'.TurnLength \in TurnLengths \cup {defaultTurnLength}
    BY <1>1, <1>3, <2>1 DEF Applied, SwitchNow, EpochHeader, number, parseTurnLength
  <2>7. Snap'.epochKey \in SUBSET Nat
    BY <1>1, <2>1, <2>3 DEF Applied, number
  <2>8. Snap'.Recents \in SUBSET (Nat \X Validator)
    BY <1>1, <2>2 DEF Applied, number, Trimmed
  <2> QED BY <1>1, <2>4, <2>5, <2>6, <2>7, <2>8 DEF IsSnapshot, Snapshot
<1>5. snaps' \in Seq(Snapshot) /\ Len(chain) \in Nat /\ Len(snaps) = Len(chain)
  BY <1>1, <1>4 DEF ChainInv
<1>6. Snap'.Number = Top'
  BY <1>1 DEF Applied
<1>7. \A e \in Nat : e * Epoch <= Top' => EpochHeader(chain'[e * Epoch + 1])
  BY <1>1, EpochHeaders
<1> QED BY <1>1, <1>4, <1>5, <1>6, <1>7 DEF ChainInv

-----------------------------------------------------------------------------
(* Which set is in force.                                                  *)

(* The snapshot in force before epoch e began: see SwitchPoint.            *)
Before(e) == snaps[Max({e * Epoch, 1})]

(* Set and turn length in force are those of the header of epoch e.        *)
FromHeader(e) ==
    /\ Snap.Validators = chain[e * Epoch + 1].validators
    /\ Snap.TurnLength = parseTurnLength(chain, e * Epoch, defaultTurnLength)

(* Before the switch point of epoch e: what held before epoch e began,     *)
(* which is what the header of the epoch before it announced.              *)
Unswitched(e) ==
    /\ Snap.Validators = Before(e).Validators /\ Snap.TurnLength = Before(e).TurnLength
    /\ e \notin Snap.epochKey
    /\ FromHeader(IF e > 0 THEN e - 1 ELSE 0)

(* From the switch point of epoch e on.                                    *)
Switched(e) ==
    /\ FromHeader(e)
    /\ e = 0 => Snap.Validators = Before(0).Validators /\ Snap.TurnLength = Before(0).TurnLength
    /\ e > 0 /\ IsBohr(SwitchPoint(e)) => e \in Snap.epochKey

(* Until the switch point of the epoch the set of the last epoch holds,    *)
(* from then on the set of this epoch's header.                            *)
SwitchInv ==
    /\ \A e \in Nat : e = Top \div Epoch =>
          /\ Top < SwitchPoint(e) => Unswitched(e)
          /\ SwitchPoint(e) <= Top => Switched(e)
    /\ \A k \in Snap.epochKey : k <= Top \div Epoch

(* The larger of two integers.                                             *)
LEMMA MaxPair ==
    ASSUME NEW a \in Int, NEW b \in Int
    PROVE  Max({a, b}) = IF a >= b THEN a ELSE b
BY DEF Max

(* The switch point of an epoch that has begun, or begins now.             *)
LEMMA SwitchPointKept ==
    ASSUME ChainInv, NEW v, NEW V, NEW t, SealedBy(v, V, t), NEW e \in Nat, e * Epoch <= Top + 1
    PROVE  /\ Before(e)' \in Snapshot
           /\ SwitchPoint(e)' = e * Epoch + minerHistoryCheckLen(Before(e)')
           /\ minerHistoryCheckLen(Before(e)') \in 0 .. Epoch - 1
           /\ e * Epoch \in Nat /\ Epoch \in Nat \ {0}
           /\ Before(e)' = Before(e) /\ SwitchPoint(e)' = SwitchPoint(e)
           /\ e * Epoch = Top + 1 => Before(e)' = Snap
<1>0. v \in Validator /\ V \in SUBSET Validator /\ t \in Nat /\ Seal(v, V, t)
  BY DEF SealedBy
<1>1. /\ Top \in Nat /\ Top = Len(chain) - 1 /\ Len(snaps) = Len(chain) /\ Len(chain) \in Nat
      /\ snaps \in Seq(Snapshot) /\ Snap = snaps[Len(snaps)]
      /\ \A i \in 1 .. Len(chain) : snaps'[i] = snaps[i]
  <2>1. Top = Len(chain) - 1 /\ Len(chain) \in Nat /\ Len(snaps) = Len(chain)
        /\ snaps \in Seq(Snapshot) /\ Snap = snaps[Len(snaps)]
    BY DEF Top, ChainInv, Snap
  <2> QED BY <1>0, <2>1, SealEffect, Zenon
<1>2. e * Epoch \in Nat /\ Epoch \in Nat \ {0}
  BY SnapshotAssumption
<1> DEFINE i == Max({e * Epoch, 1})
<1>3. i = IF e * Epoch >= 1 THEN e * Epoch ELSE 1
  BY <1>2, MaxPair
<1>4. i \in 1 .. Len(chain) /\ (e * Epoch = Top + 1 => i = Len(snaps))
  BY <1>1, <1>2, <1>3
<1>5. /\ Before(e) = snaps[i] /\ Before(e)' = snaps'[i]
      /\ SwitchPoint(e) = e * Epoch + minerHistoryCheckLen(Before(e))
      /\ SwitchPoint(e)' = e * Epoch + minerHistoryCheckLen(Before(e)')
  BY DEF Before, SwitchPoint
<1> HIDE DEF i
<1>6. snaps'[i] = snaps[i] /\ snaps[i] \in Snapshot
  BY <1>1, <1>4
<1>7. minerHistoryCheckLen(Before(e)) \in 0 .. Epoch - 1
  BY <1>5, <1>6, HistoryLength
<1> QED BY <1>1, <1>2, <1>4, <1>5, <1>6, <1>7

(* Where the next block falls: up to the switch point of its epoch the     *)
(* parent's snapshot has not switched, beyond it, it has.                  *)
LEMMA Phase ==
    ASSUME ChainInv, SwitchInv, NEW v, NEW V, NEW t, SealedBy(v, V, t),
           NEW e \in Nat, e = (Top + 1) \div Epoch,
           NEW c \in Nat, c = (Top + 1) % Epoch
    PROVE  /\ Top + 1 = e * Epoch + c /\ e * Epoch <= Top + 1 /\ c < Epoch
           /\ c <= minerHistoryCheckLen(Before(e)) => Unswitched(e)
           /\ c > minerHistoryCheckLen(Before(e)) => e = Top \div Epoch /\ Switched(e)
           /\ e = 0 \/ (e - 1) * Epoch <= Top
           /\ Top \div Epoch <= e
<1> DEFINE K == minerHistoryCheckLen(Before(e))
           d == Top \div Epoch
<1>1. Top \in Nat /\ Epoch \in Nat \ {0} /\ e * Epoch \in Nat
  <2>1. Top \in Nat
    BY DEF Top, ChainInv
  <2> QED BY <2>1, SnapshotAssumption
<1>2. Top + 1 = e * Epoch + c /\ c \in 0 .. Epoch - 1
  BY <1>1, DivMod
<1>3. e * Epoch <= Top + 1
  BY <1>1, <1>2
<1>4. SwitchPoint(e) = e * Epoch + K /\ K \in 0 .. Epoch - 1 /\ (e * Epoch = Top + 1 => Before(e) = Snap)
  BY <1>3, SwitchPointKept
<1>5. d \in Nat /\ d * Epoch \in Nat /\ d * Epoch <= Top
  <2>1. d \in Nat /\ (Top % Epoch) \in Nat /\ Top = d * Epoch + (Top % Epoch)
    BY <1>1, DivMod
  <2>2. d * Epoch \in Nat
    BY <1>1, <2>1
  <2> QED BY <1>1, <2>1, <2>2
<1>6. SwitchPoint(d) \in d * Epoch .. d * Epoch + Epoch - 1
  <2>1. d * Epoch <= Top + 1
    BY <1>1, <1>5
  <2> HIDE DEF d
  <2>2. /\ SwitchPoint(d) = d * Epoch + minerHistoryCheckLen(Before(d))
        /\ minerHistoryCheckLen(Before(d)) \in 0 .. Epoch - 1
    BY <1>5, <2>1, SwitchPointKept
  <2> QED BY <1>1, <1>5, <2>2
<1>7. CASE c = 0
  <2>1. e = d + 1 /\ e * Epoch = Top + 1
    BY <1>1, <1>2, <1>5, <1>7, NextBlock, Zenon
  <2>2. d * Epoch + Epoch = Top + 1
    BY <1>1, <1>5, <2>1
  <2>3. Switched(d)
    <3>1. SwitchPoint(d) <= Top
      BY <1>1, <1>5, <1>6, <2>2
    <3> QED BY <1>5, <3>1 DEF SwitchInv
  <2>4. Before(e) = Snap
    BY <1>4, <2>1
  <2>5. e \notin Snap.epochKey
    BY <1>5, <2>1 DEF SwitchInv
  <2>6. FromHeader(IF e > 0 THEN e - 1 ELSE 0)
    BY <1>5, <2>1, <2>3 DEF Switched
  <2>7. Unswitched(e)
    BY <2>4, <2>5, <2>6 DEF Unswitched
  <2>8. (e - 1) * Epoch <= Top /\ d <= e
    BY <1>5, <2>1
  <2>9. c < Epoch /\ ~(c > K)
    BY <1>1, <1>4, <1>7
  <2> HIDE DEF K
  <2> QED BY <1>2, <1>3, <2>7, <2>8, <2>9 DEF K
<1>8. CASE c # 0
  <2>1. e = d /\ d <= e
    <3>1. (Top + 1) \div Epoch = Top \div Epoch
      BY <1>1, <1>8, NextBlock, Zenon
    <3>2. e = d
      BY <3>1
    <3> QED BY <1>5, <3>2
  <2>2. c <= K => Unswitched(e)
    <3>1. c <= K => Top < SwitchPoint(e)
      BY <1>1, <1>2, <1>4
    <3> QED BY <2>1, <3>1 DEF SwitchInv
  <2>3. c > K => Switched(e)
    <3>1. c > K => SwitchPoint(e) <= Top
      BY <1>1, <1>2, <1>4
    <3> QED BY <2>1, <3>1 DEF SwitchInv
  <2>4. e = 0 \/ (e - 1) * Epoch <= Top
    <3>1. (e - 1) * Epoch = e * Epoch - Epoch
      BY <1>1
    <3> QED BY <1>1, <1>3, <3>1
  <2>5. c < Epoch
    BY <1>1, <1>2
  <2> QED BY <1>2, <1>3, <2>1, <2>2, <2>3, <2>4, <2>5, Zenon
<1> QED BY <1>7, <1>8

(* What the next block does to the set, the turn length and the marker:    *)
(* nothing before the switch point, the switch at it, and after it at most *)
(* a second switch, to the set that is in force already.                   *)
LEMMA StepCases ==
    ASSUME ChainInv, SwitchInv, NEW v, NEW V, NEW t, SealedBy(v, V, t),
           NEW e \in Nat, e = (Top + 1) \div Epoch,
           NEW c \in Nat, c = (Top + 1) % Epoch
    PROVE  /\ c < minerHistoryCheckLen(Before(e)) =>
                 /\ ~SwitchNow(Snap, Top + 1)
                 /\ Snap'.Validators = Snap.Validators /\ Snap'.TurnLength = Snap.TurnLength
           /\ c = minerHistoryCheckLen(Before(e)) =>
                 /\ SwitchNow(Snap, Top + 1) /\ FromHeader(e)'
                 /\ e = 0 => /\ Snap'.Validators = Snap.Validators
                             /\ Snap'.TurnLength = Snap.TurnLength
           /\ c > minerHistoryCheckLen(Before(e)) =>
                 Snap'.Validators = Snap.Validators /\ Snap'.TurnLength = Snap.TurnLength
<1> DEFINE K == minerHistoryCheckLen(Before(e))
           L == minerHistoryCheckLen(Snap)
           prev == IF e > 0 THEN e - 1 ELSE 0
<1>0. v \in Validator /\ V \in SUBSET Validator /\ t \in Nat /\ Seal(v, V, t)
  BY DEF SealedBy
<1>1. /\ Top \in Nat /\ Snap \in Snapshot /\ Top' = Top + 1
      /\ Applied(Snap, Snap', chain', Top + 1, v)
  BY <1>0, SealEffect, Zenon
<1>2. /\ Top + 1 = e * Epoch + c /\ e * Epoch <= Top + 1 /\ c < Epoch
      /\ c <= K => Unswitched(e)
      /\ c > K => e = Top \div Epoch /\ Switched(e)
      /\ e = 0 \/ (e - 1) * Epoch <= Top
  BY Phase
<1>3. K \in 0 .. Epoch - 1 /\ L \in 0 .. Epoch - 1 /\ e * Epoch \in Nat /\ Epoch \in Nat \ {0} /\ BohrBlock \in Nat
  BY <1>1, <1>2, SwitchPointKept, HistoryLength, SnapshotAssumption
<1>4. c <= K => L = K
  BY <1>2 DEF Unswitched, minerHistoryCheckLen
<1>5. prev \in Nat /\ prev * Epoch \in Nat /\ prev * Epoch <= Top /\ prev * Epoch <= e * Epoch
      /\ (e = 0 => prev * Epoch = e * Epoch)
  <2>1. CASE e = 0
    BY <1>1, <1>3, <2>1
  <2>2. CASE e # 0
    <3>1. prev = e - 1 /\ prev \in Nat
      BY <2>2
    <3>2. prev * Epoch = e * Epoch - Epoch /\ prev * Epoch \in Nat
      BY <1>3, <3>1
    <3> QED BY <1>1, <1>2, <1>3, <2>2, <3>1, <3>2
  <2> QED BY <2>1, <2>2
<1>6. c = L => (Top + 1) - L = e * Epoch
  BY <1>1, <1>2, <1>3
<1>7. prev * Epoch <= Top /\ chain'[prev * Epoch + 1] = chain[prev * Epoch + 1]
  BY <1>5, <1>1, EpochHeaders
<1>8. CASE c < K
  <2>1. ~SwitchNow(Snap, Top + 1)
    BY <1>3, <1>4, <1>8 DEF SwitchNow
  <2> QED BY <1>1, <1>3, <1>8, <2>1 DEF Applied
<1>9. CASE c = K
  <2>1. c = L /\ Unswitched(e)
    <3>1. c <= K
      BY <1>3, <1>9
    <3> HIDE DEF K, L
    <3> QED BY <1>2, <1>4, <1>9, <3>1
  <2>2. SwitchNow(Snap, Top + 1)
    BY <2>1 DEF SwitchNow, Unswitched
  <2>3. /\ Snap'.Validators = chain'[e * Epoch + 1].validators
        /\ Snap'.TurnLength = parseTurnLength(chain', e * Epoch, Snap.TurnLength)
    BY <1>1, <1>6, <2>1, <2>2 DEF Applied
  <2>4. /\ Snap.Validators = chain[prev * Epoch + 1].validators
        /\ Snap.TurnLength = parseTurnLength(chain, prev * Epoch, defaultTurnLength)
    BY <2>1 DEF Unswitched, FromHeader
  <2>5. ~IsBohr(e * Epoch) => Snap.TurnLength = defaultTurnLength
    BY <1>3, <1>5, <2>4 DEF parseTurnLength, IsBohr
  <2>6. Snap'.TurnLength = parseTurnLength(chain', e * Epoch, defaultTurnLength)
    BY <2>3, <2>5 DEF parseTurnLength
  <2>7. FromHeader(e)'
    BY <2>3, <2>6 DEF FromHeader
  <2>8. e = 0 => Snap'.Validators = Snap.Validators /\ Snap'.TurnLength = Snap.TurnLength
    <3> SUFFICES ASSUME e = 0 PROVE Snap'.Validators = Snap.Validators /\ Snap'.TurnLength = Snap.TurnLength
      OBVIOUS
    <3>1. prev * Epoch = e * Epoch /\ chain'[e * Epoch + 1] = chain[e * Epoch + 1]
      BY <1>5, <1>7
    <3> QED BY <2>3, <2>4, <2>6, <3>1 DEF parseTurnLength
  <2> QED BY <1>3, <1>9, <2>2, <2>7, <2>8
<1>10. CASE c > K
  <2>1. Switched(e) /\ e * Epoch <= Top
    BY <1>1, <1>2, <1>3, <1>10
  <2>2. /\ Snap.Validators = chain[e * Epoch + 1].validators
        /\ Snap.TurnLength = parseTurnLength(chain, e * Epoch, defaultTurnLength)
    BY <2>1 DEF Switched, FromHeader
  <2>3. chain'[e * Epoch + 1] = chain[e * Epoch + 1]
    BY <1>2, <2>1, EpochHeaders
  <2>4. CASE SwitchNow(Snap, Top + 1)
    <3>1. c = L
      BY <2>4 DEF SwitchNow
    <3>2. /\ Snap'.Validators = chain'[e * Epoch + 1].validators
          /\ Snap'.TurnLength = parseTurnLength(chain', e * Epoch, Snap.TurnLength)
      BY <1>1, <1>6, <2>4, <3>1 DEF Applied
    <3> QED BY <1>3, <1>10, <2>2, <2>3, <3>2 DEF parseTurnLength
  <2>5. CASE ~SwitchNow(Snap, Top + 1)
    BY <1>1, <1>3, <1>10, <2>5 DEF Applied
  <2> QED BY <2>4, <2>5
<1>11. c < K \/ c = K \/ c > K
  BY <1>3
<1> QED BY <1>8, <1>9, <1>10, <1>11

(* Every sealed block keeps the switch invariant.                          *)
LEMMA SealSwitch ==
    ASSUME ChainInv, SwitchInv, NEW v, NEW V, NEW t, SealedBy(v, V, t)
    PROVE  SwitchInv'
<1> DEFINE e == (Top + 1) \div Epoch
           c == (Top + 1) % Epoch
           K == minerHistoryCheckLen(Before(e))
<1>0. v \in Validator /\ V \in SUBSET Validator /\ t \in Nat /\ Seal(v, V, t)
  BY DEF SealedBy
<1>1. /\ Top \in Nat /\ Snap \in Snapshot /\ Top' = Top + 1
      /\ Applied(Snap, Snap', chain', Top + 1, v)
  BY <1>0, SealEffect, Zenon
<1>2. e \in Nat /\ c \in Nat
  BY <1>1, DivMod
<1> SUFFICES ASSUME NEW f \in Nat, f = e
             PROVE  /\ Top' < SwitchPoint(f)' => Unswitched(f)'
                    /\ SwitchPoint(f)' <= Top' => Switched(f)'
                    /\ \A k \in Snap'.epochKey : k <= e
  BY <1>1, <1>2 DEF SwitchInv
<1> HIDE DEF e, c
<1>3. f = (Top + 1) \div Epoch /\ c = (Top + 1) % Epoch
  BY DEF e, c
<1>4. /\ Top + 1 = e * Epoch + c /\ e * Epoch <= Top + 1 /\ c < Epoch
      /\ c <= K => Unswitched(f)
      /\ c > K => e = Top \div Epoch /\ Switched(f)
      /\ e = 0 \/ (e - 1) * Epoch <= Top
      /\ Top \div Epoch <= e
  BY <1>2, <1>3, Phase
<1>5. /\ SwitchPoint(f)' = f * Epoch + K /\ Before(f)' = Before(f)
      /\ SwitchPoint(f)' = SwitchPoint(f)
      /\ K \in 0 .. Epoch - 1 /\ f * Epoch \in Nat /\ Epoch \in Nat \ {0}
  BY <1>2, <1>4, SwitchPointKept
<1>6. /\ c < K => /\ ~SwitchNow(Snap, Top + 1)
                  /\ Snap'.Validators = Snap.Validators /\ Snap'.TurnLength = Snap.TurnLength
      /\ c = K => /\ SwitchNow(Snap, Top + 1) /\ FromHeader(f)'
                  /\ f = 0 => /\ Snap'.Validators = Snap.Validators
                              /\ Snap'.TurnLength = Snap.TurnLength
      /\ c > K => Snap'.Validators = Snap.Validators /\ Snap'.TurnLength = Snap.TurnLength
  BY <1>2, <1>3, StepCases
<1>7. \A k \in Snap'.epochKey : k <= e
  <2>1. \A k \in Snap.epochKey : k <= e
    <3>1. Snap.epochKey \in SUBSET Nat
      BY <1>1 DEF Snapshot
    <3>2. Top \div Epoch \in Nat
      BY <1>1, DivMod
    <3> QED BY <1>2, <1>4, <3>1, <3>2 DEF SwitchInv
  <2> QED BY <1>1, <1>2, <2>1 DEF Applied, e
<1>8. Top' < SwitchPoint(f)' => c < K
  BY <1>1, <1>2, <1>4, <1>5
<1>9. SwitchPoint(f)' <= Top' => c >= K
  BY <1>1, <1>2, <1>4, <1>5
<1>10. ASSUME c < K PROVE Unswitched(f)'
  <2>1. Unswitched(f) /\ ~SwitchNow(Snap, Top + 1)
        /\ Snap'.Validators = Snap.Validators /\ Snap'.TurnLength = Snap.TurnLength
    BY <1>2, <1>4, <1>5, <1>6, <1>10
  <2>2. f \notin Snap'.epochKey
    BY <1>1, <2>1 DEF Unswitched, Applied
  <2> DEFINE prev == IF f > 0 THEN f - 1 ELSE 0
  <2>3. prev \in Nat /\ prev * Epoch <= Top
    BY <1>1, <1>2, <1>4, <1>5
  <2>4. prev * Epoch <= Top + 1
    BY <1>1, <1>5, <2>3
  <2>5. chain'[prev * Epoch + 1] = chain[prev * Epoch + 1]
    <3> HIDE DEF prev
    <3> QED BY <2>3, <2>4, EpochHeaders
  <2>6. FromHeader(prev)'
    <3>1. FromHeader(prev)
      BY <2>1 DEF Unswitched
    <3> HIDE DEF prev
    <3> QED BY <2>1, <2>5, <3>1 DEF FromHeader, parseTurnLength
  <2> QED BY <1>5, <2>1, <2>2, <2>6 DEF Unswitched
<1>11. ASSUME c = K PROVE Switched(f)'
  <2>1. f = 0 => Snap'.Validators = Before(f).Validators /\ Snap'.TurnLength = Before(f).TurnLength
    BY <1>2, <1>4, <1>5, <1>6, <1>11 DEF Unswitched
  <2>2. f > 0 /\ IsBohr(SwitchPoint(f)') => f \in Snap'.epochKey
    <3>1. SwitchPoint(f)' = Top + 1
      BY <1>1, <1>2, <1>4, <1>5, <1>11
    <3> QED BY <1>1, <1>3, <1>6, <1>11, <3>1 DEF Applied
  <2> QED BY <1>5, <1>6, <1>11, <2>1, <2>2 DEF Switched
<1>12. ASSUME c > K PROVE Switched(f)'
  <2>1. Switched(f) /\ Snap'.Validators = Snap.Validators /\ Snap'.TurnLength = Snap.TurnLength
    BY <1>4, <1>6, <1>12
  <2>2. f > 0 /\ IsBohr(SwitchPoint(f)') => f \in Snap'.epochKey
    BY <1>1, <1>3, <1>5, <2>1 DEF Applied, Switched
  <2>3. f * Epoch <= Top
    BY <1>1, <1>2, <1>4, <1>5, <1>12
  <2>4. chain'[f * Epoch + 1] = chain[f * Epoch + 1]
    BY <1>4, <2>3, EpochHeaders
  <2>5. FromHeader(f)'
    BY <2>1, <2>4 DEF Switched, FromHeader, parseTurnLength
  <2> QED BY <1>5, <2>1, <2>2, <2>5 DEF Switched
<1> QED BY <1>2, <1>5, <1>7, <1>8, <1>9, <1>10, <1>11, <1>12

-----------------------------------------------------------------------------
(* Who has signed.                                                         *)

(* Recents has one signer a block, and no block older than the history     *)
(* that is checked; the turn length is 1 until Bohr.                       *)
RecentsInv ==
    /\ \A r \in Snap.Recents : r[1] \in 1 .. Top /\ r[1] >= Top - minerHistoryCheckLen(Snap)
    /\ \A r, q \in Snap.Recents : r[1] = q[1] => r = q
    /\ \A a, b \in Snap.epochKey : a = b
    /\ Snap.RecentForkHashes \in SUBSET (1 .. Top)
    /\ ~IsBohr(Top) => Snap.TurnLength = defaultTurnLength

(* Before Bohr a switch trims the history to what the new set needs.       *)
LEMMA TrimmedEnough ==
    ASSUME NEW s \in Snapshot, NEW u \in Snapshot, NEW number \in Nat, NEW v,
           s.TurnLength = 1, u.TurnLength = 1,
           NEW R, \A r \in R : r[1] \in Nat /\ r[1] >= number - minerHistoryCheckLen(s)
    PROVE  \A r \in Trimmed(R, number, s.Validators, u.Validators) :
              r[1] >= number - minerHistoryCheckLen(u)
<1> DEFINE a == Cardinality(s.Validators) \div 2 + 1
           b == Cardinality(u.Validators) \div 2 + 1
<1>1. Cardinality(s.Validators) \in Nat /\ Cardinality(u.Validators) \in Nat
  BY HistoryLength
<1>2. a \in Nat /\ b \in Nat
  BY <1>1
<1>3. minerHistoryCheckLen(s) = a * 1 - 1 /\ minerHistoryCheckLen(u) = b * 1 - 1
  BY HistoryLength
<1>4. Trimmed(R, number, s.Validators, u.Validators) = {r \in R : r[1] \notin number - a + 1 .. number - b}
  BY DEF Trimmed
<1> HIDE DEF a, b
<1> QED BY <1>2, <1>3, <1>4

(* Sealing keeps Recents and its companions.                               *)
LEMMA SealRecents ==
    ASSUME ChainInv, RecentsInv, NEW v, NEW V, NEW t, SealedBy(v, V, t)
    PROVE  RecentsInv'
<1> DEFINE number == Top + 1
           L == minerHistoryCheckLen(Snap)
           R == Recorded(Snap, number, v)
<1>0. v \in Validator /\ V \in SUBSET Validator /\ t \in Nat /\ Seal(v, V, t)
  BY DEF SealedBy
<1>1. /\ Top \in Nat /\ Snap \in Snapshot /\ Top' = Top + 1
      /\ Applied(Snap, Snap', chain', number, v)
  BY <1>0, SealEffect, Zenon
<1>2. Snap' \in Snapshot
  BY SealChain
<1>3. L \in Nat /\ BohrBlock \in Nat
  BY <1>1, HistoryLength, SnapshotAssumption
<1>4. number \in Nat /\ number = Top + 1
  BY <1>1
<1> HIDE DEF number
<1>5. \A r \in R : r[1] \in 1 .. number /\ r[1] >= number - L
  <2> SUFFICES ASSUME NEW r \in R PROVE r[1] \in 1 .. number /\ r[1] >= number - L
    OBVIOUS
  <2>1. CASE r = <<number, v>>
    BY <1>1, <1>3, <1>4, <2>1
  <2>2. CASE r \in Snap.Recents /\ r[1] # number - (L + 1)
    <3>1. r[1] \in 1 .. Top /\ r[1] >= Top - L
      BY <2>2 DEF RecentsInv
    <3> QED BY <1>1, <1>3, <1>4, <2>2, <3>1
  <2> QED BY <2>1, <2>2 DEF Recorded
<1>6. \A r, q \in R : r[1] = q[1] => r = q
  <2> SUFFICES ASSUME NEW r \in R, NEW q \in R, r[1] = q[1] PROVE r = q
    OBVIOUS
  <2>1. \A x \in R : x = <<number, v>> \/ (x \in Snap.Recents /\ x[1] # number)
    BY <1>1, <1>4 DEF Recorded, RecentsInv
  <2> QED BY <2>1 DEF RecentsInv
<1>7. ~IsBohr(number) => Snap.TurnLength = defaultTurnLength /\ Snap'.TurnLength = defaultTurnLength
  <2> SUFFICES ASSUME ~IsBohr(number)
               PROVE  Snap.TurnLength = defaultTurnLength /\ Snap'.TurnLength = defaultTurnLength
    OBVIOUS
  <2>1. Snap.TurnLength = defaultTurnLength
    BY <1>1, <1>3, <1>4 DEF RecentsInv, IsBohr
  <2>2. ~IsBohr(number - L)
    BY <1>3, <1>4 DEF IsBohr
  <2> QED BY <1>1, <2>1, <2>2 DEF Applied, parseTurnLength
<1>8. Snap'.Recents \in SUBSET R
  BY <1>1 DEF Applied, Trimmed
<1>9. \A r \in Snap'.Recents : r[1] >= number - minerHistoryCheckLen(Snap')
  <2>1. CASE ~SwitchNow(Snap, number)
    <3>1. minerHistoryCheckLen(Snap') = L /\ Snap'.Recents = R
      BY <1>1, <2>1 DEF Applied, minerHistoryCheckLen
    <3> QED BY <1>5, <3>1
  <2>2. CASE SwitchNow(Snap, number) /\ IsBohr(number)
    BY <1>1, <2>2 DEF Applied
  <2>3. CASE SwitchNow(Snap, number) /\ ~IsBohr(number)
    <3>1. Snap'.Recents = Trimmed(R, number, Snap.Validators, Snap'.Validators)
      BY <1>1, <2>3 DEF Applied
    <3>2. \A r \in R : r[1] \in Nat /\ r[1] >= number - L
      BY <1>5
    <3> HIDE DEF R
    <3> QED BY <1>1, <1>2, <1>4, <1>7, <2>3, <3>1, <3>2, TrimmedEnough DEF defaultTurnLength
  <2> QED BY <2>1, <2>2, <2>3
<1>10. \A a, b \in Snap'.epochKey : a = b
  BY <1>1 DEF Applied, RecentsInv
<1>11. Snap'.RecentForkHashes \in SUBSET (1 .. number)
  <2>1. Snap.RecentForkHashes \in SUBSET (1 .. Top)
    BY DEF RecentsInv
  <2>2. Snap'.RecentForkHashes \in SUBSET (Snap.RecentForkHashes \cup {number})
    BY <1>1 DEF Applied
  <2> QED BY <1>1, <1>4, <2>1, <2>2
<1>12. Top' = number
  BY <1>1, <1>4
<1> HIDE DEF R
<1>13. \A r \in Snap'.Recents : r[1] \in 1 .. number
  BY <1>5, <1>8
<1>14. \A r, q \in Snap'.Recents : r[1] = q[1] => r = q
  BY <1>6, <1>8
<1> QED BY <1>7, <1>9, <1>10, <1>11, <1>12, <1>13, <1>14 DEF RecentsInv

(* The genesis snapshot satisfies the invariants.                          *)
LEMMA InitSnapshot == Init => ChainInv /\ SwitchInv /\ RecentsInv
<1> SUFFICES ASSUME Init PROVE ChainInv /\ SwitchInv /\ RecentsInv
  OBVIOUS
<1>1. PICK V \in Announced, t \in TurnLengths :
          /\ chain = <<[signer |-> "genesis", validators |-> V, turnLength |-> t]>>
          /\ snaps = <<newSnapshot(chain, 0, 0)>>
  BY DEF Init
<1>2. V \in SUBSET Validator /\ t \in Nat /\ Epoch \in Nat \ {0}
  BY SnapshotAssumption
<1> DEFINE h == [signer |-> "genesis", validators |-> V, turnLength |-> t]
           s == newSnapshot(chain, 0, 0)
<1>3. h \in Header /\ EpochHeader(h)
  BY <1>2 DEF Header, EpochHeader
<1>4. chain = <<h>> /\ snaps = <<s>> /\ Len(chain) = 1 /\ Len(snaps) = 1 /\ chain[1] = h /\ snaps[1] = s
  BY <1>1
<1>5. Top = 0 /\ Snap = s
  BY <1>4 DEF Top, Snap
<1>6. /\ s.Number = 0 /\ s.Validators = V /\ s.Recents = {} /\ s.epochKey = {} /\ s.RecentForkHashes = {}
      /\ s.TurnLength = parseTurnLength(chain, 0, defaultTurnLength) /\ IsSnapshot(s)
      /\ V = chain[0 + 1].validators
  <2> DEFINE T == parseTurnLength(chain, 0, defaultTurnLength)
  <2>1. h.validators = V
    OBVIOUS
  <2> HIDE DEF h
  <2>2. V = chain[0 + 1].validators
    BY <1>4, <2>1
  <2>3. s = [Number |-> 0, TurnLength |-> T, Validators |-> chain[0 + 1].validators,
             Recents |-> {}, epochKey |-> {}, RecentForkHashes |-> {}]
    BY DEF newSnapshot
  <2> HIDE DEF s, T
  <2>4. /\ s.Number = 0 /\ s.TurnLength = T /\ s.Validators = V
        /\ s.Recents = {} /\ s.epochKey = {} /\ s.RecentForkHashes = {}
    BY <2>2, <2>3
  <2>5. IsSnapshot(s)
    BY <2>2, <2>3, <2>4 DEF IsSnapshot
  <2> QED BY <2>2, <2>4, <2>5 DEF T
<1>7. s.TurnLength \in TurnLengths \cup {defaultTurnLength}
      /\ (~IsBohr(0) => s.TurnLength = defaultTurnLength)
  BY <1>4, <1>6 DEF parseTurnLength
<1> HIDE DEF s, h
<1>8. s \in Snapshot
  BY <1>6, <1>7 DEF IsSnapshot, Snapshot
<1>9. ChainInv
  <2>1. chain \in Seq(Header) /\ snaps \in Seq(Snapshot)
    BY <1>3, <1>4, <1>8
  <2>2. \A e \in Nat : e * Epoch <= 0 => e * Epoch = 0
    BY <1>2
  <2>3. \A e \in Nat : e * Epoch <= Top => EpochHeader(chain[e * Epoch + 1])
    BY <1>3, <1>4, <1>5, <2>2
  <2> QED BY <1>4, <1>5, <1>6, <2>1, <2>3 DEF ChainInv
<1>10. SwitchInv
  <2>1. 0 * Epoch = 0 /\ Max({0, 1}) = 1
    BY <1>2, MaxPair
  <2>2. Before(0) = s
    BY <1>4, <2>1, Zenon DEF Before
  <2>3. FromHeader(0)
    BY <1>5, <1>6, <2>1 DEF FromHeader
  <2>4. 0 \div Epoch = 0
    <3>1. 0 = 0 * Epoch + 0 /\ 0 \in 0 .. Epoch - 1
      BY <1>2
    <3> QED BY <3>1, DivModUnique
  <2>5. Unswitched(0) /\ Switched(0)
    BY <1>5, <1>6, <2>2, <2>3 DEF Unswitched, Switched
  <2> QED BY <1>5, <1>6, <2>4, <2>5 DEF SwitchInv
<1>11. RecentsInv
  BY <1>5, <1>6, <1>7 DEF RecentsInv
<1> QED BY <1>9, <1>10, <1>11

(* The three parts together hold in every reachable state.                 *)
THEOREM SnapshotInvariant == Spec => [](ChainInv /\ SwitchInv /\ RecentsInv)
<1>1. ChainInv /\ SwitchInv /\ RecentsInv /\ [Next]_vars => ChainInv' /\ SwitchInv' /\ RecentsInv'
  <2> SUFFICES ASSUME ChainInv, SwitchInv, RecentsInv, [Next]_vars
               PROVE  ChainInv' /\ SwitchInv' /\ RecentsInv'
    OBVIOUS
  <2>1. CASE Next
    <3>1. PICK v, V, t : SealedBy(v, V, t)
      BY <2>1, NextSeals
    <3> QED BY <3>1, SealChain, SealSwitch, SealRecents
  <2>2. CASE UNCHANGED vars
    BY <2>2, Zenon DEF vars, ChainInv, SwitchInv, RecentsInv, Top, Snap, FromHeader, Unswitched, Switched,
       Before, SwitchPoint
  <2> QED BY <2>1, <2>2
<1> QED BY InitSnapshot, <1>1, PTL DEF Spec

(* Every snapshot along a chain has a non-empty set that the contract      *)
(* announced, and only past blocks in its two windows.                     *)
THEOREM SnapshotTyped == Spec => []TypeOK
<1>1. ChainInv /\ SwitchInv /\ RecentsInv => TypeOK
  <2> SUFFICES ASSUME ChainInv, SwitchInv, RecentsInv PROVE TypeOK
    OBVIOUS
  <2>1. Top \in Nat /\ Snap \in Snapshot /\ Len(snaps) = Len(chain) /\ Snap.Number = Top
    BY DEF ChainInv, Top, Snap
  <2>2. /\ Snap.Validators \in Announced /\ Snap.TurnLength \in TurnLengths \cup {defaultTurnLength}
        /\ Snap.Recents \in SUBSET (Nat \X Validator) /\ Snap.epochKey \in SUBSET Nat
    BY <2>1 DEF Snapshot
  <2>3. Snap.Recents \subseteq (1 .. Top) \X Validator
    BY <2>2 DEF RecentsInv
  <2>4. Snap.epochKey \in SUBSET (0 .. Top \div Epoch)
    <3>1. Top \div Epoch \in Nat
      BY <2>1, DivMod, Zenon
    <3> QED BY <2>2, <3>1 DEF SwitchInv
  <2>5. Cardinality(Snap.epochKey) <= 1
    <3>1. CASE Snap.epochKey = {}
      BY <3>1, FS_EmptySet
    <3>2. CASE Snap.epochKey # {}
      <4>1. PICK k : Snap.epochKey = {k}
        BY <3>2, Zenon DEF RecentsInv
      <4> QED BY <4>1, FS_Singleton
    <3> QED BY <3>1, <3>2
  <2>6. Snap.RecentForkHashes \subseteq 1 .. Top
    BY DEF RecentsInv
  <2> QED BY <2>1, <2>2, <2>3, <2>4, <2>5, <2>6 DEF TypeOK
<1> QED BY <1>1, SnapshotInvariant, PTL

(* The blocks of the checked history, each with its one signer, are no     *)
(* more than minerHistoryCheckLen.                                         *)
LEMMA HistoryFits ==
    ASSUME NEW top \in Nat, NEW L \in Nat, NEW R, \A r \in R : r[1] \in Int /\ r[1] > top - L /\ r[1] <= top,
           \A r, q \in R : r[1] = q[1] => r = q
    PROVE  IsFiniteSet(R) /\ Cardinality(R) <= L
<1> DEFINE W == top - L + 1 .. top
           f == [r \in R |-> r[1]]
<1>1. IsFiniteSet(W) /\ Cardinality(W) = L
  <2>1. top - L + 1 \in Int /\ top \in Int
    OBVIOUS
  <2>2. IsFiniteSet(W) /\ Cardinality(W) = IF top - L + 1 > top THEN 0 ELSE top - (top - L + 1) + 1
    BY <2>1, FS_Interval
  <2>3. (IF top - L + 1 > top THEN 0 ELSE top - (top - L + 1) + 1) = L
    OBVIOUS
  <2> HIDE DEF W
  <2> QED BY <2>2, <2>3
<1>2. \A r \in R : r[1] \in W
  OBVIOUS
<1> HIDE DEF W
<1>3. f \in Injection(R, W)
  BY <1>2 DEF Injection, IsInjective
<1> HIDE DEF f
<1> QED BY <1>1, <1>3, FS_Injection

(* Whatever the order of signers, epochs and switches, at least half of    *)
(* the validators may sign the next block: SignRecently cannot leave a     *)
(* chain without a signer.                                                 *)
THEOREM ChainCannotStop == Spec => []HalfMaySign
<1>1. ChainInv /\ RecentsInv => HalfMaySign
  <2> SUFFICES ASSUME ChainInv, RecentsInv PROVE HalfMaySign
    OBVIOUS
  <2> DEFINE L == minerHistoryCheckLen(Snap)
             t == Snap.TurnLength
             n == Cardinality(Snap.Validators)
             R == {r \in Snap.Recents : r[1] > Top - L}
             S == {v \in Snap.Validators : SignRecently(Snap, v)}
  <2>1. Top \in Nat /\ Snap \in Snapshot /\ Snap.Number = Top
    BY DEF ChainInv, Top, Snap
  <2>2. /\ IsFiniteSet(Snap.Validators) /\ t \in Nat \ {0} /\ n \in Nat
        /\ L = (n \div 2 + 1) * t - 1 /\ L \in Nat
    BY <2>1, HistoryLength
  <2>3. IsFiniteSet(R) /\ Cardinality(R) <= L
    <3>1. \A r \in R : r[1] \in Int /\ r[1] > Top - L /\ r[1] <= Top
      BY <2>1 DEF RecentsInv
    <3>2. \A r, q \in R : r[1] = q[1] => r = q
      BY DEF RecentsInv
    <3> HIDE DEF R, L
    <3> QED BY <2>1, <2>2, <3>1, <3>2, HistoryFits
  <2>4. IsFiniteSet(S) /\ Cardinality(S) \in Nat
    <3>1. S \in SUBSET Snap.Validators
      OBVIOUS
    <3> HIDE DEF S
    <3> QED BY <2>2, <3>1, FS_Subset, FS_CardinalityType
  <2>5. \A v \in S : Cardinality(By(R, {v})) >= t
    <3> SUFFICES ASSUME NEW v \in S PROVE Cardinality(By(R, {v})) >= t
      OBVIOUS
    <3>1. By(R, {v}) = {r \in Snap.Recents : r[2] = v /\ r[1] > Snap.Number - L}
      BY <2>1 DEF By
    <3> QED BY <3>1, Zenon DEF SignRecently, countRecents
  <2> HIDE DEF S, R, L, n, t
  <2>6. Cardinality(S) * t <= Cardinality(R)
    BY <2>2, <2>3, <2>4, <2>5, SignersCounted, Zenon
  <2>7. n \div 2 \in Nat /\ 2 * (n \div 2) <= n
    BY <2>2
  <2> DEFINE k == n \div 2
             m == Cardinality(S)
  <2>8. Cardinality(R) \in Nat
    BY <2>3, FS_CardinalityType
  <2> HIDE DEF k, m
  <2>9. m * t < (k + 1) * t
    <3>1. (k + 1) * t \in Int /\ m * t \in Int
      BY <2>2, <2>4, <2>7 DEF k, m
    <3>2. L = (k + 1) * t - 1
      BY <2>2 DEF k
    <3>3. m * t <= Cardinality(R)
      BY <2>6 DEF m
    <3> QED BY <2>2, <2>3, <2>8, <3>1, <3>2, <3>3
  <2>10. m <= k
    <3>1. k \in Nat /\ m \in Nat /\ t \in Nat
      BY <2>2, <2>4, <2>7 DEF k, m
    <3> SUFFICES ASSUME m > k PROVE FALSE
      BY <3>1
    <3>2. m * t = (k + 1) * t + (m - k - 1) * t /\ (m - k - 1) * t \in Nat /\ (k + 1) * t \in Nat
      BY <3>1
    <3> QED BY <2>9, <3>2
  <2>11. 2 * m <= n
    BY <2>2, <2>4, <2>7, <2>10 DEF k, m
  <2> QED BY <2>11 DEF HalfMaySign, m, n, S
<1> QED BY <1>1, SnapshotInvariant, PTL

(* The set and the turn length in force are those of the last epoch header *)
(* whose switch point has passed, whatever second switches apply makes.    *)
THEOREM RightSetInForce == Spec => []AnnouncedSetInForce
<1>1. ChainInv /\ SwitchInv => AnnouncedSetInForce
  <2> SUFFICES ASSUME ChainInv, SwitchInv PROVE AnnouncedSetInForce
    OBVIOUS
  <2> DEFINE e == Top \div Epoch
  <2>1. Top \in Nat
    BY DEF ChainInv, Top
  <2>2. e \in Nat
    BY <2>1, DivMod
  <2>3. SwitchPoint(e) \in Int
    <3>1. /\ (Top % Epoch) \in Nat /\ Top = e * Epoch + (Top % Epoch) /\ e * Epoch \in Nat
      BY <2>1, <2>2, DivMod, SnapshotAssumption
    <3> DEFINE i == Max({e * Epoch, 1})
    <3>2. i = IF e * Epoch >= 1 THEN e * Epoch ELSE 1
      BY <3>1, MaxPair
    <3>3. Len(snaps) = Top + 1 /\ snaps \in Seq(Snapshot)
      BY <2>1 DEF ChainInv, Top
    <3>4. i \in 1 .. Len(snaps)
      BY <2>1, <3>1, <3>2, <3>3
    <3> HIDE DEF i
    <3>5. snaps[i] \in Snapshot
      BY <3>3, <3>4
    <3>6. minerHistoryCheckLen(snaps[i]) \in Int
      BY <3>5, HistoryLength
    <3>7. SwitchPoint(e) = e * Epoch + minerHistoryCheckLen(snaps[i])
      BY DEF SwitchPoint, i
    <3> QED BY <3>1, <3>6, <3>7
  <2>4. SwitchPoint(e) <= Top \/ Top < SwitchPoint(e)
    BY <2>1, <2>3
  <2>5. CASE SwitchPoint(e) <= Top
    <3>1. FromHeader(e)
      BY <2>2, <2>5 DEF SwitchInv, Switched
    <3> QED BY <2>5, <3>1 DEF AnnouncedSetInForce, FromHeader
  <2>6. CASE Top < SwitchPoint(e)
    <3>1. FromHeader(IF e > 0 THEN e - 1 ELSE 0)
      BY <2>2, <2>6 DEF SwitchInv, Unswitched
    <3>2. ~(SwitchPoint(e) <= Top)
      BY <2>1, <2>3, <2>6, SMTT(20)
    <3> QED BY <3>1, <3>2 DEF AnnouncedSetInForce, FromHeader
  <2> QED BY <2>4, <2>5, <2>6
<1> QED BY <1>1, SnapshotInvariant, PTL

-----------------------------------------------------------------------------
(* Two ways to reach a block: header by header, or in one batch from an    *)
(* older snapshot or from one without history.                             *)

(* s as a batch that began at block n holds it: snap.Number is still n,    *)
(* the history before block c and the switches before epoch d are unknown. *)
Cut(s, n, c, d) ==
    [Number           |-> n,
     TurnLength       |-> s.TurnLength,
     Validators       |-> s.Validators,
     Recents          |-> {r \in s.Recents : r[1] > c},
     epochKey         |-> {k \in s.epochKey : k > d},
     RecentForkHashes |-> {h \in s.RecentForkHashes : h > c}]

(* The fields of a Cut snapshot.                                           *)
LEMMA CutFields ==
    ASSUME NEW s, NEW n, NEW c, NEW d
    PROVE  LET f == Cut(s, n, c, d)
           IN /\ IsSnapshot(f) /\ f.Number = n /\ f.TurnLength = s.TurnLength /\ f.Validators = s.Validators
              /\ f.Recents = {r \in s.Recents : r[1] > c} /\ f.epochKey = {k \in s.epochKey : k > d}
              /\ f.RecentForkHashes = {h \in s.RecentForkHashes : h > c}
BY Zenon DEF Cut, IsSnapshot

(* The history that apply counts when it accepts a signer is the same, or  *)
(* less, when snap.Number lags and the oldest blocks are unknown.          *)
LEMMA CutAccepts ==
    ASSUME NEW s, NEW f, NEW number \in Nat \ {0}, NEW v,
           f.Validators = s.Validators, f.TurnLength = s.TurnLength, s.TurnLength \in Nat,
           minerHistoryCheckLen(s) \in Nat, IsFiniteSet(s.Recents),
           s.Number = number - 1, \A r \in s.Recents : r[1] \in Int /\ r[1] >= number - minerHistoryCheckLen(s),
           f.Recents \in SUBSET s.Recents,
           Accepts(s, number, v)
    PROVE  Accepts(f, number, v)
<1> DEFINE L == minerHistoryCheckLen(s)
           A == {r \in s.Recents : r[2] = v /\ r[1] > s.Number - L}
           B == {r \in f.Recents : r[2] = v /\ r[1] > f.Number - L}
<1>1. v \in f.Validators
  BY DEF Accepts
<1>2. CASE ~IsBohr(number)
  BY <1>1, <1>2 DEF Accepts
<1>3. CASE IsBohr(number)
  <2>1. minerHistoryCheckLen(f) = L
    BY DEF minerHistoryCheckLen
  <2>2. ~(Cardinality(A) >= s.TurnLength)
    BY <1>3 DEF Accepts, SignRecently, countRecents
  <2>3. B \in SUBSET A
    <3> SUFFICES ASSUME NEW r \in B PROVE r \in A
      OBVIOUS
    <3>1. r \in s.Recents /\ r[2] = v
      OBVIOUS
    <3>2. r[1] > s.Number - L
      BY <3>1
    <3> QED BY <3>1, <3>2
  <2>4. IsFiniteSet(A) /\ Cardinality(A) \in Nat
    <3>1. A \in SUBSET s.Recents
      OBVIOUS
    <3> HIDE DEF A
    <3> QED BY <3>1, FS_Subset, FS_CardinalityType
  <2>5. countRecents(f, v) = Cardinality(B)
    BY <2>1 DEF countRecents
  <2> HIDE DEF A, B
  <2>6. IsFiniteSet(B) /\ Cardinality(B) <= Cardinality(A) /\ Cardinality(B) \in Nat
    BY <2>3, <2>4, FS_Subset, FS_CardinalityType
  <2>7. ~(Cardinality(B) >= f.TurnLength)
    BY <2>2, <2>4, <2>6
  <2> QED BY <1>1, <1>3, <2>5, <2>7 DEF Accepts, SignRecently
<1> QED BY <1>2, <1>3

(* One header applied to a cut snapshot gives the cut of what it gives on  *)
(* the whole one.                                                          *)
LEMMA CutStep ==
    ASSUME NEW s \in Snapshot, NEW headers, NEW number \in Nat \ {0}, s.Number = number - 1,
           IsFiniteSet(s.Recents), \A r \in s.Recents : r[1] >= s.Number - minerHistoryCheckLen(s),
           NEW n \in Int, NEW c \in Int, c < number, NEW d \in Int, d < number \div Epoch,
           NEW u, applyHeader(s, headers, number) = {u}
    PROVE  applyHeader(Cut(s, n, c, d), headers, number) = {Cut(u, n, c, d)}
<1> DEFINE f == Cut(s, n, c, d)
           v == headers[number + 1].signer
           L == minerHistoryCheckLen(s)
           so == ForgetOldest(s, number)
           fo == ForgetOldest(f, number)
           sr == Record(so, number, v)
           fr == Record(fo, number, v)
<1>0. /\ IsSnapshot(s) /\ s.TurnLength \in Nat /\ L \in Nat /\ number \div Epoch \in Int
      /\ s.Recents \in SUBSET (Nat \X Validator)
  <2>1. IsSnapshot(s) /\ s.Recents \in SUBSET (Nat \X Validator)
    BY DEF Snapshot, IsSnapshot
  <2> QED BY <2>1, HistoryLength, DivMod
<1>1. /\ IsSnapshot(f) /\ f.Number = n /\ f.TurnLength = s.TurnLength /\ f.Validators = s.Validators
      /\ f.Recents = {r \in s.Recents : r[1] > c} /\ f.epochKey = {k \in s.epochKey : k > d}
      /\ f.RecentForkHashes = {h \in s.RecentForkHashes : h > c}
  BY CutFields
<1> HIDE DEF f
<1>2. minerHistoryCheckLen(f) = L /\ versionHistoryCheckLen(f) = versionHistoryCheckLen(s)
  BY <1>1 DEF minerHistoryCheckLen, versionHistoryCheckLen
<1>3. /\ IsSnapshot(so) /\ so.Number = s.Number /\ so.TurnLength = s.TurnLength
      /\ so.Validators = s.Validators /\ so.epochKey = s.epochKey
      /\ so.Recents = {r \in s.Recents : r[1] # number - (L + 1)}
      /\ so.RecentForkHashes = s.RecentForkHashes \ {number - versionHistoryCheckLen(s)}
  BY <1>0, ForgetFields
<1>4. /\ IsSnapshot(fo) /\ fo.Number = n /\ fo.TurnLength = s.TurnLength
      /\ fo.Validators = s.Validators /\ fo.epochKey = f.epochKey
      /\ fo.Recents = {r \in f.Recents : r[1] # number - (L + 1)}
      /\ fo.RecentForkHashes = f.RecentForkHashes \ {number - versionHistoryCheckLen(s)}
  BY <1>1, <1>2, ForgetFields, SMTT(20)
<1> HIDE DEF so, fo
<1>5. /\ IsSnapshot(sr) /\ sr.Number = s.Number /\ sr.TurnLength = s.TurnLength
      /\ sr.Validators = s.Validators /\ sr.epochKey = s.epochKey
      /\ sr.Recents = so.Recents \cup {<<number, v>>}
      /\ sr.RecentForkHashes = so.RecentForkHashes \cup {number}
  BY <1>3, RecordFields, SMTT(20)
<1>6. /\ IsSnapshot(fr) /\ fr.Number = n /\ fr.TurnLength = s.TurnLength
      /\ fr.Validators = s.Validators /\ fr.epochKey = f.epochKey
      /\ fr.Recents = fo.Recents \cup {<<number, v>>}
      /\ fr.RecentForkHashes = fo.RecentForkHashes \cup {number}
  BY <1>4, RecordFields
<1> HIDE DEF sr, fr, v
<1>7. fr.Recents = {r \in sr.Recents : r[1] > c}
  BY <1>1, <1>3, <1>4, <1>5, <1>6
<1>8. fr.RecentForkHashes = {h \in sr.RecentForkHashes : h > c}
  BY <1>1, <1>3, <1>4, <1>5, <1>6
<1>9. fr.epochKey = {k \in sr.epochKey : k > d}
  BY <1>1, <1>5, <1>6
<1>10. Switches(fr, number) <=> Switches(sr, number)
  <2>1. minerHistoryCheckLen(fr) = minerHistoryCheckLen(sr)
    BY <1>5, <1>6 DEF minerHistoryCheckLen
  <2>2. number \div Epoch \in fr.epochKey <=> number \div Epoch \in sr.epochKey
    BY <1>0, <1>9
  <2> QED BY <2>1, <2>2 DEF Switches
<1>11. Accepts(so, number, v)
  BY DEF applyHeader, so, v
<1>12. Accepts(fo, number, v)
  <2>1. minerHistoryCheckLen(so) = L
    BY <1>3 DEF minerHistoryCheckLen
  <2>2. \A r \in so.Recents : r[1] \in Int /\ r[1] >= number - L
    <3> SUFFICES ASSUME NEW r \in so.Recents PROVE r[1] \in Int /\ r[1] >= number - L
      OBVIOUS
    <3>1. r \in s.Recents /\ r[1] # number - (L + 1)
      BY <1>3
    <3>2. r[1] \in Nat /\ r[1] >= s.Number - L
      BY <1>0, <3>1
    <3> QED BY <1>0, <3>1, <3>2
  <2>3. IsFiniteSet(so.Recents)
    <3>1. so.Recents \in SUBSET s.Recents
      BY <1>3
    <3> QED BY <3>1, FS_Subset
  <2>4. fo.Recents \in SUBSET so.Recents
    BY <1>1, <1>3, <1>4
  <2> QED BY <1>0, <1>3, <1>4, <1>11, <2>1, <2>2, <2>3, <2>4, CutAccepts, Zenon
<1>13. CASE ~Switches(sr, number)
  <2>1. u = sr
    BY <1>11, <1>13, SMTT(20) DEF applyHeader, so, sr, v
  <2>2. applyHeader(f, headers, number) = {fr}
    BY <1>10, <1>12, <1>13 DEF applyHeader, fo, fr, v
  <2>3. fr = Cut(sr, n, c, d)
    BY <1>5, <1>6, <1>7, <1>8, <1>9, SMTT(20) DEF Cut, IsSnapshot
  <2> QED BY <2>1, <2>2, <2>3 DEF f
<1>14. CASE Switches(sr, number)
  <2> DEFINE su == Switch(sr, headers, number)
             fu == Switch(fr, headers, number)
  <2>1. u = su
    BY <1>11, <1>14, SMTT(20) DEF applyHeader, so, sr, v
  <2>2. applyHeader(f, headers, number) = {fu}
    BY <1>10, <1>12, <1>14 DEF applyHeader, fo, fr, v
  <2>3. SwitchedTo(sr, su, headers, number) /\ SwitchedTo(fr, fu, headers, number)
    BY <1>5, <1>6, SwitchFields
  <2>4. /\ minerHistoryCheckLen(fr) = minerHistoryCheckLen(sr)
        /\ versionHistoryCheckLen(fr) = versionHistoryCheckLen(sr)
    BY <1>5, <1>6, SMTT(20) DEF minerHistoryCheckLen, versionHistoryCheckLen
  <2> HIDE DEF su, fu
  <2>5. /\ IsSnapshot(fu) /\ fu.Number = n /\ fu.TurnLength = su.TurnLength /\ fu.Validators = su.Validators
    BY <1>5, <1>6, <2>3, <2>4, SMTT(20) DEF SwitchedTo
  <2>6. fu.Recents = {r \in su.Recents : r[1] > c}
    BY <1>5, <1>6, <1>7, <2>3, <2>4, SMTT(20) DEF SwitchedTo, Trimmed
  <2>7. fu.epochKey = {k \in su.epochKey : k > d}
    BY <1>0, <1>9, <2>3, <2>4, SMTT(20) DEF SwitchedTo
  <2>8. fu.RecentForkHashes = {h \in su.RecentForkHashes : h > c}
    BY <1>5, <1>6, <1>8, <2>3, <2>4 DEF SwitchedTo
  <2>9. fu = Cut(su, n, c, d)
    BY <2>5, <2>6, <2>7, <2>8 DEF Cut, IsSnapshot
  <2> QED BY <2>1, <2>2, <2>9 DEF f
<1> QED BY <1>13, <1>14

(* What every snapshot along the chain satisfies, ...                      *)
GoodSnap(s, j) ==
    /\ s \in Snapshot /\ s.Number = j /\ IsFiniteSet(s.Recents)
    /\ \A r \in s.Recents : r[1] \in 1 .. j /\ r[1] >= j - minerHistoryCheckLen(s)
    /\ s.RecentForkHashes \in SUBSET (1 .. j)

(* ... the one at the last block of epoch e, ...                           *)
EpochEnd(s, headers, e) ==
    /\ s.Validators = headers[e * Epoch + 1].validators
    /\ s.TurnLength = parseTurnLength(headers, e * Epoch, defaultTurnLength)
    /\ \A k \in s.epochKey : k <= e

(* ... and how each follows from the one before.                           *)
HistoryInv ==
    /\ \A j \in 0 .. Top : GoodSnap(snaps[j + 1], j)
    /\ \A j \in 1 .. Top : applyHeader(snaps[j], chain, j) = {[snaps[j + 1] EXCEPT !.Number = j - 1]}
    /\ \A e \in Nat : e * Epoch + Epoch - 1 <= Top => EpochEnd(snaps[e * Epoch + Epoch], chain, e)

(* The last snapshot is such a one.                                        *)
LEMMA LastSnap ==
    ASSUME ChainInv, SwitchInv, RecentsInv
    PROVE  /\ GoodSnap(Snap, Top)
           /\ \A e \in Nat : e * Epoch + Epoch - 1 = Top => EpochEnd(Snap, chain, e)
<1>1. Top \in Nat /\ Snap \in Snapshot /\ Snap.Number = Top
  BY DEF ChainInv, Top, Snap
<1>2. IsFiniteSet(Snap.Recents)
  <2> DEFINE L == minerHistoryCheckLen(Snap) + 1
             R == Snap.Recents
  <2>1. L \in Nat
    BY <1>1, HistoryLength
  <2>2. \A r \in R : r[1] \in Int /\ r[1] > Top - L /\ r[1] <= Top
    <3> SUFFICES ASSUME NEW r \in R PROVE r[1] \in Int /\ r[1] > Top - L /\ r[1] <= Top
      OBVIOUS
    <3>1. r[1] \in 1 .. Top /\ r[1] >= Top - minerHistoryCheckLen(Snap)
      BY DEF RecentsInv
    <3>2. minerHistoryCheckLen(Snap) \in Nat
      BY <1>1, HistoryLength
    <3> QED BY <1>1, <3>1, <3>2
  <2>3. \A r, q \in R : r[1] = q[1] => r = q
    BY DEF RecentsInv
  <2> HIDE DEF L, R
  <2>4. IsFiniteSet(R)
    BY <1>1, <2>1, <2>2, <2>3, HistoryFits, Zenon
  <2> QED BY <2>4 DEF R
<1>3. GoodSnap(Snap, Top)
  BY <1>1, <1>2 DEF GoodSnap, RecentsInv
<1>4. ASSUME NEW e \in Nat, e * Epoch + Epoch - 1 = Top
      PROVE  EpochEnd(Snap, chain, e)
  <2>1. Epoch \in Nat \ {0} /\ e * Epoch \in Nat
    BY SnapshotAssumption
  <2>2. Top = e * Epoch + (Epoch - 1) /\ Epoch - 1 \in 0 .. Epoch - 1
    BY <1>4, <2>1
  <2>3. Top \div Epoch = e
    BY <1>1, <2>2, DivModUnique
  <2>4. SwitchPoint(e) <= Top
    <3> DEFINE i == Max({e * Epoch, 1})
    <3>1. i = IF e * Epoch >= 1 THEN e * Epoch ELSE 1
      BY <2>1, MaxPair
    <3>2. Len(snaps) = Top + 1 /\ snaps \in Seq(Snapshot)
      BY <1>1 DEF ChainInv, Top
    <3>3. i \in 1 .. Len(snaps)
      BY <1>1, <2>1, <2>2, <3>1, <3>2
    <3> HIDE DEF i
    <3>4. snaps[i] \in Snapshot
      BY <3>2, <3>3
    <3>5. minerHistoryCheckLen(snaps[i]) \in 0 .. Epoch - 1
      BY <3>4, HistoryLength
    <3>6. SwitchPoint(e) = e * Epoch + minerHistoryCheckLen(snaps[i])
      BY DEF SwitchPoint, i
    <3> QED BY <1>1, <2>1, <2>2, <3>5, <3>6
  <2>5. FromHeader(e)
    BY <2>3, <2>4 DEF SwitchInv, Switched
  <2> QED BY <2>3, <2>5 DEF EpochEnd, FromHeader, SwitchInv
<1> QED BY <1>3, <1>4

(* The same in the next state.                                             *)
LEMMA LastSnapNext ==
    ChainInv' /\ SwitchInv' /\ RecentsInv' =>
        (/\ GoodSnap(Snap, Top)
         /\ \A e \in Nat : e * Epoch + Epoch - 1 = Top => EpochEnd(Snap, chain, e))'
<1>1. ChainInv /\ SwitchInv /\ RecentsInv =>
        /\ GoodSnap(Snap, Top)
        /\ \A e \in Nat : e * Epoch + Epoch - 1 = Top => EpochEnd(Snap, chain, e)
  BY LastSnap
<1> QED BY <1>1, PTL

(* apply of a header gives at most one snapshot, and leaves Number alone.  *)
LEMMA ApplyHeaderSingle ==
    ASSUME NEW s \in Snapshot, NEW headers, NEW number, NEW u \in applyHeader(s, headers, number)
    PROVE  applyHeader(s, headers, number) = {u} /\ IsSnapshot(u) /\ u.Number = s.Number
<1> DEFINE recorded == Record(ForgetOldest(s, number), number, headers[number + 1].signer)
<1>1. IsSnapshot(s)
  BY DEF Snapshot, IsSnapshot
<1>2. IsSnapshot(recorded) /\ recorded.Number = s.Number
  BY <1>1, ForgetFields, RecordFields
<1>3. u = recorded \/ u = Switch(recorded, headers, number)
  BY DEF applyHeader
<1>4. applyHeader(s, headers, number) = {u}
  BY DEF applyHeader
<1> HIDE DEF recorded
<1> DEFINE w == Switch(recorded, headers, number)
<1>5. SwitchedTo(recorded, w, headers, number)
  BY <1>2, SwitchFields
<1> HIDE DEF w
<1>6. IsSnapshot(w) /\ w.Number = s.Number
  BY <1>2, <1>5 DEF SwitchedTo
<1> QED BY <1>2, <1>3, <1>4, <1>6 DEF w

(* It reads no header beyond its own.                                      *)
LEMMA ApplyHeaderPrefix ==
    ASSUME NEW s \in Snapshot, NEW number \in Nat \ {0}, NEW h1, NEW h2,
           \A i \in 1 .. number + 1 : h1[i] = h2[i]
    PROVE  applyHeader(s, h1, number) = applyHeader(s, h2, number)
<1> DEFINE v == h1[number + 1].signer
           older == ForgetOldest(s, number)
           recorded == Record(older, number, v)
<1>1. v = h2[number + 1].signer
  OBVIOUS
<1>2. IsSnapshot(s)
  BY DEF Snapshot, IsSnapshot
<1>3. recorded.TurnLength = s.TurnLength /\ recorded.Validators = s.Validators
  BY <1>2, ForgetFields, RecordFields
<1>4. minerHistoryCheckLen(recorded) = minerHistoryCheckLen(s) /\ minerHistoryCheckLen(s) \in Nat
  BY <1>3, HistoryLength DEF minerHistoryCheckLen
<1> HIDE DEF v, older, recorded
<1>5. Switches(recorded, number) => Switch(recorded, h1, number) = Switch(recorded, h2, number)
  <2> SUFFICES ASSUME Switches(recorded, number)
               PROVE  Switch(recorded, h1, number) = Switch(recorded, h2, number)
    OBVIOUS
  <2> DEFINE first == number - minerHistoryCheckLen(recorded)
  <2>1. first \in Nat /\ first <= number
    BY <1>4, Checkpoint DEF Switches
  <2>2. h1[first + 1] = h2[first + 1]
    BY <2>1
  <2> QED BY <2>2 DEF Switch, parseTurnLength
<1> QED BY <1>1, <1>5 DEF applyHeader, v, older, recorded

(* A sealed block's snapshot is apply of its header on the parent's.       *)
LEMMA SealApplies ==
    ASSUME ChainInv, NEW v, NEW V, NEW t, SealedBy(v, V, t)
    PROVE  applyHeader(Snap, chain', Top + 1) = {[Snap' EXCEPT !.Number = Top]}
<1>0. v \in Validator /\ V \in SUBSET Validator /\ t \in Nat /\ Seal(v, V, t)
  BY DEF SealedBy
<1>1. /\ Top \in Nat /\ Snap \in Snapshot /\ Snap.Number = Top /\ snaps' = Append(snaps, Snap')
      /\ Len(snaps') = Len(snaps) + 1 /\ Top' = Top + 1
  BY <1>0, SealEffect, Zenon
<1>2. PICK u \in applyHeader(Snap, chain', Top + 1) : snaps' = Append(snaps, [u EXCEPT !.Number = Top + 1])
  BY Zenon DEF SealedBy, Seal
<1>3. applyHeader(Snap, chain', Top + 1) = {u} /\ IsSnapshot(u) /\ u.Number = Top
  BY <1>1, ApplyHeaderSingle
<1>4. snaps \in Seq(Snapshot)
  BY DEF ChainInv
<1> DEFINE w == [u EXCEPT !.Number = Top + 1]
<1>5. Snap' = w
  <2>1. Snap' = snaps'[Len(snaps')]
    BY DEF Snap
  <2> HIDE DEF w
  <2>2. snaps' = Append(snaps, w)
    BY <1>2 DEF w
  <2> QED BY <1>1, <1>4, <2>1, <2>2
<1>6. u = [w EXCEPT !.Number = Top]
  <2> DEFINE T == u.TurnLength
             X == u.Validators
             R == u.Recents
             K == u.epochKey
             H == u.RecentForkHashes
  <2>1. u = [Number |-> Top, TurnLength |-> T, Validators |-> X, Recents |-> R, epochKey |-> K, RecentForkHashes |-> H]
    BY <1>3 DEF IsSnapshot
  <2> HIDE DEF T, X, R, K, H
  <2>2. w = [Number |-> Top + 1, TurnLength |-> T, Validators |-> X, Recents |-> R, epochKey |-> K, RecentForkHashes |-> H]
    BY <2>1
  <2> HIDE DEF w
  <2> QED BY <2>1, <2>2
<1> HIDE DEF w
<1> QED BY <1>3, <1>5, <1>6

(* Sealing extends the history.                                            *)
LEMMA SealHistory ==
    ASSUME ChainInv, HistoryInv, ChainInv', SwitchInv', RecentsInv', NEW v, NEW V, NEW t, SealedBy(v, V, t)
    PROVE  HistoryInv'
<1>0. v \in Validator /\ V \in SUBSET Validator /\ t \in Nat /\ Seal(v, V, t)
  BY DEF SealedBy
<1>1. /\ Top \in Nat /\ Snap \in Snapshot /\ Top' = Top + 1
      /\ \A i \in 1 .. Len(chain) : chain'[i] = chain[i] /\ snaps'[i] = snaps[i]
  BY <1>0, SealEffect, Zenon
<1>2. Len(chain) = Top + 1 /\ Len(snaps) = Top + 1 /\ Snap = snaps[Top + 1]
  BY <1>1 DEF ChainInv, Top, Snap
<1>3. Snap' = snaps'[Top + 2]
  <2>1. Snap' = snaps'[Len(snaps')] /\ Len(snaps') = Len(chain') /\ Top' = Len(chain') - 1
    BY DEF Snap, Top, ChainInv
  <2>2. Len(chain') \in Nat
    BY DEF ChainInv
  <2> QED BY <1>1, <2>1, <2>2
<1>4. /\ GoodSnap(Snap', Top')
      /\ \A e \in Nat : e * Epoch + Epoch - 1 = Top' => EpochEnd(Snap', chain', e)
  BY LastSnapNext
<1>5. ASSUME NEW j \in 0 .. Top' PROVE GoodSnap(snaps'[j + 1], j)
  <2>1. CASE j = Top + 1
    BY <1>1, <1>3, <1>4, <2>1
  <2>2. CASE j # Top + 1
    <3>1. j \in 0 .. Top /\ j + 1 \in 1 .. Len(chain)
      BY <1>1, <1>2, <2>2
    <3> QED BY <1>1, <3>1 DEF HistoryInv
  <2> QED BY <2>1, <2>2
<1>6. ASSUME NEW j \in 1 .. Top'
      PROVE  applyHeader(snaps'[j], chain', j) = {[snaps'[j + 1] EXCEPT !.Number = j - 1]}
  <2>1. CASE j = Top + 1
    <3>1. snaps'[j] = Snap /\ snaps'[j + 1] = Snap' /\ j - 1 = Top
      BY <1>1, <1>2, <1>3, <2>1
    <3> QED BY <2>1, <3>1, SealApplies
  <2>2. CASE j # Top + 1
    <3>1. j \in 1 .. Top /\ j + 1 \in 1 .. Len(chain) /\ j \in 1 .. Len(chain) /\ j - 1 \in 0 .. Top /\ (j - 1) + 1 = j
      BY <1>1, <1>2, <2>2
    <3>2. applyHeader(snaps[j], chain, j) = {[snaps[j + 1] EXCEPT !.Number = j - 1]}
      BY <3>1 DEF HistoryInv
    <3>3. snaps[j] \in Snapshot
      BY <3>1 DEF HistoryInv, GoodSnap
    <3>4. \A i \in 1 .. j + 1 : chain[i] = chain'[i]
      BY <1>1, <1>2, <3>1
    <3>5. applyHeader(snaps[j], chain, j) = applyHeader(snaps[j], chain', j)
      BY <3>1, <3>3, <3>4, ApplyHeaderPrefix
    <3> QED BY <1>1, <3>1, <3>2, <3>5, Zenon
  <2> QED BY <2>1, <2>2
<1>7. ASSUME NEW e \in Nat, e * Epoch + Epoch - 1 <= Top'
      PROVE  EpochEnd(snaps'[e * Epoch + Epoch], chain', e)
  <2>0. e * Epoch \in Nat /\ Epoch \in Nat \ {0}
    BY SnapshotAssumption
  <2> DEFINE b == e * Epoch
  <2> HIDE DEF b
  <2>1. CASE b + Epoch - 1 = Top'
    <3>1. b + Epoch = Top + 2
      BY <1>1, <2>0, <2>1 DEF b
    <3>2. EpochEnd(Snap', chain', e)
      BY <1>4, <2>1 DEF b
    <3> QED BY <1>3, <3>1, <3>2 DEF b
  <2>2. CASE b + Epoch - 1 # Top'
    <3>1. b + Epoch - 1 <= Top /\ b + Epoch \in 1 .. Len(chain) /\ b + 1 \in 1 .. Len(chain)
      BY <1>1, <1>2, <1>7, <2>0, <2>2 DEF b
    <3>2. EpochEnd(snaps[b + Epoch], chain, e)
      BY <3>1 DEF HistoryInv, b
    <3>3. snaps'[b + Epoch] = snaps[b + Epoch] /\ chain'[b + 1] = chain[b + 1]
      BY <1>1, <3>1
    <3> QED BY <3>2, <3>3 DEF EpochEnd, parseTurnLength, b
  <2> QED BY <2>1, <2>2
<1> QED BY <1>5, <1>6, <1>7 DEF HistoryInv

(* The history holds in every reachable state.                             *)
THEOREM HistoryInvariant == Spec => []HistoryInv
<1>1. Init => HistoryInv
  <2> SUFFICES ASSUME Init PROVE HistoryInv
    OBVIOUS
  <2>1. ChainInv /\ SwitchInv /\ RecentsInv
    BY InitSnapshot
  <2>2. Len(snaps) = 1 /\ Top = 0 /\ Snap = snaps[1]
    BY DEF Init, Top, Snap
  <2>3. /\ GoodSnap(Snap, Top)
        /\ \A e \in Nat : e * Epoch + Epoch - 1 = Top => EpochEnd(Snap, chain, e)
    BY <2>1, LastSnap
  <2>4. \A e \in Nat : e * Epoch + Epoch - 1 <= 0 => e * Epoch + Epoch = 1 /\ e * Epoch + Epoch - 1 = 0
    <3> TAKE e \in Nat
    <3>1. e * Epoch \in Nat /\ Epoch \in Nat \ {0}
      BY SnapshotAssumption
    <3> QED BY <3>1
  <2>5. \A e \in Nat : e * Epoch + Epoch - 1 <= Top => EpochEnd(snaps[e * Epoch + Epoch], chain, e)
    BY <2>2, <2>3, <2>4
  <2> QED BY <2>2, <2>3, <2>5 DEF HistoryInv
<1>2. /\ ChainInv /\ HistoryInv /\ ChainInv' /\ SwitchInv' /\ RecentsInv' /\ [Next]_vars
      => HistoryInv'
  <2> SUFFICES ASSUME ChainInv, HistoryInv, ChainInv', SwitchInv', RecentsInv', [Next]_vars
               PROVE  HistoryInv'
    OBVIOUS
  <2>1. CASE Next
    BY <2>1, NextSeals, SealHistory
  <2>2. CASE UNCHANGED vars
    BY <2>2 DEF vars, HistoryInv, Top
  <2> QED BY <2>1, <2>2
<1> QED BY <1>1, <1>2, SnapshotInvariant, PTL DEF Spec

(* A set of block numbers has a least one.                                 *)
LEMMA LeastNumber ==
    ASSUME NEW T \in SUBSET Nat, T # {}
    PROVE  \E k \in T : \A j \in T : k <= j
<1>1. PICK N \in T : TRUE
  BY Zenon
<1> DEFINE B == {k \in T : k <= N}
           F == {1 .. k : k \in B}
           S == 1 .. N
<1>2. N \in Nat /\ IsFiniteSet(S)
  BY <1>1, FS_Interval
<1>3. F \in SUBSET SUBSET S /\ F # {}
  BY <1>2
<1>4. PICK m \in F : \A U \in F : U \subseteq m => U = m
  <2> HIDE DEF F, S
  <2> QED BY <1>2, <1>3, MinimalSubset
<1>5. PICK k \in B : m = 1 .. k
  BY <1>4
<1>6. ASSUME NEW j \in T PROVE k <= j
  <2> SUFFICES ASSUME j < k PROVE FALSE
    BY <1>5
  <2>1. j \in B /\ j \in Nat /\ k \in Nat
    BY <1>2, <1>5
  <2>2. 1 .. j \in F /\ 1 .. j \subseteq m
    BY <1>5, <2>1
  <2>3. 1 .. j = 1 .. k
    BY <1>4, <1>5, <2>2, Zenon
  <2>4. k \in 1 .. k /\ k \notin 1 .. j
    BY <2>1
  <2> QED BY <2>3, <2>4
<1> QED BY <1>5, <1>6

(* f[n] is what apply has made of s after header n.                        *)
IsRun(f, s, headers, hi) ==
    f = [n \in s.Number .. hi |->
            IF n = s.Number THEN {s} ELSE UNION {applyHeader(t, headers, n) : t \in f[n - 1]}]

(* apply of a batch is the last of a run of snapshots, each of which is    *)
(* what apply of one header makes of the one before.                       *)
LEMMA RunOfBatch ==
    ASSUME NEW s, NEW headers, NEW hi \in Nat, s.Number \in Nat, s.Number <= hi,
           NEW g, g[s.Number] = s,
           \A n \in s.Number + 1 .. hi : applyHeader(g[n - 1], headers, n) = {g[n]}
    PROVE  apply(s, headers, hi) = {[g[hi] EXCEPT !.Number = hi]}
<1> DEFINE lo == s.Number
           G == [n \in lo .. hi |-> {g[n]}]
           f == CHOOSE x : IsRun(x, s, headers, hi)
<1>1. IsRun(G, s, headers, hi)
  <2>1. ASSUME NEW n \in lo .. hi
        PROVE  {g[n]} = IF n = lo THEN {s} ELSE UNION {applyHeader(t, headers, n) : t \in G[n - 1]}
    <3>1. CASE n = lo
      BY <3>1
    <3>2. CASE n # lo
      <4>1. n \in lo + 1 .. hi /\ n - 1 \in lo .. hi
        BY <2>1, <3>2
      <4>2. G[n - 1] = {g[n - 1]}
        BY <4>1
      <4>3. applyHeader(g[n - 1], headers, n) = {g[n]}
        BY <4>1
      <4> HIDE DEF G
      <4>4. UNION {applyHeader(t, headers, n) : t \in G[n - 1]} = {g[n]}
        BY <4>2, <4>3
      <4> QED BY <3>2, <4>4
    <3> QED BY <3>1, <3>2, Zenon
  <2> QED BY <2>1, Zenon DEF IsRun
<1>2. IsRun(f, s, headers, hi)
  BY <1>1
<1>3. apply(s, headers, hi) = {[t EXCEPT !.Number = hi] : t \in f[hi]}
  BY DEF apply, IsRun
<1> HIDE DEF f, G
<1>4. \A n \in lo .. hi : f[n] = {g[n]}
  <2> DEFINE Bad == {n \in lo .. hi : f[n] # {g[n]}}
  <2> SUFFICES ASSUME Bad # {} PROVE FALSE
    OBVIOUS
  <2>1. Bad \in SUBSET Nat
    OBVIOUS
  <2>2. PICK k \in Bad : \A j \in Bad : k <= j
    <3> HIDE DEF Bad
    <3> QED BY <2>1, LeastNumber
  <2>3. k \in lo .. hi /\ f[k] # {g[k]}
    OBVIOUS
  <2>4. f[k] = IF k = lo THEN {s} ELSE UNION {applyHeader(t, headers, k) : t \in f[k - 1]}
    BY <1>2, <2>3, Zenon DEF IsRun
  <2>5. CASE k = lo
    BY <2>3, <2>4, <2>5
  <2>6. CASE k # lo
    <3>1. k \in lo + 1 .. hi /\ k - 1 \in lo .. hi /\ ~(k <= k - 1)
      BY <2>3, <2>6
    <3>2. f[k - 1] = {g[k - 1]}
      BY <2>2, <3>1
    <3>3. applyHeader(g[k - 1], headers, k) = {g[k]}
      BY <3>1
    <3> HIDE DEF Bad
    <3> QED BY <2>3, <2>4, <2>6, <3>2, <3>3
  <2> QED BY <2>5, <2>6
<1>5. hi \in lo .. hi
  OBVIOUS
<1> QED BY <1>3, <1>4, <1>5

(* A cut that leaves out nothing after block n.                            *)
CutUpTo(n, c, d) == \A j \in n + 1 .. Top : c < j /\ d < j \div Epoch

(* A batch applied from block n to the head, on the snapshot of block n or *)
(* on a cut of it, gives the snapshot of the head with the same cut.       *)
LEMMA CutRun ==
    ASSUME ChainInv, HistoryInv, NEW n \in 0 .. Top, NEW c \in Int, NEW d \in Int,
           CutUpTo(n, c, d)
    PROVE  apply(Cut(snaps[n + 1], n, c, d), chain, Top) = {Cut(Snap, Top, c, d)}
<1> DEFINE s == Cut(snaps[n + 1], n, c, d)
           g == [j \in n .. Top |-> Cut(snaps[j + 1], n, c, d)]
<1>1. Top \in Nat /\ n \in Nat /\ n <= Top /\ Snap = snaps[Top + 1]
  BY DEF ChainInv, Top, Snap
<1>2. s.Number = n
  BY CutFields
<1>3. g[n] = s /\ g[Top] = Cut(Snap, n, c, d)
  BY <1>1
<1>4. ASSUME NEW j \in n + 1 .. Top PROVE applyHeader(g[j - 1], chain, j) = {g[j]}
  <2> DEFINE u == [snaps[j + 1] EXCEPT !.Number = j - 1]
  <2>1. j \in 1 .. Top /\ j - 1 \in 0 .. Top /\ j \in Nat \ {0} /\ c < j /\ d < j \div Epoch
        /\ j - 1 \in n .. Top /\ j \in n .. Top /\ j \in 0 .. Top /\ (j - 1) + 1 = j
    BY <1>1 DEF CutUpTo
  <2>2. GoodSnap(snaps[j], j - 1) /\ GoodSnap(snaps[j + 1], j) /\ applyHeader(snaps[j], chain, j) = {u}
    BY <2>1, Zenon DEF HistoryInv
  <2>3. g[j - 1] = Cut(snaps[j], n, c, d) /\ g[j] = Cut(snaps[j + 1], n, c, d)
    BY <2>1
  <2>4. Cut(u, n, c, d) = Cut(snaps[j + 1], n, c, d)
    BY <2>2 DEF Cut, GoodSnap, Snapshot
  <2> HIDE DEF u, g
  <2>5. applyHeader(Cut(snaps[j], n, c, d), chain, j) = {Cut(u, n, c, d)}
    BY <2>1, <2>2, CutStep DEF GoodSnap
  <2> QED BY <2>3, <2>4, <2>5
<1> HIDE DEF g, s
<1>5. apply(s, chain, Top) = {[g[Top] EXCEPT !.Number = Top]}
  <2>1. s.Number \in Nat /\ s.Number <= Top /\ g[s.Number] = s
    BY <1>1, <1>2, <1>3
  <2>2. \A j \in s.Number + 1 .. Top : applyHeader(g[j - 1], chain, j) = {g[j]}
    BY <1>2, <1>4
  <2> QED BY <1>1, <2>1, <2>2, RunOfBatch
<1>6. [Cut(Snap, n, c, d) EXCEPT !.Number = Top] = Cut(Snap, Top, c, d)
  <2> DEFINE R == {r \in Snap.Recents : r[1] > c}
             K == {k \in Snap.epochKey : k > d}
             H == {h \in Snap.RecentForkHashes : h > c}
             C(m) == [Number |-> m, TurnLength |-> Snap.TurnLength, Validators |-> Snap.Validators,
                      Recents |-> R, epochKey |-> K, RecentForkHashes |-> H]
  <2>1. Cut(Snap, n, c, d) = C(n) /\ Cut(Snap, Top, c, d) = C(Top)
    BY DEF Cut
  <2> HIDE DEF R, K, H
  <2>2. [C(n) EXCEPT !.Number = Top] = C(Top)
    OBVIOUS
  <2> HIDE DEF C
  <2> QED BY <2>1, <2>2
<1> QED BY <1>3, <1>5, <1>6 DEF s

(* A cut before the first block is no cut.                                 *)
LEMMA CutNothing ==
    ASSUME NEW s \in Snapshot
    PROVE  Cut(s, s.Number, -1, -1) = s
<1>1. IsSnapshot(s)
  BY DEF Snapshot, IsSnapshot
<1>2. s.Recents \in SUBSET (Nat \X Validator) /\ s.epochKey \in SUBSET Nat /\ s.RecentForkHashes \in SUBSET Nat
  BY DEF Snapshot
<1>3. {r \in s.Recents : r[1] > -1} = s.Recents
  BY <1>2
<1>4. {k \in s.epochKey : k > -1} = s.epochKey /\ {h \in s.RecentForkHashes : h > -1} = s.RecentForkHashes
  BY <1>2
<1> QED BY <1>1, <1>3, <1>4 DEF Cut, IsSnapshot

(* Every node computes the same snapshot of a block, from whichever        *)
(* earlier snapshot it starts: apply of a batch of headers gives what one  *)
(* header at a time gave.                                                  *)
THEOREM BatchOrOneByOne == Spec => []BatchesAgree
<1>1. ChainInv /\ HistoryInv => BatchesAgree
  <2> SUFFICES ASSUME ChainInv, HistoryInv, NEW n \in 0 .. Top - 1
               PROVE  apply(snaps[n + 1], chain, Top) = {Snap}
    BY DEF BatchesAgree
  <2>1. Top \in Nat /\ n \in 0 .. Top /\ Top \in 0 .. Top /\ Snap = snaps[Top + 1] /\ n \in Nat
    BY DEF ChainInv, Top, Snap
  <2>2. GoodSnap(snaps[n + 1], n) /\ GoodSnap(Snap, Top)
    BY <2>1 DEF HistoryInv
  <2>3. CutUpTo(n, -1, -1)
    BY <2>1, SnapshotAssumption DEF CutUpTo
  <2>4. apply(Cut(snaps[n + 1], n, -1, -1), chain, Top) = {Cut(Snap, Top, -1, -1)}
    <3>1. -1 \in Int
      OBVIOUS
    <3> QED BY <2>1, <2>3, <3>1, CutRun, SMTT(20)
  <2> QED BY <2>2, <2>4, CutNothing DEF GoodSnap
<1> QED BY <1>1, SnapshotInvariant, HistoryInvariant, PTL

(* A snapshot that findSnapshot makes without history at the last block of *)
(* an epoch never rejects a later header; its set and turn length are      *)
(* those of the full snapshot, and its recent signers those of the full    *)
(* snapshot since then.                                                    *)
THEOREM FreshSnapshotCatchesUp == Spec => []FreshSnapshotConverges
<1>1. ChainInv /\ HistoryInv => FreshSnapshotConverges
  <2> SUFFICES ASSUME ChainInv, HistoryInv, NEW n \in 0 .. Top, (n + 1) % Epoch = 0
               PROVE  LET fresh == apply(newSnapshot(chain, n, n + 1 - Epoch), chain, Top)
                      IN /\ fresh # {}
                         /\ \A s \in fresh :
                               /\ s.Validators = Snap.Validators /\ s.TurnLength = Snap.TurnLength
                               /\ s.Recents = {r \in Snap.Recents : r[1] > n}
    BY DEF FreshSnapshotConverges
  <2> DEFINE d == n \div Epoch
             s == snaps[n + 1]
  <2>1. Top \in Nat /\ n \in Nat /\ Epoch \in Nat \ {0} /\ d \in Nat
    BY SnapshotAssumption DEF ChainInv, Top
  <2>2. n + 1 = d * Epoch + Epoch /\ (n + 1) \div Epoch = d + 1
    <3> DEFINE q == (n + 1) \div Epoch
    <3>1. n + 1 \in Nat /\ q \in Nat /\ n + 1 = q * Epoch
      BY <2>1, DivMod
    <3>2. q # 0
      BY <2>1, <3>1
    <3>3. q - 1 \in Nat /\ n = (q - 1) * Epoch + (Epoch - 1)
      BY <2>1, <3>1, <3>2
    <3>4. d = q - 1
      BY <2>1, <3>3, DivModUnique
    <3> QED BY <2>1, <3>1, <3>4
  <2>3. EpochEnd(s, chain, d) /\ GoodSnap(s, n)
    BY <2>1, <2>2 DEF HistoryInv
  <2>4. newSnapshot(chain, n, n + 1 - Epoch) = Cut(s, n, n, d)
    <3>1. n + 1 - Epoch = d * Epoch
      BY <2>1, <2>2
    <3>2. {r \in s.Recents : r[1] > n} = {}
      BY <2>1, <2>3 DEF GoodSnap
    <3>3. {k \in s.epochKey : k > d} = {}
      BY <2>1, <2>3 DEF GoodSnap, EpochEnd, Snapshot
    <3>4. {h \in s.RecentForkHashes : h > n} = {}
      BY <2>1, <2>3 DEF GoodSnap
    <3> HIDE DEF s, d
    <3> QED BY <2>3, <3>1, <3>2, <3>3, <3>4, Zenon DEF newSnapshot, Cut, EpochEnd
  <2>5. CutUpTo(n, n, d)
    <3> SUFFICES ASSUME NEW j \in n + 1 .. Top PROVE d < j \div Epoch
      BY <2>1 DEF CutUpTo
    <3>1. j >= (d + 1) * Epoch /\ j \in Nat
      BY <2>1, <2>2
    <3> QED BY <2>1, <3>1, DivMod
  <2>6. apply(Cut(s, n, n, d), chain, Top) = {Cut(Snap, Top, n, d)}
    <3>1. n \in Int /\ d \in Int
      BY <2>1
    <3> HIDE DEF d
    <3> QED BY <2>5, <3>1, CutRun
  <2> QED BY <2>4, <2>6, CutFields
<1> QED BY <1>1, SnapshotInvariant, HistoryInvariant, PTL

-----------------------------------------------------------------------------
(* Taking turns.                                                           *)

(* Bohr does not begin inside the first blocks of an epoch, where the set  *)
(* may have switched before Bohr, without the marker that makes the second *)
(* switch of the epoch be skipped.                                         *)
ForkOutsideSwitch ==
    \/ BohrBlock % Epoch = 0
    \/ \A V \in Announced : CheckLen(Cardinality(V), defaultTurnLength) < BohrBlock % Epoch

(* No block signed since the last switch is missing from the history that  *)
(* is checked.                                                             *)
HistoryKept ==
    \A m \in Nat : m = Top =>
       \A n \in 1 .. m : n > LastSwitch(m) /\ n >= m - minerHistoryCheckLen(Snap)
                         => <<n, chain[n + 1].signer>> \in Snap.Recents

(* SignersTakeTurns of the block m at the head.                            *)
TurnsInv ==
    \A m \in Nat \ {0} : m = Top =>
       LET first  == Max({LastSwitch(m - 1) + 1, m - minerHistoryCheckLen(snaps[m])})
           signed == {n \in first .. m : chain[n + 1].signer = chain[m + 1].signer}
       IN Cardinality(signed) <= snaps[m].TurnLength

(* The last switch at or before a block does not move when the chain grows. *)
LEMMA LastSwitchKept ==
    ASSUME ChainInv, NEW v, NEW V, NEW t, SealedBy(v, V, t), NEW m \in Nat, m <= Top + 1
    PROVE  LastSwitch(m)' = LastSwitch(m) /\ LastSwitch(m) \in Nat
<1> DEFINE e == m \div Epoch
<1>1. Top \in Nat
  BY DEF ChainInv, Top
<1>2. e \in Nat /\ Epoch \in Nat \ {0} /\ (m % Epoch) \in Nat /\ m = e * Epoch + (m % Epoch)
  BY DivMod, SnapshotAssumption
<1>3. e * Epoch \in Nat /\ e * Epoch <= Top + 1
  <2>1. e * Epoch \in Nat
    BY <1>2
  <2> QED BY <1>1, <1>2, <2>1
<1> HIDE DEF e
<1>4. SwitchPoint(e)' = SwitchPoint(e) /\ SwitchPoint(e) \in Nat
  <2>1. /\ SwitchPoint(e)' = SwitchPoint(e) /\ SwitchPoint(e)' = e * Epoch + minerHistoryCheckLen(Before(e)')
        /\ minerHistoryCheckLen(Before(e)') \in 0 .. Epoch - 1
    BY <1>2, <1>3, SwitchPointKept
  <2> QED BY <1>2, <1>3, <2>1
<1>5. e > 0 => SwitchPoint(e - 1)' = SwitchPoint(e - 1) /\ SwitchPoint(e - 1) \in Nat
  <2> SUFFICES ASSUME e > 0 PROVE SwitchPoint(e - 1)' = SwitchPoint(e - 1) /\ SwitchPoint(e - 1) \in Nat
    OBVIOUS
  <2> DEFINE d == e - 1
  <2>1. d \in Nat /\ d * Epoch = e * Epoch - Epoch
    BY <1>2
  <2>2. d * Epoch \in Nat /\ d * Epoch <= Top + 1
    <3>1. d * Epoch \in Nat
      BY <1>2, <2>1
    <3> QED BY <1>1, <1>2, <1>3, <2>1, <3>1
  <2> HIDE DEF d
  <2>3. /\ SwitchPoint(d)' = SwitchPoint(d) /\ SwitchPoint(d)' = d * Epoch + minerHistoryCheckLen(Before(d)')
        /\ minerHistoryCheckLen(Before(d)') \in 0 .. Epoch - 1
    BY <2>1, <2>2, SwitchPointKept
  <2> QED BY <1>2, <2>2, <2>3 DEF d
<1> QED BY <1>2, <1>4, <1>5 DEF LastSwitch, e

(* The next block is a last switch itself, at the switch point of its      *)
(* epoch, or has the last switch of its parent.                            *)
LEMMA LastSwitchNext ==
    ASSUME ChainInv, SwitchInv, NEW v, NEW V, NEW t, SealedBy(v, V, t),
           NEW m \in Nat, m = Top,
           NEW e \in Nat, e = (m + 1) \div Epoch,
           NEW c \in Nat, c = (m + 1) % Epoch
    PROVE  /\ c = minerHistoryCheckLen(Before(e)) => LastSwitch(m + 1) = m + 1
           /\ c # minerHistoryCheckLen(Before(e)) => LastSwitch(m + 1) = LastSwitch(m)
<1> DEFINE K == minerHistoryCheckLen(Before(e))
<1>1. /\ m + 1 = e * Epoch + c /\ e * Epoch <= m + 1 /\ c < Epoch
      /\ (c > K => e = m \div Epoch)
  BY Phase
<1>2. SwitchPoint(e) = e * Epoch + K /\ K \in 0 .. Epoch - 1 /\ e * Epoch \in Nat /\ Epoch \in Nat \ {0}
  BY <1>1, SwitchPointKept
<1> HIDE DEF K
<1>3. CASE c = K
  <2>1. SwitchPoint(e) = m + 1
    BY <1>1, <1>2, <1>3
  <2> QED BY <1>3, <2>1 DEF LastSwitch, K
<1>4. CASE c > K
  <2>1. SwitchPoint(e) <= m /\ SwitchPoint(e) <= m + 1 /\ e = m \div Epoch
    BY <1>1, <1>2, <1>4
  <2>2. LastSwitch(m + 1) = SwitchPoint(e) /\ LastSwitch(m) = SwitchPoint(e)
    BY <2>1 DEF LastSwitch
  <2> QED BY <1>2, <1>4, <2>2 DEF K
<1>5. CASE c < K
  <2>1. ~(SwitchPoint(e) <= m) /\ ~(SwitchPoint(e) <= m + 1) /\ c # K
    BY <1>1, <1>2, <1>5
  <2>2. CASE c # 0
    <3>1. e = m \div Epoch
      BY <2>2, NextBlock
    <3>2. LastSwitch(m + 1) = LastSwitch(m)
      BY <2>1, <3>1 DEF LastSwitch
    <3> QED BY <2>1, <3>2 DEF K
  <2>3. CASE c = 0
    <3> DEFINE d == m \div Epoch
    <3>1. e = d + 1 /\ m + 1 = e * Epoch /\ d \in Nat
      BY <2>3, NextBlock, DivMod
    <3>2. e > 0 /\ e - 1 = d /\ d * Epoch = e * Epoch - Epoch /\ d * Epoch \in Nat
      BY <1>2, <3>1
    <3>3. d * Epoch <= Top + 1 /\ m = d * Epoch + Epoch - 1
      BY <1>2, <3>1, <3>2
    <3> HIDE DEF d
    <3>4. /\ SwitchPoint(d) = d * Epoch + minerHistoryCheckLen(Before(d))
          /\ minerHistoryCheckLen(Before(d)) \in 0 .. Epoch - 1
      BY <3>1, <3>3, SwitchPointKept
    <3>5. SwitchPoint(d) <= m
      BY <1>2, <3>2, <3>3, <3>4
    <3>6. LastSwitch(m) = SwitchPoint(d)
      BY <3>5 DEF LastSwitch, d
    <3>7. LastSwitch(m + 1) = SwitchPoint(d)
      BY <2>1, <3>2 DEF LastSwitch
    <3> QED BY <2>1, <3>6, <3>7 DEF K
  <2> QED BY <2>2, <2>3
<1>6. c = K \/ c > K \/ c < K
  BY <1>2
<1> QED BY <1>3, <1>4, <1>5, <1>6

(* Past the switch point of an epoch nothing is cleared: the second switch *)
(* is skipped under Bohr, or happens before Bohr and trims nothing, unless *)
(* Bohr began between the two.                                             *)
LEMMA NothingCleared ==
    ASSUME ForkOutsideSwitch, ChainInv, SwitchInv, NEW v, NEW V, NEW t, SealedBy(v, V, t),
           NEW m \in Nat, m = Top,
           NEW e \in Nat, e = (m + 1) \div Epoch,
           NEW c \in Nat, c = (m + 1) % Epoch,
           c # minerHistoryCheckLen(Before(e))
    PROVE  /\ Snap'.Recents = Recorded(Snap, m + 1, v)
           /\ minerHistoryCheckLen(Snap') = minerHistoryCheckLen(Snap)
           /\ Snap'.epochKey = Snap.epochKey
<1> DEFINE K == minerHistoryCheckLen(Before(e))
           L == minerHistoryCheckLen(Snap)
<1>0. v \in Validator /\ V \in SUBSET Validator /\ t \in Nat /\ Seal(v, V, t)
  BY DEF SealedBy
<1>1. Snap \in Snapshot /\ Applied(Snap, Snap', chain', m + 1, v)
  BY <1>0, SealEffect, Zenon
<1>2. /\ m + 1 = e * Epoch + c /\ e * Epoch <= m + 1 /\ c < Epoch
      /\ (c > K => e = m \div Epoch /\ Switched(e))
  BY Phase
<1>3. /\ SwitchPoint(e) = e * Epoch + K /\ K \in 0 .. Epoch - 1 /\ e * Epoch \in Nat
      /\ Epoch \in Nat \ {0} /\ BohrBlock \in Nat
  BY <1>2, SwitchPointKept, SnapshotAssumption
<1>4. /\ (c < K => ~SwitchNow(Snap, m + 1))
      /\ Snap'.Validators = Snap.Validators /\ Snap'.TurnLength = Snap.TurnLength
  BY <1>3, StepCases
<1>5. minerHistoryCheckLen(Snap') = L
  BY <1>4, SMTT(20) DEF minerHistoryCheckLen
<1>6. CASE ~SwitchNow(Snap, m + 1)
  BY <1>1, <1>5, <1>6 DEF Applied
<1>7. CASE SwitchNow(Snap, m + 1)
  <2>1. c > K /\ Switched(e) /\ c = L
    BY <1>2, <1>3, <1>4, <1>7 DEF SwitchNow
  <2>2. CASE ~IsBohr(m + 1)
    <3> DEFINE a == Cardinality(Snap.Validators) \div 2 + 1
               R == Recorded(Snap, m + 1, v)
    <3>1. a \in Int
      BY <1>1, HistoryLength, SMTT(20)
    <3>2. Snap'.Recents = Trimmed(R, m + 1, Snap.Validators, Snap.Validators)
      BY <1>1, <1>4, <1>7, <2>2 DEF Applied
    <3>3. Trimmed(R, m + 1, Snap.Validators, Snap.Validators)
              = {r \in R : r[1] \notin (m + 1) - a + 1 .. (m + 1) - a}
      BY DEF Trimmed
    <3> HIDE DEF R, a
    <3>4. (m + 1) - a + 1 .. (m + 1) - a = {}
      BY <3>1
    <3>5. Snap'.Recents = R
      BY <3>2, <3>3, <3>4, Zenon
    <3>6. Snap'.epochKey = Snap.epochKey
      BY <1>1, <1>7, <2>2 DEF Applied
    <3> QED BY <1>5, <3>5, <3>6, SMTT(20) DEF R
  <2>3. CASE IsBohr(m + 1)
    <3>1. e \notin Snap.epochKey
      BY <1>7, <2>3 DEF SwitchNow
    <3>2. e # 0
      <4> SUFFICES ASSUME e = 0 PROVE FALSE
        OBVIOUS
      <4>1. L = K
        BY <2>1 DEF Switched, minerHistoryCheckLen
      <4> QED BY <1>3, <2>1, <4>1
    <3>3. ~IsBohr(SwitchPoint(e))
      BY <2>1, <3>1, <3>2 DEF Switched
    <3> DEFINE b == BohrBlock - e * Epoch
    <3>4. b > K /\ b <= c /\ b \in 0 .. Epoch - 1 /\ b # 0 /\ BohrBlock = e * Epoch + b
      BY <1>2, <1>3, <2>3, <3>3 DEF IsBohr
    <3> HIDE DEF b
    <3>5. BohrBlock % Epoch = b
      BY <1>3, <3>4, DivModUnique
    <3>6. Snap.TurnLength = defaultTurnLength
      <4>1. ~IsBohr(e * Epoch)
        BY <1>3, <3>4 DEF IsBohr
      <4> QED BY <2>1, <4>1 DEF Switched, FromHeader, parseTurnLength
    <3>7. L = CheckLen(Cardinality(Snap.Validators), defaultTurnLength) /\ Snap.Validators \in Announced
      BY <1>1, <3>6 DEF minerHistoryCheckLen, Snapshot
    <3>8. L < b
      BY <3>4, <3>5, <3>7 DEF ForkOutsideSwitch
    <3> QED BY <1>3, <2>1, <3>4, <3>8
  <2> QED BY <2>2, <2>3
<1> QED BY <1>6, <1>7

(* A sealed block keeps the history that is needed.                        *)
LEMMA SealKeepsHistory ==
    ASSUME ForkOutsideSwitch, ChainInv, SwitchInv, HistoryKept, NEW v, NEW V, NEW t, SealedBy(v, V, t)
    PROVE  HistoryKept'
<1>0. v \in Validator /\ V \in SUBSET Validator /\ t \in Nat /\ Seal(v, V, t)
  BY DEF SealedBy
<1>1. /\ Top \in Nat /\ Snap \in Snapshot /\ Top' = Top + 1 /\ chain'[Top + 2].signer = v
      /\ \A i \in 1 .. Top + 1 : chain'[i] = chain[i]
  <2>1. Top + 1 = Len(chain)
    BY SMTT(20) DEF Top, ChainInv
  <2>2. /\ Top \in Nat /\ Snap \in Snapshot /\ Top' = Top + 1
        /\ \A i \in 1 .. Len(chain) : chain'[i] = chain[i] /\ snaps'[i] = snaps[i]
        /\ chain'[Top + 2] = [signer |-> v, validators |-> V, turnLength |-> t]
    BY <1>0, SealEffect
  <2> QED BY <2>1, <2>2
<1> SUFFICES ASSUME NEW m \in Nat, m = Top,
                    NEW n \in 1 .. m + 1, n > LastSwitch(m + 1)',
                    n >= (m + 1) - minerHistoryCheckLen(Snap')
             PROVE  <<n, chain'[n + 1].signer>> \in Snap'.Recents
  <2>1. \A k \in Nat : k = Top' => k = Top + 1
    BY <1>1
  <2> QED BY <1>1, <2>1 DEF HistoryKept
<1>2. PICK e \in Nat, c \in Nat : e = (m + 1) \div Epoch /\ c = (m + 1) % Epoch
  <2>1. (m + 1) \div Epoch \in Nat /\ (m + 1) % Epoch \in Nat
    BY DivMod
  <2> QED BY <2>1
<1> DEFINE K == minerHistoryCheckLen(Before(e))
           L == minerHistoryCheckLen(Snap)
<1>3. LastSwitch(m + 1)' = LastSwitch(m + 1) /\ LastSwitch(m + 1) \in Nat
  <2>1. m + 1 \in Nat /\ m + 1 <= Top + 1
    BY <1>1
  <2> QED BY <2>1, LastSwitchKept
<1>4. /\ c = K => LastSwitch(m + 1) = m + 1
      /\ c # K => LastSwitch(m + 1) = LastSwitch(m)
  BY <1>2, LastSwitchNext
<1>5. c # K
  BY <1>3, <1>4
<1>6. Snap'.Recents = Recorded(Snap, m + 1, v) /\ minerHistoryCheckLen(Snap') = L
  BY <1>2, <1>5, NothingCleared
<1>7. L \in Nat
  BY <1>1, HistoryLength
<1>8. CASE n = m + 1
  BY <1>1, <1>6, <1>8 DEF Recorded
<1>9. CASE n # m + 1
  <2>1. n \in 1 .. m /\ n >= m - L /\ n > LastSwitch(m) /\ n # (m + 1) - (L + 1) /\ n + 1 \in 1 .. Top + 1
    BY <1>3, <1>4, <1>5, <1>6, <1>7, <1>9
  <2>2. <<n, chain[n + 1].signer>> \in Snap.Recents
    BY <2>1 DEF HistoryKept
  <2>3. chain'[n + 1] = chain[n + 1]
    BY <1>1, <2>1
  <2> QED BY <1>6, <2>1, <2>2, <2>3 DEF Recorded
<1> QED BY <1>8, <1>9

(* The blocks v signed after block n, in the history R, ...                *)
SignedSince(R, v, n) == {r \in R : r[2] = v /\ r[1] > n}

(* ... and that all of A but the next block are among them.                *)
AllKnown(A, R, v, n, next) == \A k \in A : k # next => k > n /\ <<k, v>> \in R

(* In a window of the blocks since the last switch that v had not signed   *)
(* too often, one more block of v's is within the turn length.             *)
LEMMA OneMoreBlock ==
    ASSUME NEW R, IsFiniteSet(R), NEW t \in Nat, NEW v, NEW n \in Int, NEW next, NEW A,
           Cardinality(SignedSince(R, v, n)) < t, AllKnown(A, R, v, n, next)
    PROVE  Cardinality(A) <= t
<1> DEFINE C == SignedSince(R, v, n)
           B == A \ {next}
           f == [k \in B |-> <<k, v>>]
<1>1. IsFiniteSet(C) /\ Cardinality(C) \in Nat
  <2>1. C \in SUBSET R
    BY DEF SignedSince
  <2> HIDE DEF C
  <2> QED BY <2>1, FS_Subset, FS_CardinalityType
<1>2. \A k \in B : <<k, v>> \in C
  BY DEF AllKnown, SignedSince
<1>3. Cardinality(C) < t
  OBVIOUS
<1>4. f \in Injection(B, C)
  <2> HIDE DEF B, C
  <2>1. f \in [B -> C]
    BY <1>2
  <2>2. \A a, b \in B : f[a] = f[b] => a = b
    OBVIOUS
  <2> QED BY <2>1, <2>2 DEF Injection, IsInjective
<1> HIDE DEF f, C
<1>5. IsFiniteSet(B) /\ Cardinality(B) <= Cardinality(C) /\ Cardinality(B) \in Nat
  <2> HIDE DEF B
  <2>1. IsFiniteSet(B) /\ Cardinality(B) <= Cardinality(C)
    BY <1>1, <1>4, FS_Injection
  <2> QED BY <2>1, FS_CardinalityType
<1>6. CASE next \in A
  <2>1. A = B \cup {next} /\ next \notin B
    BY <1>6
  <2> HIDE DEF B
  <2>2. Cardinality(B \cup {next}) = Cardinality(B) + 1
    BY <1>5, <2>1, FS_AddElement, Zenon
  <2> QED BY <1>1, <1>3, <1>5, <2>1, <2>2
<1>7. CASE next \notin A
  <2>1. A = B
    BY <1>7
  <2> HIDE DEF B
  <2> QED BY <1>1, <1>3, <1>5, <2>1
<1> QED BY <1>6, <1>7

(* A sealed block is within its signer's turn.                             *)
LEMMA SealTakesTurn ==
    ASSUME ChainInv, SwitchInv, RecentsInv, HistoryKept, NEW v, NEW V, NEW t, SealedBy(v, V, t)
    PROVE  TurnsInv'
<1>0. v \in Validator /\ V \in SUBSET Validator /\ t \in Nat /\ Seal(v, V, t)
  BY DEF SealedBy
<1>1. /\ Top \in Nat /\ Snap \in Snapshot /\ Top' = Top + 1 /\ chain'[Top + 2].signer = v
      /\ \A i \in 1 .. Top + 1 : chain'[i] = chain[i] /\ snaps'[i] = snaps[i]
      /\ Snap = snaps[Top + 1] /\ Snap.Number = Top /\ ~SignRecently(Snap, v)
  <2>1. Top + 1 = Len(chain) /\ Snap = snaps[Top + 1]
    BY SMTT(20) DEF Top, ChainInv, Snap
  <2>2. /\ Top \in Nat /\ Snap \in Snapshot /\ Top' = Top + 1 /\ Snap.Number = Top
        /\ \A i \in 1 .. Len(chain) : chain'[i] = chain[i] /\ snaps'[i] = snaps[i]
        /\ chain'[Top + 2] = [signer |-> v, validators |-> V, turnLength |-> t]
        /\ ~SignRecently(Snap, v)
    BY <1>0, SealEffect, Zenon
  <2> QED BY <2>1, <2>2
<1> SUFFICES ASSUME NEW k \in Nat \ {0}, k = Top'
             PROVE  LET first  == Max({LastSwitch(k - 1)' + 1, k - minerHistoryCheckLen(snaps'[k])})
                        signed == {n \in first .. k : chain'[n + 1].signer = chain'[k + 1].signer}
                    IN Cardinality(signed) <= snaps'[k].TurnLength
  BY DEF TurnsInv
<1> DEFINE m == k - 1
           L == minerHistoryCheckLen(Snap)
           p == LastSwitch(m)
           first == Max({p + 1, k - L})
           A == {n \in first .. k : chain'[n + 1].signer = v}
<1>2. m \in Nat /\ m = Top /\ k = m + 1 /\ chain'[k + 1].signer = v /\ snaps'[k] = Snap
  BY <1>1
<1> HIDE DEF m
<1>3. LastSwitch(m)' = p /\ p \in Nat
  <2>1. m <= Top + 1
    BY <1>2
  <2> QED BY <1>2, <2>1, LastSwitchKept
<1>4. L \in Nat /\ Snap.TurnLength \in Nat
  BY <1>1, HistoryLength
<1>5. first = IF p + 1 >= k - L THEN p + 1 ELSE k - L
  <2>1. p + 1 \in Int /\ k - L \in Int
    BY <1>3, <1>4
  <2> HIDE DEF p, L
  <2> QED BY <2>1, MaxPair
<1> HIDE DEF p, L, first
<1>6. IsFiniteSet(Snap.Recents)
  BY LastSnap DEF GoodSnap
<1>7. Cardinality(SignedSince(Snap.Recents, v, m - L)) < Snap.TurnLength
  <2> DEFINE C == {r \in Snap.Recents : r[2] = v /\ r[1] > m - L}
  <2>1. ~(Cardinality(C) >= Snap.TurnLength)
    BY <1>1, <1>2 DEF SignRecently, countRecents, L
  <2>2. Cardinality(C) \in Nat
    <3>1. C \in SUBSET Snap.Recents
      OBVIOUS
    <3> HIDE DEF C
    <3> QED BY <1>6, <3>1, FS_Subset, FS_CardinalityType
  <2> HIDE DEF C
  <2>3. Cardinality(C) < Snap.TurnLength
    BY <1>4, <2>1, <2>2
  <2> QED BY <2>3 DEF C, SignedSince
<1>8. m - L \in Int
  BY <1>2, <1>4
<1>9. AllKnown(A, Snap.Recents, v, m - L, m + 1)
  <2> SUFFICES ASSUME NEW n \in A, n # m + 1 PROVE n > m - L /\ <<n, v>> \in Snap.Recents
    BY DEF AllKnown
  <2>1. n \in Int /\ n >= first /\ n <= k /\ chain'[n + 1].signer = v
    BY <1>2, <1>3, <1>4, <1>5
  <2>2. n \in 1 .. m /\ n > p /\ n >= m - L /\ n > m - L /\ n + 1 \in 1 .. Top + 1
    BY <1>2, <1>3, <1>4, <1>5, <2>1
  <2>3. <<n, chain[n + 1].signer>> \in Snap.Recents
    BY <1>2, <2>2 DEF HistoryKept, p, L
  <2> QED BY <1>1, <2>1, <2>2, <2>3
<1>10. Cardinality(A) <= Snap.TurnLength
  <2> HIDE DEF A
  <2> QED BY <1>4, <1>6, <1>7, <1>8, <1>9, OneMoreBlock
<1>11. LastSwitch(k - 1)' = p
  BY <1>3 DEF m
<1> QED BY <1>2, <1>10, <1>11 DEF first, L

(* No validator signs more than TurnLength of any minerHistoryCheckLen + 1 *)
(* consecutive blocks since the last switch, provided that Bohr does not   *)
(* begin between the two switches of an epoch.                             *)
THEOREM TurnsTaken ==
    ASSUME ForkOutsideSwitch
    PROVE  Spec => []SignersTakeTurns
<1>1. Init => HistoryKept /\ TurnsInv
  <2> SUFFICES ASSUME Init PROVE HistoryKept /\ TurnsInv
    OBVIOUS
  <2>1. Top = 0
    BY DEF Init, Top
  <2> QED BY <2>1 DEF HistoryKept, TurnsInv
<1>2. ChainInv /\ SwitchInv /\ RecentsInv /\ HistoryKept /\ TurnsInv /\ [Next]_vars
      => HistoryKept' /\ TurnsInv'
  <2> SUFFICES ASSUME ChainInv, SwitchInv, RecentsInv, HistoryKept, TurnsInv, [Next]_vars
               PROVE  HistoryKept' /\ TurnsInv'
    OBVIOUS
  <2>1. CASE Next
    <3>1. PICK v, V, t : SealedBy(v, V, t)
      BY <2>1, NextSeals, SMTT(20)
    <3> QED BY <3>1, SealKeepsHistory, SealTakesTurn
  <2>2. CASE UNCHANGED vars
    BY <2>2, Zenon DEF vars, HistoryKept, TurnsInv, Top, Snap, LastSwitch, SwitchPoint
  <2> QED BY <2>1, <2>2
<1>3. ChainInv /\ TurnsInv => SignersTakeTurns
  <2> SUFFICES ASSUME ChainInv, TurnsInv, Top > 0 PROVE SignersTakeTurns
    BY DEF SignersTakeTurns
  <2>1. Top \in Nat \ {0}
    BY DEF ChainInv, Top
  <2> DEFINE Ok(m) == LET first  == Max({LastSwitch(m - 1) + 1, m - minerHistoryCheckLen(snaps[m])})
                          signed == {n \in first .. m : chain[n + 1].signer = chain[m + 1].signer}
                      IN Cardinality(signed) <= snaps[m].TurnLength
  <2>2. \A m \in Nat \ {0} : m = Top => Ok(m)
    BY Zenon DEF TurnsInv
  <2>3. Ok(Top) => SignersTakeTurns
    BY DEF SignersTakeTurns
  <2> HIDE DEF Ok
  <2> QED BY <2>1, <2>2, <2>3
<1> QED BY <1>1, <1>2, <1>3, SnapshotInvariant, PTL DEF Spec

(* SecondSwitchSkipped of the block m of epoch e at the head.              *)
SkipInv ==
    \A m \in Nat \ {0}, e \in Nat :
       m = Top /\ e = m \div Epoch /\ Snap.epochKey # snaps[m].epochKey => m = SwitchPoint(e)

(* The comment "The unexpected second switch will happen, just skip it" is *)
(* true of every chain on which Bohr does not begin between the two        *)
(* switches of an epoch: the recent signers are cleared only at the first. *)
THEOREM SecondSwitchOnlyAtFork ==
    ASSUME ForkOutsideSwitch
    PROVE  Spec => []SecondSwitchSkipped
<1>1. Init => SkipInv
  <2> SUFFICES ASSUME Init PROVE SkipInv
    OBVIOUS
  <2>1. Top = 0
    BY DEF Init, Top
  <2> QED BY <2>1 DEF SkipInv
<1>2. ChainInv /\ SwitchInv /\ SkipInv /\ [Next]_vars => SkipInv'
  <2> SUFFICES ASSUME ChainInv, SwitchInv, SkipInv, [Next]_vars PROVE SkipInv'
    OBVIOUS
  <2>1. CASE Next
    <3>1. PICK v, V, t : SealedBy(v, V, t)
      BY <2>1, NextSeals
    <3>2. v \in Validator /\ V \in SUBSET Validator /\ t \in Nat /\ Seal(v, V, t)
      BY <3>1, SMTT(20) DEF SealedBy
    <3>3. /\ Top \in Nat /\ Top' = Top + 1 /\ Top + 1 = Len(chain) /\ Snap = snaps[Top + 1]
          /\ \A i \in 1 .. Len(chain) : chain'[i] = chain[i] /\ snaps'[i] = snaps[i]
      <4>1. Top + 1 = Len(chain) /\ Snap = snaps[Top + 1]
        BY DEF Top, ChainInv, Snap
      <4> QED BY <3>2, <4>1, SealEffect, Zenon
    <3> SUFFICES ASSUME NEW k \in Nat \ {0}, NEW e \in Nat, k = Top', e = k \div Epoch,
                        Snap'.epochKey # snaps'[k].epochKey
                 PROVE  k = SwitchPoint(e)'
      BY DEF SkipInv
    <3> DEFINE m == k - 1
               c == k % Epoch
               K == minerHistoryCheckLen(Before(e))
    <3>4. m \in Nat /\ m = Top /\ k = m + 1 /\ snaps'[k] = Snap
      BY <3>3
    <3>5. c \in Nat
      BY DivMod
    <3> HIDE DEF m, c
    <3>6. e = (m + 1) \div Epoch /\ c = (m + 1) % Epoch
      BY <3>4 DEF c
    <3>7. c = K
      <4> SUFFICES ASSUME c # K PROVE FALSE
        OBVIOUS
      <4>1. Snap'.epochKey = Snap.epochKey
        BY <3>1, <3>4, <3>5, <3>6, NothingCleared
      <4> QED BY <3>4, <4>1
    <3>8. k = e * Epoch + c /\ e * Epoch <= Top + 1
      BY <3>1, <3>4, <3>5, <3>6, Phase
    <3>9. SwitchPoint(e)' = e * Epoch + minerHistoryCheckLen(Before(e)') /\ Before(e)' = Before(e)
      BY <3>1, <3>8, SwitchPointKept
    <3> QED BY <3>7, <3>8, <3>9
  <2>2. CASE UNCHANGED vars
    BY <2>2 DEF vars, SkipInv, Top, Snap, SwitchPoint
  <2> QED BY <2>1, <2>2
<1>3. ChainInv /\ SkipInv => SecondSwitchSkipped
  <2> SUFFICES ASSUME ChainInv, SkipInv, Top > 0, Snap.epochKey # snaps[Top].epochKey
               PROVE  Top = SwitchPoint(Top \div Epoch)
    BY DEF SecondSwitchSkipped
  <2>1. Top \in Nat \ {0}
    BY DEF ChainInv, Top
  <2>2. Top \div Epoch \in Nat
    BY <2>1, DivMod
  <2> QED BY <2>1, <2>2 DEF SkipInv
<1> QED BY <1>1, <1>2, <1>3, SnapshotInvariant, PTL DEF Spec
=============================================================================
