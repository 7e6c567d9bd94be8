--------------------------- MODULE ParliaSnapshot ---------------------------
(***************************************************************************)
(* The authorisation snapshot of consensus/parlia/snapshot.go along one    *)
(* chain of headers: who may sign the next block (the validator set, the   *)
(* recent signers and the turn length), and how an epoch header's set      *)
(* takes over minerHistoryCheckLen blocks after the epoch began.           *)
(*                                                                         *)
(* A validator stands for its address.  An epoch header carries the set    *)
(* and the turn length the contract announced.  Fork hashes are left out,  *)
(* the window of them that is kept is a set of block numbers.  Recents is  *)
(* a set of pairs <<number, signer>>; Recents[epochKey], a key no block    *)
(* number can have, is the field epochKey: {} or the epoch of the last     *)
(* switch.  Snapshot.Attestation is in FastFinality.                       *)
(***************************************************************************)
EXTENDS Integers, FiniteSets, Sequences, FiniteSetsExt

CONSTANTS
    Validator,      \* addresses
    Announced,      \* the validator sets an epoch header may carry
    TurnLengths,    \* the turn lengths an epoch header may carry
    Epoch,          \* ParliaConfig.Epoch
    BohrBlock,      \* first block of the Bohr fork
    MaxNumber       \* bound: length of the chain

defaultTurnLength == 1

CheckLen(n, turnLength) == (n \div 2 + 1) * turnLength - 1

(* The history check fits in an epoch, or number%Epoch never meets it and  *)
(* the validator set is never switched.                                    *)
ASSUME SnapshotAssumption ==
    /\ Epoch \in Nat \ {0} /\ BohrBlock \in Nat
    /\ TurnLengths \subseteq Nat \ {0}
    /\ \A V \in Announced :
          /\ V \subseteq Validator /\ IsFiniteSet(V) /\ V # {}
          /\ \A t \in TurnLengths \cup {defaultTurnLength} :
                CheckLen(Cardinality(V), t) < Epoch

VARIABLES
    chain,   \* <<header 0, header 1, ...>>: [signer, validators, turnLength]
    snaps    \* <<snapshot at block 0, at block 1, ...>>

vars == <<chain, snaps>>

Top == Len(chain) - 1
Snap == snaps[Len(snaps)]

-----------------------------------------------------------------------------
IsBohr(number) == number >= BohrBlock

minerHistoryCheckLenMutant(s) == CheckLen(Cardinality(s.Validators), s.TurnLength) + 1

minerHistoryCheckLen(s) == CheckLen(Cardinality(s.Validators), s.TurnLength)

versionHistoryCheckLen(s) == Cardinality(s.Validators) * s.TurnLength

(* How often v signed the last minerHistoryCheckLen blocks.                *)
countRecents(s, v) ==
    Cardinality({r \in s.Recents : r[2] = v /\ r[1] > s.Number - minerHistoryCheckLen(s)})

SignRecently(s, v) == countRecents(s, v) >= s.TurnLength

(* The turn length the header of an epoch block sets: none before Bohr.    *)
parseTurnLength(headers, number, default) ==
    IF IsBohr(number) THEN headers[number + 1].turnLength ELSE default

newSnapshotMutant(headers, number, checkpoint) ==
    [Number           |-> number,
     TurnLength       |-> defaultTurnLength,
     Validators       |-> headers[checkpoint + 1].validators,
     Recents          |-> {},
     epochKey         |-> {},
     RecentForkHashes |-> {}]

(* A snapshot without history, from the set of an epoch's header.          *)
newSnapshot(headers, number, checkpoint) ==
    [Number           |-> number,
     TurnLength       |-> parseTurnLength(headers, checkpoint, defaultTurnLength),
     Validators       |-> headers[checkpoint + 1].validators,
     Recents          |-> {},
     epochKey         |-> {},
     RecentForkHashes |-> {}]

-----------------------------------------------------------------------------
(* The steps of apply for the header of block number.                      *)

ForgetOldestMutant(s, number) ==
    [s EXCEPT !.Recents =
                  {r \in @ : IsBohr(number) \/ r[1] # number - (minerHistoryCheckLen(s) + 1)},
              !.RecentForkHashes = @ \ {number - versionHistoryCheckLen(s)}]

ForgetOldest(s, number) ==
    [s EXCEPT !.Recents = {r \in @ : r[1] # number - (minerHistoryCheckLen(s) + 1)},
              !.RecentForkHashes = @ \ {number - versionHistoryCheckLen(s)}]

Accepts(s, number, v) ==
    /\ v \in s.Validators
    /\ IF IsBohr(number) THEN ~SignRecently(s, v) ELSE \A r \in s.Recents : r[2] # v

Record(s, number, v) ==
    [s EXCEPT !.Recents = @ \cup {<<number, v>>},
              !.RecentForkHashes = @ \cup {number}]

SwitchesMutant(s, number) ==
    number > 0 /\ number % Epoch = minerHistoryCheckLen(s)

Switches(s, number) ==
    /\ number > 0 /\ number % Epoch = minerHistoryCheckLen(s)
    /\ IsBohr(number) => number \div Epoch \notin s.epochKey

SwitchMutant(s, headers, number) ==
    [s EXCEPT !.Validators = headers[number - minerHistoryCheckLen(s) + 1].validators,
              !.Recents = {}, !.epochKey = {number \div Epoch}]

(* The set of the epoch header takes over; Bohr clears the recent signers, *)
(* before Bohr those beyond the new, shorter limit are deleted.            *)
Switch(s, headers, number) ==
    LET checkpoint == number - minerHistoryCheckLen(s)
        newVals    == headers[checkpoint + 1].validators
        newLimit   == Cardinality(newVals) \div 2 + 1
        oldLimit   == Cardinality(s.Validators) \div 2 + 1
        t          == parseTurnLength(headers, checkpoint, s.TurnLength)
        newLen     == Cardinality(newVals) * t
    IN [s EXCEPT
          !.TurnLength = t,
          !.Validators = newVals,
          !.Recents = IF IsBohr(number) THEN {}
                      ELSE {r \in @ : r[1] \notin number - oldLimit + 1 .. number - newLimit},
          !.epochKey = IF IsBohr(number) THEN {number \div Epoch} ELSE @,
          !.RecentForkHashes =
              @ \ (number - versionHistoryCheckLen(s) + 1 .. number - newLen)]

(* One header; {} when apply returns an error.                             *)
applyHeader(s, headers, number) ==
    LET v        == headers[number + 1].signer
        older    == ForgetOldest(s, number)
        recorded == Record(older, number, v)
    IN IF ~Accepts(older, number, v) THEN {}
       ELSE IF Switches(recorded, number) THEN {Switch(recorded, headers, number)}
       ELSE {recorded}

(* apply on the headers after s up to block number: snap.Number advances   *)
(* only once they are all applied.                                         *)
apply(s, headers, number) ==
    LET snap[n \in s.Number .. number] ==
            IF n = s.Number THEN {s}
            ELSE UNION {applyHeader(t, headers, n) : t \in snap[n - 1]}
    IN {[t EXCEPT !.Number = number] : t \in snap[number]}

-----------------------------------------------------------------------------
Init ==
    \E V \in Announced, t \in TurnLengths :
       /\ chain = <<[signer |-> "genesis", validators |-> V, turnLength |-> t]>>
       /\ snaps = <<newSnapshot(chain, 0, 0)>>

(* Block number is sealed by v and its header verified: verifySeal asks    *)
(* the parent's snapshot; prepareValidators and prepareTurnLength put what *)
(* the contract says into an epoch header.  The snapshot of the new block  *)
(* is apply of the one header on the parent's.                             *)
Seal(v, V, t) ==
    LET header  == [signer |-> v, validators |-> V, turnLength |-> t]
        headers == Append(chain, header)
    IN /\ Top < MaxNumber
       /\ v \in Snap.Validators /\ ~SignRecently(Snap, v)
       /\ chain' = headers
       /\ \E s \in applyHeader(Snap, headers, Top + 1) :
             snaps' = Append(snaps, [s EXCEPT !.Number = Top + 1])

SealEpochBlock ==
    /\ (Top + 1) % Epoch = 0
    /\ \E v \in Validator, V \in Announced, t \in TurnLengths : Seal(v, V, t)

SealBlock ==
    /\ (Top + 1) % Epoch # 0
    /\ \E v \in Validator : Seal(v, {}, 0)

Next == SealEpochBlock \/ SealBlock

Spec == Init /\ [][Next]_vars

-----------------------------------------------------------------------------
(* Type correctness: every snapshot apply builds has a non-empty validator *)
(* set of the contract's, and only past blocks in its two windows.         *)
TypeOK ==
    /\ Len(snaps) = Len(chain)
    /\ Snap.Number = Top
    /\ Snap.Validators \in Announced
    /\ Snap.TurnLength \in TurnLengths \cup {defaultTurnLength}
    /\ Snap.Recents \subseteq (1 .. Top) \X Validator
    /\ Snap.epochKey \in SUBSET (0 .. Top \div Epoch) /\ Cardinality(Snap.epochKey) <= 1
    /\ Snap.RecentForkHashes \subseteq 1 .. Top

(* Where the set of epoch e's header takes over: after as many blocks as   *)
(* the history check of the set in force before the epoch began.           *)
SwitchPoint(e) == e * Epoch + minerHistoryCheckLen(snaps[Max({e * Epoch, 1})])

(* The last block at or before number after which a new set was in force.  *)
LastSwitch(number) ==
    LET e == number \div Epoch
    IN IF SwitchPoint(e) <= number THEN SwitchPoint(e)
       ELSE IF e > 0 THEN SwitchPoint(e - 1) ELSE 0

(* No validator signs more than TurnLength of any minerHistoryCheckLen + 1 *)
(* consecutive blocks since the set was switched (SignRecently, and        *)
(* apply's deletions, clearing and skipped second switch, keep exactly the *)
(* history that needs).                                                    *)
SignersTakeTurns ==
    Top > 0 =>
       LET parent == snaps[Top]
           first  == Max({LastSwitch(Top - 1) + 1, Top - minerHistoryCheckLen(parent)})
           signed == {n \in first .. Top : chain[n + 1].signer = chain[Top + 1].signer}
       IN Cardinality(signed) <= parent.TurnLength

(* At least half of the validators may sign the next block, whatever the   *)
(* order of signers and switches so far: SignRecently cannot stop a chain. *)
HalfMaySign ==
    2 * Cardinality({v \in Snap.Validators : SignRecently(Snap, v)})
        <= Cardinality(Snap.Validators)

(* Every node computes the same snapshot of a block: applying the headers  *)
(* in one batch on any earlier snapshot (found in memory or on disk) gives *)
(* what applying them one by one gave, although snap.Number stays behind   *)
(* while a batch is applied.                                               *)
BatchesAgree ==
    \A n \in 0 .. Top - 1 : apply(snaps[n + 1], chain, Top) = {Snap}

(* The set and the turn length in force are those of the last epoch header *)
(* whose switch point is passed: one switch per epoch, from the right      *)
(* header, even when the switch itself changes minerHistoryCheckLen.       *)
AnnouncedSetInForce ==
    LET e == Top \div Epoch
        last == IF SwitchPoint(e) <= Top THEN e ELSE IF e > 0 THEN e - 1 ELSE 0
    IN /\ Snap.Validators = chain[last * Epoch + 1].validators
       /\ Snap.TurnLength = parseTurnLength(chain, last * Epoch, defaultTurnLength)

(* A snapshot created without history at the last block of an epoch (when  *)
(* the database lacks older ones) accepts every later header and ends with *)
(* the same set, turn length and, after the next switch, recent signers.   *)
FreshSnapshotConverges ==
    \A n \in {m \in 0 .. Top : (m + 1) % Epoch = 0} :
       LET fresh == apply(newSnapshot(chain, n, n + 1 - Epoch), chain, Top)
       IN /\ fresh # {}
          /\ \A s \in fresh :
                /\ s.Validators = Snap.Validators /\ s.TurnLength = Snap.TurnLength
                /\ s.Recents = {r \in Snap.Recents : r[1] > n}

(* "The unexpected second switch will happen, just skip it" (snapshot.go): *)
(* under Bohr the recent signers are cleared only at an epoch's first      *)
(* switch.                                                                 *)
SecondSwitchSkipped ==
    Top > 0 /\ Snap.epochKey # snaps[Top].epochKey => Top = SwitchPoint(Top \div Epoch)

=============================================================================
