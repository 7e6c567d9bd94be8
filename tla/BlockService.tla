---------------------------- MODULE BlockService ----------------------------
(***************************************************************************)
(* What a caller of the block archiver (interface BlockArchiver of         *)
(* core/blockarchiver/service.go) can rely on, whatever is cached, fetched *)
(* or failing behind it: a call returns, and it returns either a block of  *)
(* the archived chain with the number asked for, or nothing.               *)
(***************************************************************************)
EXTENDS Naturals

CONSTANTS Caller,    \* goroutines that call the service
          Block,     \* block hashes
          Number,    \* [Block -> Nat]
          Archived,  \* the blocks of the archived chain
          Missing    \* the nil block a failed call returns

VARIABLES
    pending,  \* [Caller -> {} or {the number asked for}]
    answer    \* [Caller -> what the last call returned, until the next]

vars == <<pending, answer>>

Init ==
    /\ pending = [p \in Caller |-> {}]
    /\ answer = [p \in Caller |-> Missing]

Call(p) ==
    /\ pending[p] = {}
    /\ \E b \in Block : pending' = [pending EXCEPT ![p] = {Number[b]}]
    /\ answer' = [answer EXCEPT ![p] = Missing]

Return(p) ==
    /\ pending[p] # {}
    /\ \E a \in {b \in Archived : Number[b] \in pending[p]} \cup {Missing} :
          answer' = [answer EXCEPT ![p] = a]
    /\ pending' = [pending EXCEPT ![p] = {}]

Next == \E p \in Caller : Call(p) \/ Return(p)

Fairness == \A p \in Caller : WF_vars(Return(p))

Spec == Init /\ [][Next]_vars /\ Fairness
=============================================================================
