------------------------ MODULE HeaderServiceProofs ------------------------
(***************************************************************************)
(* Proofs about HeaderService, for every chain, every limit and every set  *)
(* of requests: an answer follows the query it answers, and is complete    *)
(* when nothing failed or moved meanwhile.                                 *)
(*                                                                         *)
(* The inductive invariant says, for every loop of the handlers, what has  *)
(* been collected in terms of the cursor: the loops that go along the      *)
(* request hold its first Len(headers) blocks and stand at the next one;   *)
(* GetHeadersFrom holds the blocks above its cursor.                       *)
(***************************************************************************)
EXTENDS HeaderService, TLAPS

(* The i-th block that a header request asks for. *)
Nth(q, i) == IF q.reverse THEN q.origin.number - (i - 1) * (q.skip + 1)
             ELSE q.origin.number + (i - 1) * (q.skip + 1)

(* A request for headers, and one for bodies.                              *)
HeaderQuery(q) ==
    /\ q.kind \in {"number", "hash"}
    /\ q.origin.number \in Nat
    /\ q.amount \in Nat \ {0} /\ q.skip \in Nat

BodyQuery(q) == q.kind = "bodies" /\ q.hashes \in Seq(Hash)

(* h is the first Len(h) blocks of the request. *)
Starts(q, h) ==
    /\ Len(h) <= Count(q)
    /\ \A i \in 1 .. Len(h) : h[i] = Nth(q, i)

(* The blocks GetHeadersFrom is asked for. *)
Low(q) == IF q.kind = "hash" THEN 1
          ELSE IF q.reverse THEN q.origin.number - Count(q) + 1 ELSE q.origin.number
High(q) == IF q.reverse THEN q.origin.number ELSE q.origin.number + Count(q) - 1

(* s is the blocks from b + Len(s) down to b + 1. *)
Descends(s, b) == \A i \in 1 .. Len(s) : s[i] = b + Len(s) + 1 - i

(* t is the positions, among the hashes looked up so far, of the bodies    *)
(* collected.                                                              *)
Positions(t) ==
    /\ Len(t) <= lookups /\ \A i \in 1 .. Len(t) : t[i] \in 1 .. lookups
    /\ \A i, j \in 1 .. Len(t) : i < j => t[i] < t[j]
    /\ headers = BodiesAt(t)

ServiceTyped ==
    /\ head \in Nat /\ bundled \in Nat
    /\ number \in Int /\ left \in Nat /\ lookups \in Nat /\ misses \in Nat
    /\ segment \in Seq(Nat) /\ headers \in Seq(Nat)

(* The loop of serviceNonContiguousBlockHeaderQuery holds the start of the *)
(* request and stands at its next block.                                   *)
StrideInv ==
    /\ HeaderQuery(query) /\ query.skip # 0
    /\ Starts(query, headers)
    /\ number = Nth(query, Len(headers) + 1) /\ number >= 0
    /\ lookups = Len(headers)

(* GetHeadersFrom holds the blocks above its cursor, within the request.   *)
DownInv ==
    /\ HeaderQuery(query) /\ query.skip = 0
    /\ Descends(segment, number)
    /\ \/ segment = << >> /\ left = 0
       \/ number + Len(segment) <= High(query) /\ number - left + 1 >= Low(query)
    /\ query.kind = "number" => headers = << >>
    /\ query.kind = "hash" =>
          /\ ~query.reverse /\ headers = <<query.origin.number>>
          /\ query.origin.number # 0 => segment = << >> /\ left = 0

(* The loop over parents holds the start of a request for ancestors.       *)
UpInv ==
    /\ HeaderQuery(query) /\ query.kind = "hash" /\ query.skip = 0 /\ query.reverse
    /\ Starts(query, headers) /\ headers # << >>
    /\ number = query.origin.number - Len(headers)
    /\ left = Count(query) - Len(headers)

(* The loop over hashes holds bodies of some of those looked up, in order. *)
BodiesInv ==
    /\ BodyQuery(query)
    /\ lookups <= Len(query.hashes) /\ Len(headers) <= MaxServe
    /\ \E t \in Seq(Nat) : Positions(t)

(* The inductive invariant: what every loop has collected so far.          *)
FollowInv ==
    /\ ServiceTyped
    /\ phase \in {"idle", "from", "down", "origin", "up", "stride", "bodies", "reply"}
    /\ phase \in {"from", "origin"} =>
          /\ HeaderQuery(query) /\ query.skip = 0
          /\ query.kind = (IF phase = "from" THEN "number" ELSE "hash")
          /\ number = query.origin.number /\ segment = << >> /\ headers = << >>
    /\ phase = "stride" => StrideInv
    /\ phase = "down" => DownInv
    /\ phase = "up" => UpInv
    /\ phase = "bodies" => BodiesInv
    /\ phase = "reply" => HeaderQuery(query) \/ BodyQuery(query)
    /\ AnswerFollowsQuery
-----------------------------------------------------------------------------
(* What the operators compute. *)

(* The first block asked for. *)
LEMMA NthFirst == ASSUME NEW q, HeaderQuery(q) PROVE Nth(q, 1) = q.origin.number
<1>1. q.origin.number \in Nat /\ q.skip \in Nat /\ (1 - 1) * (q.skip + 1) = 0
    BY DEF HeaderQuery
<1> QED
    BY <1>1 DEF Nth

(* Wanted, of any request. *)
WantedOf(q) ==
    LET n == q.origin.number
        k == IF q.reverse /\ Count(q) > n \div (q.skip + 1) THEN n \div (q.skip + 1) + 1
             ELSE Count(q)
    IN [i \in 1 .. k |-> IF q.reverse THEN n - (i - 1) * (q.skip + 1)
                         ELSE n + (i - 1) * (q.skip + 1)]

(* A product of naturals is below n exactly if one factor is below the     *)
(* quotient.                                                               *)
LEMMA QuotientBound ==
    ASSUME NEW n \in Nat, NEW s \in Nat, s > 0, NEW a \in Nat
    PROVE  /\ n \div s \in Nat
           /\ a * s \in Nat
           /\ (a + 1) * s = a * s + s
           /\ a * s <= n <=> a <= n \div s
<1>1. n \div s \in Nat /\ a * s \in Nat /\ (a + 1) * s = a * s + s
    OBVIOUS
<1> DEFINE d == n \div s
<1>2. n = d * s + (n % s) /\ n % s \in 0 .. s - 1
    OBVIOUS
<1>3. CASE a <= d
    <2>1. a * s <= d * s
        BY <1>1, <1>3
    <2> QED
        BY <1>1, <1>2, <1>3, <2>1
<1>4. CASE a >= d + 1
    <2>1. a * s >= (d + 1) * s /\ (d + 1) * s = d * s + s
        BY <1>1, <1>4
    <2> QED
        BY <1>1, <1>2, <1>4, <2>1
<1> QED
    BY <1>1, <1>3, <1>4

(* The cap on the number of headers. *)
LEMMA CountBound ==
    ASSUME NEW q, HeaderQuery(q)
    PROVE  Count(q) \in Nat \ {0} /\ Count(q) <= MaxServe /\ Count(q) <= q.amount
BY ServiceAssumption DEF HeaderQuery, Count

(* The blocks a request asks for: Nth of them, none below 0.               *)
LEMMA WantedBlocks ==
    ASSUME NEW q, HeaderQuery(q)
    PROVE  /\ WantedOf(q) \in Seq(Nat)
           /\ Len(WantedOf(q)) <= Count(q)
           /\ \A i \in 1 .. Len(WantedOf(q)) : WantedOf(q)[i] = Nth(q, i)
           /\ \A i \in 1 .. Count(q) : Nth(q, i) >= 0 => i <= Len(WantedOf(q))
           /\ \A i \in 1 .. Len(WantedOf(q)) : WantedOf(q)[i] >= 0
<1> DEFINE n == q.origin.number
           s == q.skip + 1
           k == IF q.reverse /\ Count(q) > n \div s THEN n \div s + 1 ELSE Count(q)
           W(i) == IF q.reverse THEN n - (i - 1) * s ELSE n + (i - 1) * s
<1>1. n \in Nat /\ s \in Nat /\ s > 0 /\ Count(q) \in Nat
    BY CountBound DEF HeaderQuery
<1>2. WantedOf(q) = [i \in 1 .. k |-> W(i)]
    BY DEF WantedOf
<1>3. \A i \in Nat \ {0} : (i - 1) * s \in Nat /\ ((i - 1) * s <= n <=> i - 1 <= n \div s)
                           /\ n \div s \in Nat
    BY <1>1, QuotientBound
<1>4. \A i \in Nat : Nth(q, i) = W(i)
    BY DEF Nth
<1>5. n \div s \in Nat
    BY <1>1, QuotientBound
<1> HIDE DEF n, s
<1>6. k \in Nat /\ k <= Count(q)
    BY <1>1, <1>5
<1>7. \A i \in 1 .. k : W(i) \in Nat
    BY <1>1, <1>3, <1>5
<1> HIDE DEF W
<1>8. WantedOf(q) \in Seq(Nat) /\ Len(WantedOf(q)) = k
      /\ \A i \in 1 .. k : WantedOf(q)[i] = W(i)
    <2> HIDE DEF k
    <2> QED
        BY <1>2, <1>6, <1>7
<1>9. \A i \in 1 .. Count(q) : W(i) >= 0 => i <= k
    BY <1>1, <1>3, <1>5 DEF W
<1> HIDE DEF k
<1> QED
    BY <1>1, <1>4, <1>6, <1>7, <1>8, <1>9

(* The first blocks of a request are a start of what it asks for.          *)
LEMMA StartIsPrefix ==
    ASSUME NEW q, HeaderQuery(q), NEW h \in Seq(Nat), Starts(q, h)
    PROVE  /\ (\E k \in 0 .. Len(WantedOf(q)) : h = SubSeq(WantedOf(q), 1, k)) /\ Len(h) <= MaxServe
           /\ Len(h) <= Len(WantedOf(q))
           /\ h = SubSeq(WantedOf(q), 1, Len(h))
<1> DEFINE w == WantedOf(q)
<1>1. w \in Seq(Nat) /\ (\A i \in 1 .. Len(w) : w[i] = Nth(q, i))
      /\ (\A i \in 1 .. Count(q) : Nth(q, i) >= 0 => i <= Len(w))
    BY WantedBlocks
<1>2. Count(q) \in Nat /\ Count(q) <= MaxServe /\ MaxServe \in Nat
    BY CountBound, ServiceAssumption
<1> HIDE DEF w
<1>3. Len(h) \in Nat /\ Len(h) <= Len(w)
    <2>1. CASE Len(h) = 0
        BY <1>1, <2>1
    <2>2. CASE Len(h) # 0
        <3>1. Len(h) \in 1 .. Count(q) /\ h[Len(h)] \in Nat /\ h[Len(h)] = Nth(q, Len(h))
            BY <1>2, <2>2 DEF Starts
        <3> QED
            BY <1>1, <3>1
    <2> QED
        BY <2>1, <2>2
<1>4. \A i \in 1 .. Len(h) : h[i] = w[i]
    BY <1>1, <1>3 DEF Starts
<1>5. SubSeq(h, 1, Len(h)) = h /\ SubSeq(w, 1, Len(h)) = h
    BY <1>1, <1>3, <1>4
<1>6. \E k \in 0 .. Len(w) : h = SubSeq(w, 1, k)
    <2>1. Len(h) \in 0 .. Len(w)
        BY <1>1, <1>3
    <2> QED
        BY <1>5, <2>1, Zenon
<1>7. Len(h) <= MaxServe
    BY <1>2, <1>3 DEF Starts
<1> QED
    BY <1>3, <1>5, <1>6, <1>7 DEF w

(* A sequence that agrees with w from position a on is a piece of it.      *)
LEMMA PieceOf ==
    ASSUME NEW w \in Seq(Nat), NEW x \in Seq(Nat), NEW a \in Nat \ {0},
           a + Len(x) - 1 <= Len(w),
           \A i \in 1 .. Len(x) : x[i] = w[a + i - 1]
    PROVE  x \in Pieces(w)
<1> DEFINE b == a + Len(x) - 1
<1>1. a \in 1 .. Len(w) + 1 /\ b \in 0 .. Len(w)
    OBVIOUS
<1>2. SubSeq(w, a, b) = x
    <2>1. SubSeq(w, a, b) \in Seq(Nat) /\ Len(SubSeq(w, a, b)) = Len(x)
        BY <1>1
    <2>2. \A i \in 1 .. Len(x) : SubSeq(w, a, b)[i] = x[i]
        BY <1>1
    <2> QED
        BY <2>1, <2>2
<1> HIDE DEF b
<1>3. SubSeq(w, a, b) \in {SubSeq(w, a, j) : j \in 0 .. Len(w)}
    BY <1>1
<1> QED
    BY <1>1, <1>2, <1>3, ZenonT(30) DEF Pieces

(* Turning a sequence round. *)
LEMMA ReverseOf ==
    ASSUME NEW S, NEW s \in Seq(S)
    PROVE  /\ Reversed(s) \in Seq(S) /\ Len(Reversed(s)) = Len(s)
           /\ \A i \in 1 .. Len(s) : Reversed(s)[i] = s[Len(s) + 1 - i]
<1> DEFINE W(i) == s[(Len(s) - i) + 1]
<1>1. Len(s) \in Nat /\ \A i \in 1 .. Len(s) : W(i) \in S /\ W(i) = s[Len(s) + 1 - i]
    OBVIOUS
<1>2. Reversed(s) = [i \in 1 .. Len(s) |-> W(i)]
    BY DEF Reversed
<1> HIDE DEF W
<1> QED
    BY <1>1, <1>2

(* What GetHeadersFrom has collected, in the order of the answer.          *)
Ordered(q, s) == IF q.reverse THEN s ELSE Reversed(s)

(* Where l blocks from b + 1 on lie among the c blocks down or up from n.  *)
LEMMA Window ==
    ASSUME NEW n \in Nat, NEW c \in Nat, NEW l \in Nat \ {0}, NEW b \in Int
    PROVE  /\ b + l <= n /\ b + 1 >= n - c + 1 =>
                 /\ n - (b + l) + 1 \in Nat \ {0}
                 /\ n - (b + l) + 1 + l - 1 \in 1 .. c
           /\ b + l <= n + c - 1 /\ b + 1 >= n =>
                 /\ b + 1 - n + 1 \in Nat \ {0}
                 /\ b + 1 - n + 1 + l - 1 \in 1 .. c
OBVIOUS

(* A position of l positions from a on that end at m or before.            *)
LEMMA InWindow ==
    ASSUME NEW a \in Nat \ {0}, NEW l \in Nat, NEW i \in 1 .. l, NEW m \in Nat,
           a + l - 1 <= m
    PROVE  a + i - 1 \in 1 .. m
OBVIOUS

(* The block at position j, counted down from n, is the ith of l blocks    *)
(* counted down to b + 1.                                                  *)
LEMMA Mirrored ==
    ASSUME NEW n \in Nat, NEW b \in Int, NEW l \in Nat \ {0}, NEW i \in 1 .. l,
           NEW j \in Nat \ {0}, j - 1 = n - (b + l) + i - 1
    PROVE  n - (j - 1) = b + l + 1 - i
OBVIOUS

(* GetHeadersFrom collects a piece of what was asked for.                  *)
LEMMA SegmentIsPiece ==
    ASSUME NEW q, HeaderQuery(q), q.skip = 0, NEW s \in Seq(Nat), NEW b \in Int,
           Descends(s, b), s # << >>, b + Len(s) <= High(q),
           b + 1 >= IF q.reverse THEN q.origin.number - Count(q) + 1 ELSE q.origin.number
    PROVE  Ordered(q, s) \in Pieces(WantedOf(q))
<1> DEFINE n == q.origin.number
           w == WantedOf(q)
           x == Ordered(q, s)
           a == IF q.reverse THEN n - (b + Len(s)) + 1 ELSE b + 1 - n + 1
<1>1. n \in Nat /\ Count(q) \in Nat /\ Len(s) \in Nat \ {0}
    BY CountBound DEF HeaderQuery
<1>2. w \in Seq(Nat) /\ (\A i \in 1 .. Len(w) : w[i] = Nth(q, i))
      /\ (\A i \in 1 .. Count(q) : Nth(q, i) >= 0 => i <= Len(w))
    BY WantedBlocks
<1>3. \A i \in Nat \ {0} : Nth(q, i) = IF q.reverse THEN n - (i - 1) ELSE n + (i - 1)
    <2> SUFFICES ASSUME NEW i \in Nat \ {0}
                 PROVE  Nth(q, i) = IF q.reverse THEN n - (i - 1) ELSE n + (i - 1)
        OBVIOUS
    <2>1. q.skip + 1 = 1 /\ (i - 1) * 1 = i - 1
        OBVIOUS
    <2> QED
        BY <2>1 DEF Nth
<1>4. x \in Seq(Nat) /\ Len(x) = Len(s)
    BY ReverseOf DEF Ordered
<1>5. \A i \in 1 .. Len(s) : x[i] = IF q.reverse THEN b + Len(s) + 1 - i ELSE b + i
    <2> SUFFICES ASSUME NEW i \in 1 .. Len(s)
                 PROVE  x[i] = IF q.reverse THEN b + Len(s) + 1 - i ELSE b + i
        OBVIOUS
    <2>1. CASE q.reverse
        BY <2>1 DEF Descends, Ordered
    <2>2. CASE ~q.reverse
        <3>1. x[i] = s[Len(s) + 1 - i] /\ Len(s) + 1 - i \in 1 .. Len(s)
            <4>1. \A j \in 1 .. Len(s) : Reversed(s)[j] = s[Len(s) + 1 - j]
                BY ReverseOf
            <4> QED
                BY <1>1, <2>2, <4>1 DEF Ordered
        <3>2. s[Len(s) + 1 - i] = b + Len(s) + 1 - (Len(s) + 1 - i)
            BY <3>1 DEF Descends
        <3> QED
            BY <1>1, <2>2, <3>1, <3>2
    <2> QED
        BY <1>1, <2>1, <2>2
<1>6. a \in Nat \ {0} /\ a + Len(s) - 1 \in 1 .. Count(q)
    <2>1. CASE q.reverse
        <3>1. b + Len(s) <= n /\ b + 1 >= n - Count(q) + 1 /\ a = n - (b + Len(s)) + 1
            BY <2>1 DEF High
        <3> HIDE DEF n, a
        <3> QED
            BY <1>1, <3>1, Window, Zenon
    <2>2. CASE ~q.reverse
        <3>1. b + Len(s) <= n + Count(q) - 1 /\ b + 1 >= n /\ a = b + 1 - n + 1
            BY <2>2 DEF High
        <3> HIDE DEF n, a
        <3> QED
            BY <1>1, <3>1, Window, Zenon
    <2> QED
        BY <1>1, <2>1, <2>2
<1>7. \A i \in 1 .. Len(s) : x[i] = Nth(q, a + i - 1)
    <2> SUFFICES ASSUME NEW i \in 1 .. Len(s)
                 PROVE  x[i] = Nth(q, a + i - 1)
        OBVIOUS
    <2> DEFINE j == a + i - 1
    <2>1. j \in Nat \ {0}
        <3> HIDE DEF a
        <3> QED
            BY <1>1, <1>6
    <2>2. Nth(q, j) = IF q.reverse THEN n - (j - 1) ELSE n + (j - 1)
        <3> HIDE DEF n, j
        <3> QED
            BY <1>3, <2>1
    <2>3. x[i] = IF q.reverse THEN b + Len(s) + 1 - i ELSE b + i
        BY <1>5
    <2> HIDE DEF x, w, n
    <2>4. CASE q.reverse
        <3>1. j - 1 = n - (b + Len(s)) + i - 1
            BY <1>1, <2>4
        <3> HIDE DEF j, a
        <3>2. Nth(q, j) = n - (j - 1) /\ x[i] = b + Len(s) + 1 - i
            BY <2>2, <2>3, <2>4
        <3>3. n - (j - 1) = b + Len(s) + 1 - i
            BY <1>1, <2>1, <3>1, Mirrored
        <3>4. x[i] = Nth(q, j)
            BY <3>2, <3>3
        <3> QED
            BY <3>4 DEF j
    <2>5. CASE ~q.reverse
        <3>1. j - 1 = b + 1 - n + i - 1
            BY <1>1, <2>5
        <3> HIDE DEF j
        <3>2. x[i] = Nth(q, j)
            BY <1>1, <2>1, <2>2, <2>3, <2>5, <3>1
        <3> QED
            BY <3>2 DEF j
    <2> QED
        BY <1>1, <2>4, <2>5
<1> HIDE DEF x, w, a
<1>8. a + Len(s) - 1 <= Len(w)
    <2> DEFINE j == a + Len(s) - 1
    <2>1. x[Len(s)] \in Nat /\ x[Len(s)] = Nth(q, j)
        BY <1>1, <1>4, <1>7
    <2>2. j \in 1 .. Count(q)
        BY <1>6
    <2> HIDE DEF j
    <2>3. j <= Len(w)
        BY <1>2, <2>1, <2>2
    <2> QED
        BY <2>3 DEF j
<1>9. ASSUME NEW i \in 1 .. Len(s)
      PROVE  x[i] = w[a + i - 1]
    <2> DEFINE j == a + i - 1
    <2>1. j \in 1 .. Len(w)
        <3>1. Len(w) \in Nat
            BY <1>2
        <3> QED
            BY <1>1, <1>6, <1>8, <3>1, InWindow, Zenon
    <2>2. x[i] = Nth(q, j)
        BY <1>7
    <2> HIDE DEF j
    <2>3. x[i] = w[j]
        BY <1>2, <2>1, <2>2
    <2> QED
        BY <2>3 DEF j
<1>10. x \in Pieces(w)
    BY <1>2, <1>4, <1>6, <1>8, <1>9, PieceOf, Zenon
<1> QED
    BY <1>10 DEF x, w
-----------------------------------------------------------------------------
(* An answer follows the query. *)

(* AnswerFollowsQuery, of any request and answer.                          *)
Follows(q, h) ==
    /\ Len(h) <= MaxServe
    /\ q.kind \in {"number", "hash"} =>
          \/ (\E k \in 0 .. Len(WantedOf(q)) : h = SubSeq(WantedOf(q), 1, k))
          \/ /\ q.skip = 0
             /\ IF q.kind = "number" THEN h \in Pieces(WantedOf(q))
                ELSE /\ q.origin.number = 0 /\ ~q.reverse
                     /\ h[1] = 0 /\ Tail(h) \in Pieces(WantedOf(q))
    /\ q.kind = "bodies" =>
          \E t \in Subsequences(q.hashes) :
              h = [i \in 1 .. Len(t) |-> q.hashes[t[i]].number]

(* AnswerFollowsQuery in terms of the request and the answer, in a state   *)
(* and in the next one.                                                    *)
LEMMA FollowsIs ==
    /\ AnswerFollowsQuery <=> (phase = "reply" => Follows(query, headers))
    /\ AnswerFollowsQuery' <=> (phase' = "reply" => Follows(query', headers'))
<1>1. Wanted = WantedOf(query) /\ Wanted' = WantedOf(query')
    BY DEF Wanted, WantedOf, Step
<1> QED
    BY <1>1 DEF AnswerFollowsQuery, Follows, Answered, BodiesAt

(* A lookup leaves the counters of the model well typed.                   *)
LEMMA LookupTyped ==
    ASSUME ServiceTyped, NEW n, Found(n) \/ NotFound(n)
    PROVE  misses' \in Nat
BY DEF ServiceTyped, Found, NotFound

(* An answer that follows the query may be assembled.                      *)
LEMMA ReplyKeepsFollow ==
    ASSUME FollowInv, NEW h \in Seq(Nat), Reply(h), HeaderQuery(query) \/ BodyQuery(query),
           Follows(query, h), misses' \in Nat
    PROVE  FollowInv'
<1>1. /\ headers' = h /\ phase' = "reply" /\ query' = query
      /\ number' = 0 /\ left' = 0 /\ lookups' = 0 /\ segment' = << >>
      /\ head' = head /\ bundled' = bundled
    BY DEF Reply, world
<1>2. ServiceTyped'
    BY <1>1 DEF FollowInv, ServiceTyped
<1>3. AnswerFollowsQuery'
    BY <1>1, FollowsIs
<1>4. HeaderQuery(query') \/ BodyQuery(query')
    BY <1>1
<1> QED
    BY <1>1, <1>2, <1>3, <1>4 DEF FollowInv

(* A step that goes on collecting. *)
LEMMA NotYetReplied ==
    ASSUME phase' # "reply"
    PROVE  AnswerFollowsQuery'
BY FollowsIs

(* The chain moves under the handler. *)
LEMMA WorldKeepsFollow ==
    ASSUME FollowInv, SetCurrentHeader \/ Upload
    PROVE  FollowInv'
<1>1. UNCHANGED <<query, phase, number, left, ours, budget, lookups, segment, headers, misses>>
    BY DEF SetCurrentHeader, Upload, cursor
<1>2. head' \in Nat /\ bundled' \in Nat
    BY ServiceAssumption DEF SetCurrentHeader, Upload, FollowInv, ServiceTyped
<1>3. ServiceTyped'
    BY <1>1, <1>2 DEF FollowInv, ServiceTyped
<1>4. AnswerFollowsQuery'
    BY <1>1, FollowsIs DEF FollowInv
<1>5. (StrideInv => StrideInv') /\ (DownInv => DownInv') /\ (UpInv => UpInv')
    BY <1>1 DEF StrideInv, DownInv, UpInv
<1>6. BodiesInv => BodiesInv'
    BY <1>1, Zenon DEF BodiesInv, Positions, BodiesAt
<1> QED
    BY <1>1, <1>3, <1>4, <1>5, <1>6 DEF FollowInv

(* A request arrives. *)
LEMMA ReceiveKeepsFollow ==
    ASSUME FollowInv, NEW q \in Request, Receive(q)
    PROVE  FollowInv'
<1>1. HeaderQuery(q) \/ BodyQuery(q)
    <2>1. CASE q \in [kind : {"number"}, origin : {[number |-> n, ours |-> TRUE] : n \in 0 .. Top + 1},
                      amount : Amounts, skip : Skips, reverse : BOOLEAN]
        <3>1. q.kind = "number" /\ q.amount \in Amounts /\ q.skip \in Skips
              /\ \E n \in 0 .. Top + 1 : q.origin = [number |-> n, ours |-> TRUE]
            BY <2>1
        <3>2. q.origin.number \in Nat
            BY <3>1, ServiceAssumption
        <3> QED
            BY <3>1, <3>2, ServiceAssumption, Zenon DEF HeaderQuery
    <2>2. CASE q \in [kind : {"hash"}, origin : Hash, amount : Amounts, skip : Skips,
                      reverse : BOOLEAN]
        <3>1. q.kind = "hash" /\ q.amount \in Amounts /\ q.skip \in Skips /\ q.origin \in Hash
            BY <2>2
        <3>2. q.origin.number \in Nat
            BY <3>1, ServiceAssumption DEF Hash
        <3> QED
            BY <3>1, <3>2, ServiceAssumption, Zenon DEF HeaderQuery
    <2>3. CASE q \in [kind : {"bodies"}, hashes : UNION {[1 .. n -> Hash] : n \in 1 .. MaxHashes}]
        <3>1. PICK n \in 1 .. MaxHashes : q.hashes \in [1 .. n -> Hash]
            BY <2>3
        <3>2. n \in Nat
            BY ServiceAssumption
        <3> QED
            BY <2>3, <3>1, <3>2 DEF BodyQuery
    <2> QED
        BY <2>1, <2>2, <2>3 DEF Request
<1>2. /\ query' = q /\ left' = 0 /\ lookups' = 0 /\ segment' = << >> /\ headers' = << >>
      /\ head' = head /\ bundled' = bundled /\ misses' = misses
    BY DEF Receive, world
<1>3. CASE BodyQuery(q)
    <2>1. phase' = "bodies" /\ number' = 0
        BY <1>3 DEF Receive, BodyQuery
    <2>2. ServiceTyped'
        BY <1>2, <2>1 DEF FollowInv, ServiceTyped
    <2>3. BodiesInv'
        <3>1. << >> \in Seq(Nat) /\ Positions(<< >>)'
            BY <1>2 DEF Positions, BodiesAt
        <3>2. Len(q.hashes) \in Nat
            BY <1>3 DEF BodyQuery
        <3> QED
            <4>1. BodyQuery(query') /\ lookups' <= Len(query'.hashes) /\ Len(headers') <= MaxServe
                BY <1>2, <1>3, <3>2, ServiceAssumption
            <4>2. \E t \in Seq(Nat) : Positions(t)'
                BY <3>1, Zenon
            <4> QED
                BY <4>1, <4>2 DEF BodiesInv
    <2> QED
        BY <2>1, <2>2, <2>3, NotYetReplied DEF FollowInv
<1>4. CASE HeaderQuery(q)
    <2>1. /\ number' = q.origin.number
          /\ phase' = IF q.skip # 0 THEN "stride"
                      ELSE IF q.kind = "number" THEN "from" ELSE "origin"
        BY <1>4 DEF Receive, HeaderQuery
    <2>2. ServiceTyped'
        BY <1>2, <1>4, <2>1 DEF FollowInv, ServiceTyped, HeaderQuery
    <2>3. Starts(q, << >>) /\ Nth(q, 1) = q.origin.number
        BY <1>4, CountBound DEF Starts, Nth, HeaderQuery
    <2>4. q.skip # 0 => StrideInv'
        BY <1>2, <1>4, <2>1, <2>3 DEF StrideInv, HeaderQuery
    <2> QED
        BY <1>2, <1>4, <2>1, <2>2, <2>4, NotYetReplied DEF FollowInv, HeaderQuery
<1> QED
    BY <1>1, <1>3, <1>4

(* The first blocks of a request are an answer to it.                      *)
LEMMA StartFollows ==
    ASSUME NEW q, HeaderQuery(q), NEW h \in Seq(Nat), Starts(q, h)
    PROVE  Follows(q, h)
<1>1. (\E k \in 0 .. Len(WantedOf(q)) : h = SubSeq(WantedOf(q), 1, k)) /\ Len(h) <= MaxServe
    BY StartIsPrefix
<1>2. q.kind # "bodies"
    BY DEF HeaderQuery
<1> QED
    BY <1>1, <1>2 DEF Follows

(* What GetHeadersFrom hands over is an answer.                            *)
LEMMA DownFollows ==
    ASSUME ServiceTyped, DownInv
    PROVE  InOrder \in Seq(Nat) /\ Follows(query, InOrder)
<1> DEFINE n == query.origin.number
           x == Ordered(query, segment)
<1>1. HeaderQuery(query) /\ query.skip = 0 /\ n \in Nat /\ segment \in Seq(Nat)
      /\ number \in Int /\ left \in Nat /\ Descends(segment, number)
    BY DEF DownInv, ServiceTyped, HeaderQuery
<1>2. Count(query) \in Nat \ {0} /\ Count(query) <= MaxServe /\ MaxServe \in Nat
    BY <1>1, CountBound, ServiceAssumption
<1>3. x \in Seq(Nat) /\ Len(x) = Len(segment)
    <2>1. Reversed(segment) \in Seq(Nat) /\ Len(Reversed(segment)) = Len(segment)
        BY <1>1, ReverseOf
    <2> QED
        BY <1>1, <2>1 DEF Ordered
<1>4. InOrder = headers \o x
    BY DEF InOrder, Ordered
<1>5. query.kind \in {"number", "hash"}
    BY <1>1 DEF HeaderQuery
<1> HIDE DEF x
<1>6. CASE query.kind = "number"
    <2>1. InOrder = x
        BY <1>3, <1>4, <1>6 DEF DownInv
    <2>2. CASE segment = << >>
        <3>1. x = << >>
            BY <1>3, <2>2
        <3>2. Starts(query, x)
            BY <1>2, <3>1 DEF Starts
        <3> QED
            BY <1>1, <1>3, <2>1, <3>2, StartFollows
    <2>3. CASE segment # << >>
        <3>1. number + Len(segment) <= High(query) /\ number - left + 1 >= Low(query)
            BY <2>3 DEF DownInv
        <3>2. number + 1 >= IF query.reverse THEN n - Count(query) + 1 ELSE n
            BY <1>1, <1>2, <1>6, <3>1 DEF Low
        <3>3. x \in Pieces(WantedOf(query))
            BY <1>1, <2>3, <3>1, <3>2, SegmentIsPiece DEF x
        <3>4. Len(segment) <= Count(query)
            <4>1. CASE query.reverse
                BY <1>1, <1>2, <3>1, <3>2, <4>1 DEF High
            <4>2. CASE ~query.reverse
                BY <1>1, <1>2, <3>1, <3>2, <4>2 DEF High
            <4> QED
                BY <4>1, <4>2
        <3>5. Len(x) <= MaxServe
            BY <1>1, <1>2, <1>3, <3>4
        <3> QED
            BY <1>1, <1>3, <1>6, <2>1, <3>3, <3>5 DEF Follows
    <2> QED
        BY <2>2, <2>3
<1>7. CASE query.kind = "hash"
    <2>1. ~query.reverse /\ headers = <<n>> /\ (n # 0 => segment = << >> /\ left = 0)
        BY <1>7 DEF DownInv
    <2>2. InOrder \in Seq(Nat) /\ Len(InOrder) = Len(x) + 1 /\ InOrder[1] = n
          /\ Tail(InOrder) = x
        BY <1>1, <1>3, <1>4, <2>1
    <2>3. CASE segment = << >>
        <3>1. x = << >> /\ Len(InOrder) = 1
            BY <1>3, <2>2, <2>3
        <3>2. Nth(query, 1) = n
            BY <1>1 DEF Nth, HeaderQuery
        <3>3. Starts(query, InOrder)
            BY <1>2, <2>2, <3>1, <3>2 DEF Starts
        <3> QED
            BY <1>1, <2>2, <3>3, StartFollows
    <2>4. CASE segment # << >>
        <3>1. n = 0 /\ number + Len(segment) <= High(query) /\ number - left + 1 >= 1
            BY <1>7, <2>1, <2>4 DEF DownInv, Low
        <3>2. number + 1 >= IF query.reverse THEN n - Count(query) + 1 ELSE n
            BY <1>1, <2>1, <3>1
        <3>3. x \in Pieces(WantedOf(query))
            BY <1>1, <2>4, <3>1, <3>2, SegmentIsPiece DEF x
        <3>4. High(query) = Count(query) - 1
            BY <1>2, <2>1, <3>1 DEF High
        <3>5. Len(InOrder) <= MaxServe
            BY <1>1, <1>2, <1>3, <2>2, <3>1, <3>4
        <3> QED
            BY <1>1, <1>7, <2>1, <2>2, <3>1, <3>3, <3>5, Zenon DEF Follows
    <2> QED
        BY <2>3, <2>4
<1> QED
    BY <1>5, <1>6, <1>7

(* GetHeadersFrom stays within what it is asked for.                       *)
LEMMA FromBounds ==
    ASSUME ServiceTyped, NEW top \in Nat, NEW count \in Nat, GetHeadersFrom(top, count)
    PROVE  /\ phase' = "down" /\ number' \in Int /\ left' \in Nat
           /\ left' = 0 \/ (number' <= top /\ number' - left' + 1 >= top - count + 1)
BY DEF GetHeadersFrom, ServiceTyped

(* The loop of GetHeadersFrom. *)
LEMMA DownKeepsFollow ==
    ASSUME FollowInv, ContiguousByNumber \/ HeaderBelow \/ NoHeaderBelow \/ SegmentDone
    PROVE  FollowInv'
<1>1. ServiceTyped
    BY DEF FollowInv
<1>2. CASE ContiguousByNumber
    <2> DEFINE n == query.origin.number
               top == IF query.reverse THEN n ELSE n + Count(query) - 1
    <2>1. /\ HeaderQuery(query) /\ query.skip = 0 /\ query.kind = "number"
          /\ segment = << >> /\ headers = << >> /\ n \in Nat
        BY <1>2 DEF FollowInv, ContiguousByNumber, HeaderQuery
    <2>2. Count(query) \in Nat \ {0}
        BY <2>1, CountBound
    <2>3. top \in Nat /\ top = High(query) /\ top - Count(query) + 1 = Low(query)
        BY <2>1, <2>2 DEF High, Low
    <2>4. GetHeadersFrom(top, Count(query))
        BY <1>2 DEF ContiguousByNumber
    <2>5. UNCHANGED <<head, bundled, query, lookups, segment, headers, misses>>
        BY <1>2 DEF ContiguousByNumber, world
    <2> HIDE DEF top, n
    <2>6. /\ phase' = "down" /\ number' \in Int /\ left' \in Nat
          /\ left' = 0 \/ (number' <= top /\ number' - left' + 1 >= top - Count(query) + 1)
        BY <1>1, <2>2, <2>3, <2>4, FromBounds
    <2>7. DownInv'
        <3>1. Descends(segment', number')
            BY <2>1, <2>5 DEF Descends
        <3>2. \/ segment' = << >> /\ left' = 0
              \/ number' + Len(segment') <= High(query) /\ number' - left' + 1 >= Low(query)
            BY <2>1, <2>3, <2>5, <2>6
        <3> QED
            BY <2>1, <2>5, <3>1, <3>2 DEF DownInv
    <2>8. ServiceTyped'
        BY <1>1, <2>5, <2>6 DEF ServiceTyped
    <2> QED
        BY <2>6, <2>7, <2>8, NotYetReplied DEF FollowInv
<1>3. CASE HeaderBelow
    <2>1. /\ DownInv /\ left > 0 /\ Archived(number) /\ segment' = Append(segment, number)
          /\ left' = left - 1 /\ number' = number - 1 /\ phase' = "down"
          /\ UNCHANGED <<head, bundled, query, lookups, headers, misses>>
        BY <1>3 DEF FollowInv, HeaderBelow, Found, world
    <2>2. number \in Nat /\ left \in Nat /\ segment \in Seq(Nat)
        BY <1>1, <2>1, ServiceAssumption DEF ServiceTyped, Archived
    <2>3. segment' \in Seq(Nat) /\ Len(segment') = Len(segment) + 1 /\ left' \in Nat
          /\ number' \in Int
        BY <2>1, <2>2
    <2>4. ServiceTyped'
        BY <1>1, <2>1, <2>3 DEF ServiceTyped
    <2>5. Descends(segment', number')
        <3>1. Descends(segment, number)
            BY <2>1 DEF DownInv
        <3> SUFFICES ASSUME NEW i \in 1 .. Len(segment')
                     PROVE  segment'[i] = number' + Len(segment') + 1 - i
            BY DEF Descends
        <3>2. CASE i = Len(segment')
            BY <2>1, <2>2, <2>3, <3>2
        <3>3. CASE i # Len(segment')
            <4>1. i \in 1 .. Len(segment) /\ segment'[i] = segment[i]
                BY <2>1, <2>2, <2>3, <3>3
            <4>2. segment[i] = number + Len(segment) + 1 - i
                BY <3>1, <4>1 DEF Descends
            <4> QED
                BY <2>1, <2>2, <2>3, <4>1, <4>2
        <3> QED
            BY <3>2, <3>3
    <2>6. number + Len(segment) <= High(query) /\ number - left + 1 >= Low(query)
        BY <2>1, <2>2 DEF DownInv
    <2>7. number' + Len(segment') = number + Len(segment) /\ number' - left' + 1 = number - left + 1
        BY <2>1, <2>2, <2>3
    <2>8. DownInv'
        BY <2>1, <2>2, <2>5, <2>6, <2>7 DEF DownInv
    <2> QED
        BY <2>1, <2>4, <2>8, NotYetReplied DEF FollowInv
<1>4. CASE NoHeaderBelow \/ SegmentDone
    <2>1. DownInv /\ Reply(InOrder)
        BY <1>4 DEF FollowInv, NoHeaderBelow, SegmentDone
    <2>2. misses' \in Nat
        BY <1>1, <1>4, LookupTyped DEF NoHeaderBelow, SegmentDone, ServiceTyped
    <2>3. InOrder \in Seq(Nat) /\ Follows(query, InOrder)
        BY <1>1, <2>1, DownFollows
    <2>4. HeaderQuery(query)
        BY <2>1 DEF DownInv
    <2> QED
        BY <2>1, <2>2, <2>3, <2>4, ReplyKeepsFollow
<1> QED
    BY <1>2, <1>3, <1>4

(* Another block of the request is appended. *)
LEMMA NextStarts ==
    ASSUME NEW q, HeaderQuery(q), NEW h \in Seq(Nat), Starts(q, h), NEW n \in Nat,
           n = Nth(q, Len(h) + 1), Len(h) < Count(q)
    PROVE  /\ Append(h, n) \in Seq(Nat) /\ Len(Append(h, n)) = Len(h) + 1
           /\ Starts(q, Append(h, n))
<1>1. Count(q) \in Nat
    BY CountBound
<1>2. Append(h, n) \in Seq(Nat) /\ Len(Append(h, n)) = Len(h) + 1 /\ Len(h) \in Nat
    OBVIOUS
<1>3. ASSUME NEW i \in 1 .. Len(h) + 1
      PROVE  Append(h, n)[i] = Nth(q, i)
    <2>1. CASE i = Len(h) + 1
        BY <2>1
    <2>2. CASE i # Len(h) + 1
        BY <1>2, <2>2 DEF Starts
    <2> QED
        BY <2>1, <2>2
<1> QED
    BY <1>1, <1>2, <1>3 DEF Starts

(* The origin of a contiguous request by hash. *)
LEMMA OriginKeepsFollow ==
    ASSUME FollowInv, Origin \/ NoOrigin
    PROVE  FollowInv'
<1> DEFINE n == query.origin.number
<1>1. /\ ServiceTyped /\ HeaderQuery(query) /\ query.skip = 0 /\ query.kind = "hash"
      /\ number = n /\ segment = << >> /\ headers = << >> /\ n \in Nat
    BY DEF FollowInv, Origin, NoOrigin, HeaderQuery
<1>2. Count(query) \in Nat \ {0}
    BY <1>1, CountBound
<1>3. Starts(query, << >>) /\ Starts(query, <<n>>) /\ <<n>> \in Seq(Nat)
    <2>1. Nth(query, 1) = n
        BY <1>1 DEF Nth, HeaderQuery
    <2> QED
        BY <1>1, <1>2, <2>1 DEF Starts
<1>4. CASE NoOrigin
    <2>1. Reply(<< >>) /\ NotFound(number)
        BY <1>4 DEF NoOrigin
    <2>2. misses' \in Nat
        BY <1>1, <2>1, LookupTyped
    <2>3. << >> \in Seq(Nat) /\ Follows(query, << >>)
        <3>1. << >> \in Seq(Nat)
            OBVIOUS
        <3> QED
            BY <1>1, <1>3, <3>1, StartFollows, Zenon
    <2> QED
        BY <1>1, <2>1, <2>2, <2>3, ReplyKeepsFollow, Zenon
<1>5. CASE Origin
    <2>1. headers' = <<n>> /\ UNCHANGED <<head, bundled, query, lookups, segment, misses>>
        BY <1>1, <1>5 DEF Origin, Found, world
    <2>2. CASE query.reverse
        <3>1. phase' = "up" /\ number' = n - 1 /\ left' = Count(query) - 1
            BY <1>1, <1>5, <2>2 DEF Origin
        <3>2. ServiceTyped'
            BY <1>1, <1>2, <1>3, <2>1, <3>1 DEF ServiceTyped
        <3>3. UpInv'
            BY <1>1, <1>2, <1>3, <2>1, <2>2, <3>1 DEF UpInv
        <3> QED
            BY <3>1, <3>2, <3>3, NotYetReplied DEF FollowInv
    <2>3. CASE ~query.reverse
        <3>1. /\ phase' = "down" /\ number' \in Int /\ left' \in Nat
              /\ n # 0 => left' = 0
              /\ left' = 0 \/ (number' <= High(query) /\ number' - left' + 1 >= 1)
            <4>1. CASE n = 0
                <5> DEFINE top == number + Count(query) - 1
                           count == Count(query) - 1
                <5>1. GetHeadersFrom(top, count)
                    <6>1. number = 0
                        BY <1>1, <4>1
                    <6> QED
                        BY <1>5, <2>3, <6>1 DEF Origin
                <5>2. top \in Nat /\ count \in Nat /\ top = High(query) /\ top - count + 1 = 1
                    <6>1. High(query) = n + Count(query) - 1 /\ number = n
                        BY <1>1, <2>3 DEF High
                    <6>2. number = 0
                        BY <4>1, <6>1
                    <6>3. top \in Nat /\ count \in Nat
                        BY <1>2, <6>2
                    <6>4. top = High(query)
                        BY <6>1
                    <6>5. top - count + 1 = 1
                        BY <1>2, <6>2
                    <6> QED
                        BY <6>3, <6>4, <6>5
                <5> HIDE DEF top, count
                <5>3. /\ phase' = "down" /\ number' \in Int /\ left' \in Nat
                      /\ left' = 0 \/ (number' <= top /\ number' - left' + 1 >= top - count + 1)
                    BY <1>1, <5>1, <5>2, FromBounds
                <5> QED
                    BY <4>1, <5>2, <5>3, Zenon
            <4>2. CASE n # 0
                BY <1>1, <1>5, <2>3, <4>2 DEF Origin
            <4> QED
                BY <4>1, <4>2
        <3>2. ServiceTyped'
            BY <1>1, <1>3, <2>1, <3>1 DEF ServiceTyped
        <3>3. Descends(segment', number')
            BY <1>1, <2>1 DEF Descends
        <3>4. DownInv'
            <4>1. segment' = << >>
                BY <1>1, <2>1
            <4> QED
                BY <1>1, <2>1, <2>3, <3>1, <3>3, <4>1 DEF DownInv, Low
        <3> QED
            BY <3>1, <3>2, <3>4, NotYetReplied DEF FollowInv
    <2> QED
        BY <2>2, <2>3
<1> QED
    BY <1>4, <1>5

(* The ancestors of the origin. *)
LEMMA UpKeepsFollow ==
    ASSUME FollowInv, Parent \/ NoParent \/ ParentsDone
    PROVE  FollowInv'
<1>1. /\ ServiceTyped /\ UpInv /\ HeaderQuery(query) /\ query.skip = 0 /\ query.reverse
      /\ Starts(query, headers) /\ headers \in Seq(Nat) /\ query.origin.number \in Nat
    BY DEF FollowInv, Parent, NoParent, ParentsDone, UpInv, HeaderQuery, ServiceTyped
<1>2. CASE Parent
    <2>1. /\ left > 0 /\ Archived(number) /\ headers' = Append(headers, number)
          /\ number' = number - 1 /\ left' = left - 1 /\ phase' = "up"
          /\ UNCHANGED <<head, bundled, query, lookups, segment, misses>>
        BY <1>2 DEF Parent, Found, world
    <2>2. number \in Nat /\ left \in Nat
        BY <1>1, <2>1, ServiceAssumption DEF ServiceTyped, Archived
    <2>3. number = Nth(query, Len(headers) + 1) /\ Len(headers) < Count(query)
        <3>1. number = query.origin.number - Len(headers) /\ left = Count(query) - Len(headers)
              /\ Count(query) \in Nat
            BY <1>1, CountBound DEF UpInv
        <3>2. (Len(headers) + 1 - 1) * (query.skip + 1) = Len(headers)
            BY <1>1
        <3> QED
            BY <1>1, <2>1, <2>2, <3>1, <3>2 DEF Nth
    <2>4. Append(headers, number) \in Seq(Nat) /\ Len(Append(headers, number)) = Len(headers) + 1
          /\ Starts(query, Append(headers, number))
        BY <1>1, <2>2, <2>3, NextStarts
    <2>5. ServiceTyped'
        BY <1>1, <2>1, <2>2, <2>4 DEF ServiceTyped
    <2>6. UpInv'
        <3>1. headers' # << >>
            BY <1>1, <2>1, <2>4
        <3>2. Count(query) \in Nat
            BY <1>1, CountBound
        <3>3. number' = query.origin.number - Len(headers') /\ left' = Count(query) - Len(headers')
            <4>1. number = query.origin.number - Len(headers) /\ left = Count(query) - Len(headers)
                BY <1>1 DEF UpInv
            <4>2. Len(headers') = Len(headers) + 1 /\ Len(headers) \in Nat
                BY <1>1, <2>1, <2>4
            <4>3. query.origin.number \in Nat /\ number' = number - 1 /\ left' = left - 1
                BY <1>1, <2>1
            <4>4. number' = query.origin.number - Len(headers')
                BY <4>1, <4>2, <4>3
            <4>5. left' = Count(query) - Len(headers')
                BY <3>2, <4>1, <4>2, <4>3
            <4> QED
                BY <4>4, <4>5
        <3> QED
            BY <1>1, <2>1, <2>4, <3>1, <3>3, Zenon DEF UpInv
    <2> QED
        BY <2>1, <2>5, <2>6, NotYetReplied DEF FollowInv
<1>3. CASE NoParent \/ ParentsDone
    <2>1. Reply(headers) /\ misses' \in Nat
        BY <1>1, <1>3, LookupTyped DEF NoParent, ParentsDone, ServiceTyped
    <2>2. Follows(query, headers)
        BY <1>1, StartFollows
    <2> QED
        BY <1>1, <2>1, <2>2, ReplyKeepsFollow
<1> QED
    BY <1>2, <1>3

(* Where a request with gaps stands: the next header belongs to it, and so *)
(* does the block after it.                                                *)
LEMMA StrideNext ==
    ASSUME FollowInv, phase = "stride"
    PROVE  /\ ServiceTyped /\ StrideInv /\ HeaderQuery(query) /\ Starts(query, headers)
           /\ headers \in Seq(Nat) /\ number \in Nat /\ Step \in Nat \ {0}
           /\ StrideOpen =>
                 /\ Append(headers, number) \in Seq(Nat)
                 /\ Len(Append(headers, number)) = Len(headers) + 1
                 /\ Starts(query, Append(headers, number))
           /\ Nth(query, Len(headers) + 2) = IF query.reverse THEN number - Step ELSE number + Step
<1>1. /\ ServiceTyped /\ StrideInv /\ HeaderQuery(query) /\ Starts(query, headers)
      /\ headers \in Seq(Nat) /\ number \in Nat /\ number = Nth(query, Len(headers) + 1)
    BY DEF FollowInv, ServiceTyped, StrideInv
<1>2. Step \in Nat \ {0} /\ query.skip \in Nat /\ query.origin.number \in Nat
    BY <1>1 DEF Step, HeaderQuery
<1>3. ASSUME StrideOpen
      PROVE  /\ Append(headers, number) \in Seq(Nat)
             /\ Len(Append(headers, number)) = Len(headers) + 1
             /\ Starts(query, Append(headers, number))
    <2>1. Len(headers) < Count(query)
        BY <1>3 DEF StrideOpen, Count
    <2> QED
        BY <1>1, <2>1, NextStarts
<1>4. Nth(query, Len(headers) + 2) = IF query.reverse THEN number - Step ELSE number + Step
    <2> DEFINE l == Len(headers)
               s == query.skip + 1
    <2>1. l \in Nat /\ s \in Nat /\ s > 0 /\ Step = s
        BY <1>1, <1>2 DEF Step
    <2>2. (l + 1) * s = l * s + s /\ l * s \in Nat
        <3> HIDE DEF l, s
        <3> QED
            BY <2>1
    <2>3. l + 1 - 1 = l /\ l + 2 - 1 = l + 1
        BY <2>1
    <2>4. CASE query.reverse
        <3>1. number = query.origin.number - l * s
            BY <1>1, <2>3, <2>4 DEF Nth
        <3>2. Nth(query, l + 2) = query.origin.number - (l + 1) * s
            BY <2>3, <2>4 DEF Nth
        <3> HIDE DEF l, s
        <3> QED
            BY <1>2, <2>1, <2>2, <2>4, <3>1, <3>2 DEF l
    <2>5. CASE ~query.reverse
        <3>1. number = query.origin.number + l * s
            BY <1>1, <2>3, <2>5 DEF Nth
        <3>2. Nth(query, l + 2) = query.origin.number + (l + 1) * s
            BY <2>3, <2>5 DEF Nth
        <3> HIDE DEF l, s
        <3> QED
            BY <1>2, <2>1, <2>2, <2>5, <3>1, <3>2 DEF l
    <2> QED
        BY <2>4, <2>5
<1> QED
    BY <1>1, <1>2, <1>3, <1>4

(* One step along a request with gaps. *)
LEMMA AdvanceKeepsFollow ==
    ASSUME FollowInv, phase = "stride", StrideOpen, NEW to, NEW spent, Advance(to, spent),
           to = (IF query.reverse THEN number - Step ELSE number + Step),
           query.reverse => number >= Step, misses' \in Nat
    PROVE  FollowInv'
<1>1. /\ ServiceTyped /\ StrideInv /\ HeaderQuery(query) /\ headers \in Seq(Nat)
      /\ number \in Nat /\ Step \in Nat \ {0}
      /\ Append(headers, number) \in Seq(Nat)
      /\ Len(Append(headers, number)) = Len(headers) + 1
      /\ Starts(query, Append(headers, number))
      /\ Nth(query, Len(headers) + 2) = to
    BY StrideNext
<1>2. /\ number' = to /\ lookups' = lookups + 1 /\ headers' = Append(headers, number)
      /\ phase' = "stride" /\ UNCHANGED <<head, bundled, query, left, segment>>
    BY DEF Advance, world
<1>3. to \in Nat
    BY <1>1
<1>4. ServiceTyped'
    BY <1>1, <1>2, <1>3 DEF ServiceTyped
<1>5. StrideInv'
    <2>1. Len(headers') + 1 = Len(headers) + 2 /\ lookups' = Len(headers')
        BY <1>1, <1>2 DEF StrideInv
    <2>2. number' = Nth(query', Len(headers') + 1)
        BY <1>1, <1>2, <2>1
    <2> QED
        BY <1>1, <1>2, <1>3, <2>1, <2>2 DEF StrideInv
<1> QED
    BY <1>2, <1>4, <1>5, NotYetReplied DEF FollowInv

(* A request with gaps. *)
LEMMA StrideKeepsFollow ==
    ASSUME FollowInv,
           StrideByNumber \/ StrideUp \/ StrideDown \/ StrideCut \/ StrideMiss \/ StrideFull
    PROVE  FollowInv'
<1>1. phase = "stride"
    BY DEF StrideByNumber, StrideUp, StrideDown, StrideCut, StrideMiss, StrideFull
<1>2. /\ ServiceTyped /\ HeaderQuery(query) /\ Starts(query, headers) /\ headers \in Seq(Nat)
      /\ StrideOpen => /\ Append(headers, number) \in Seq(Nat)
                       /\ Starts(query, Append(headers, number))
    BY <1>1, StrideNext
<1>3. misses' \in Nat
    <2>1. CASE UNCHANGED misses
        BY <1>2, <2>1 DEF ServiceTyped
    <2>2. CASE misses' = misses + 1
        BY <1>2, <2>2 DEF ServiceTyped
    <2> QED
        BY <2>1, <2>2 DEF StrideByNumber, StrideUp, StrideDown, StrideCut, StrideMiss, StrideFull,
                          FoundAtStride, Found, HasHeader, NotFound, NoHeader
<1>4. CASE StrideOpen /\ Reply(Append(headers, number))
    <2>1. Follows(query, Append(headers, number))
        BY <1>2, <1>4, StartFollows, Zenon
    <2> QED
        BY <1>2, <1>3, <1>4, <2>1, ReplyKeepsFollow, Zenon
<1>5. CASE Reply(headers)
    <2>1. Follows(query, headers)
        BY <1>2, StartFollows
    <2> QED
        BY <1>2, <1>3, <1>5, <2>1, ReplyKeepsFollow
<1>6. CASE StrideOpen /\ ~query.reverse /\ \E spent : Advance(number + Step, spent)
    <2>1. PICK spent : Advance(number + Step, spent)
        BY <1>6
    <2> QED
        BY <1>1, <1>3, <1>6, <2>1, AdvanceKeepsFollow
<1>7. CASE StrideOpen /\ query.reverse /\ number >= Step /\ \E spent : Advance(number - Step, spent)
    <2>1. PICK spent : Advance(number - Step, spent)
        BY <1>7
    <2> QED
        BY <1>1, <1>3, <1>7, <2>1, AdvanceKeepsFollow
<1> QED
    BY <1>4, <1>5, <1>6, <1>7
       DEF StrideByNumber, StrideUp, StrideDown, StrideCut, StrideMiss, StrideFull

(* The positions of the bodies found so far are a subsequence of the       *)
(* request.                                                                *)
LEMMA PositionsOfRequest ==
    ASSUME ServiceTyped, BodyQuery(query), lookups <= Len(query.hashes),
           NEW t \in Seq(Nat), Positions(t)
    PROVE  t \in Subsequences(query.hashes) /\ Len(t) = Len(headers)
<1> DEFINE m == Len(query.hashes)
<1>1. m \in Nat /\ lookups \in Nat /\ lookups <= m /\ Len(t) \in Nat /\ Len(t) <= lookups
    BY DEF ServiceTyped, BodyQuery, Positions
<1>2. \A i \in 1 .. Len(t) : t[i] \in 1 .. lookups
    BY DEF Positions
<1> HIDE DEF m
<1>3. Len(t) \in 0 .. m /\ t \in [1 .. Len(t) -> 1 .. m]
    BY <1>1, <1>2
<1>4. DOMAIN t = 1 .. Len(t) /\ \A i, j \in 1 .. Len(t) : i < j => t[i] < t[j]
    BY DEF Positions
<1>5. t \in UNION {[1 .. k -> 1 .. m] : k \in 0 .. m}
    BY <1>3
<1>6. headers = BodiesAt(t) /\ Len(BodiesAt(t)) = Len(t)
    BY DEF Positions, BodiesAt
<1> QED
    BY <1>4, <1>5, <1>6 DEF Subsequences, m

(* A body is found at the next position. *)
LEMMA OneMoreBody ==
    ASSUME ServiceTyped, BodyQuery(query), NEW t \in Seq(Nat), Positions(t),
           NEW p \in Nat, p = lookups + 1,
           lookups' = p, query' = query, headers' = Append(headers, Asked)
    PROVE  /\ Append(t, p) \in Seq(Nat) /\ Len(Append(t, p)) = Len(t) + 1
           /\ Positions(Append(t, p))'
<1> DEFINE u == Append(t, p)
<1>1. lookups \in Nat /\ Len(t) \in Nat /\ Len(t) <= lookups
      /\ (\A i \in 1 .. Len(t) : t[i] \in 1 .. lookups)
      /\ (\A i, j \in 1 .. Len(t) : i < j => t[i] < t[j])
    BY DEF ServiceTyped, Positions
<1>2. u \in Seq(Nat) /\ Len(u) = Len(t) + 1 /\ u[Len(t) + 1] = p
      /\ \A i \in 1 .. Len(t) : u[i] = t[i]
    BY <1>1
<1> HIDE DEF u
<1>3. ASSUME NEW i \in 1 .. Len(u)
      PROVE  u[i] \in 1 .. p
    <2>1. CASE i = Len(t) + 1
        BY <1>1, <1>2, <2>1
    <2>2. CASE i # Len(t) + 1
        <3>1. i \in 1 .. Len(t) /\ u[i] = t[i]
            BY <1>1, <1>2, <2>2
        <3>2. t[i] \in 1 .. lookups
            BY <1>1, <3>1
        <3> QED
            BY <1>1, <3>1, <3>2
    <2> QED
        BY <2>1, <2>2
<1>4. ASSUME NEW i \in 1 .. Len(u), NEW j \in 1 .. Len(u), i < j
      PROVE  u[i] < u[j]
    <2>1. i \in 1 .. Len(t) /\ u[i] = t[i] /\ t[i] \in 1 .. lookups
        BY <1>1, <1>2, <1>4
    <2>2. CASE j = Len(t) + 1
        BY <1>1, <1>2, <2>1, <2>2
    <2>3. CASE j # Len(t) + 1
        <3>1. j \in 1 .. Len(t) /\ u[j] = t[j]
            BY <1>1, <1>2, <2>3
        <3> QED
            BY <1>1, <1>4, <2>1, <3>1
    <2> QED
        BY <2>2, <2>3
<1>5. headers' = BodiesAt(u)'
    <2> DEFINE W(i) == query.hashes[u[i]].number
    <2>1. headers = [i \in 1 .. Len(t) |-> query.hashes[t[i]].number]
        BY DEF Positions, BodiesAt
    <2>2. \A i \in 1 .. Len(t) : headers[i] = W(i)
        BY <1>2, <2>1
    <2>3. Asked = W(Len(t) + 1)
        BY <1>2 DEF Asked
    <2>4. headers \in Seq(Nat) /\ Len(headers) = Len(t)
        BY <1>1, <2>1 DEF ServiceTyped
    <2> HIDE DEF W
    <2>5. Append(headers, Asked) = [i \in 1 .. Len(t) + 1 |-> W(i)]
        BY <1>1, <2>2, <2>3, <2>4
    <2>6. BodiesAt(u)' = [i \in 1 .. Len(u) |-> W(i)]
        BY DEF BodiesAt, W
    <2> QED
        BY <1>2, <2>5, <2>6
<1>6. Len(u) <= p
    BY <1>1, <1>2
<1>7. Positions(u)'
    BY <1>3, <1>4, <1>5, <1>6 DEF Positions
<1> QED
    BY <1>2, <1>7 DEF u

(* A body is not found. *)
LEMMA OneBodyLess ==
    ASSUME ServiceTyped, NEW t \in Seq(Nat), Positions(t),
           lookups' = lookups + 1, query' = query, headers' = headers
    PROVE  Positions(t)'
<1>1. lookups \in Nat /\ Len(t) \in Nat /\ Len(t) <= lookups + 1
    BY DEF ServiceTyped, Positions
<1>2. \A i \in 1 .. Len(t) : t[i] \in 1 .. lookups + 1
    BY <1>1 DEF Positions
<1>3. BodiesAt(t)' = BodiesAt(t)
    BY DEF BodiesAt
<1> QED
    BY <1>1, <1>2, <1>3 DEF Positions

(* A request for bodies. *)
LEMMA BodiesKeepFollow ==
    ASSUME FollowInv, Body \/ NoBody \/ BodiesDone
    PROVE  FollowInv'
<1>1. ServiceTyped /\ BodiesInv /\ BodyQuery(query)
    BY DEF FollowInv, Body, NoBody, BodiesDone, BodiesInv
<1>2. PICK t \in Seq(Nat) : Positions(t)
    BY <1>1 DEF BodiesInv
<1>3. Len(query.hashes) \in Nat /\ lookups \in Nat /\ lookups <= Len(query.hashes)
      /\ headers \in Seq(Nat)
    BY <1>1 DEF BodyQuery, ServiceTyped, BodiesInv
<1>4. CASE Body \/ NoBody
    <2>1. /\ BodiesOpen /\ lookups' = lookups + 1 /\ phase' = "bodies"
          /\ UNCHANGED <<head, bundled, query, number, left, segment>>
        BY <1>4 DEF Body, NoBody, world
    <2>2. misses' \in Nat
        BY <1>1, <1>4, LookupTyped DEF Body, NoBody
    <2>3. lookups' <= Len(query'.hashes) /\ lookups' \in Nat
        BY <1>3, <2>1 DEF BodiesOpen
    <2>4. /\ headers' \in Seq(Nat) /\ Len(headers') <= MaxServe
          /\ \E u \in Seq(Nat) : Positions(u)'
        <3>1. CASE Body
            <4>1. headers' = Append(headers, Asked)
                BY <3>1 DEF Body
            <4>2. Asked \in Nat
                <5>1. query.hashes[lookups + 1] \in Hash
                    BY <1>1, <1>3, <2>1 DEF BodiesOpen, BodyQuery
                <5> QED
                    BY <5>1, ServiceAssumption DEF Asked, Hash
            <4>3. headers' \in Seq(Nat) /\ Len(headers') <= MaxServe
                BY <1>3, <2>1, <4>1, <4>2, ServiceAssumption DEF BodiesOpen
            <4>4. PICK p \in Nat : p = lookups + 1
                BY <1>3
            <4>5. Append(t, p) \in Seq(Nat) /\ Positions(Append(t, p))'
                BY <1>1, <1>2, <2>1, <4>1, <4>4, OneMoreBody
            <4> QED
                BY <4>3, <4>5, Zenon
        <3>2. CASE NoBody
            <4>1. headers' = headers
                BY <3>2 DEF NoBody
            <4>2. Positions(t)'
                BY <1>1, <1>2, <2>1, <4>1, OneBodyLess
            <4> QED
                BY <1>1, <1>3, <4>1, <4>2 DEF BodiesInv
        <3> QED
            BY <1>4, <3>1, <3>2
    <2>5. ServiceTyped'
        BY <1>1, <2>1, <2>2, <2>3, <2>4 DEF ServiceTyped
    <2>6. BodiesInv'
        BY <1>1, <2>1, <2>3, <2>4 DEF BodiesInv
    <2> QED
        BY <2>1, <2>5, <2>6, NotYetReplied DEF FollowInv
<1>5. CASE BodiesDone
    <2>1. Reply(headers) /\ misses' \in Nat
        BY <1>1, <1>5 DEF BodiesDone, ServiceTyped
    <2>2. t \in Subsequences(query.hashes) /\ headers = BodiesAt(t) /\ Len(headers) <= MaxServe
        BY <1>1, <1>2, <1>3, PositionsOfRequest DEF Positions, BodiesInv
    <2>3. Follows(query, headers)
        BY <1>1, <2>2 DEF Follows, BodyQuery, BodiesAt
    <2> QED
        BY <1>1, <1>3, <2>1, <2>3, ReplyKeepsFollow
<1> QED
    BY <1>4, <1>5

(* Every step keeps FollowInv. *)
LEMMA NextKeepsFollow ==
    ASSUME FollowInv, [Next]_vars
    PROVE  FollowInv'
<1>1. CASE SetCurrentHeader \/ Upload
    BY <1>1, WorldKeepsFollow
<1>2. CASE \E q \in Request : Receive(q)
    BY <1>2, ReceiveKeepsFollow
<1>3. CASE ContiguousByNumber \/ HeaderBelow \/ NoHeaderBelow \/ SegmentDone
    BY <1>3, DownKeepsFollow
<1>4. CASE Origin \/ NoOrigin
    BY <1>4, OriginKeepsFollow
<1>5. CASE Parent \/ NoParent \/ ParentsDone
    BY <1>5, UpKeepsFollow
<1>6. CASE StrideByNumber \/ StrideUp \/ StrideDown \/ StrideCut \/ StrideMiss \/ StrideFull
    BY <1>6, StrideKeepsFollow
<1>7. CASE Body \/ NoBody \/ BodiesDone
    BY <1>7, BodiesKeepFollow
<1>8. CASE Send
    <2>1. phase' = "idle" /\ headers' = << >>
          /\ UNCHANGED <<head, bundled, number, left, lookups, segment, misses>>
        BY <1>8 DEF Send, world, cursor
    <2>2. ServiceTyped'
        BY <2>1 DEF FollowInv, ServiceTyped
    <2> QED
        BY <2>1, <2>2, NotYetReplied DEF FollowInv
<1>9. CASE UNCHANGED vars
    <2>1. UNCHANGED <<head, bundled, query, phase, number, left, ours, budget, lookups, segment,
                      headers, misses>>
        BY <1>9 DEF vars, world, cursor
    <2>2. ServiceTyped' /\ AnswerFollowsQuery'
        BY <2>1, FollowsIs DEF FollowInv, ServiceTyped
    <2>3. (StrideInv => StrideInv') /\ (DownInv => DownInv') /\ (UpInv => UpInv')
        BY <2>1 DEF StrideInv, DownInv, UpInv
    <2>4. BodiesInv => BodiesInv'
        BY <2>1 DEF BodiesInv, Positions, BodiesAt
    <2> QED
        BY <2>1, <2>2, <2>3, <2>4 DEF FollowInv
<1> QED
    BY <1>1, <1>2, <1>3, <1>4, <1>5, <1>6, <1>7, <1>8, <1>9 DEF Next, Handler

(* FollowInv holds whenever a handler of handlers.go is between two of its *)
(* lookups.                                                                *)
THEOREM FollowInvariant == Spec => []FollowInv
<1>1. Init => FollowInv
    <2> SUFFICES ASSUME Init PROVE FollowInv
        OBVIOUS
    <2>1. ServiceTyped
        BY ServiceAssumption DEF Init, ServiceTyped
    <2>2. phase = "idle" /\ AnswerFollowsQuery
        BY FollowsIs DEF Init
    <2> QED
        BY <2>1, <2>2 DEF FollowInv
<1>2. FollowInv /\ [Next]_vars => FollowInv'
    BY NextKeepsFollow
<1> QED
    BY <1>1, <1>2, PTL DEF Spec

(* AnswerFollowsQuery holds for every chain, every limit and every         *)
(* request: whatever lookups fail and however head and bundles move, an    *)
(* answer of ServiceGetBlockHeadersQuery or ServiceGetBlockBodiesQuery     *)
(* holds blocks asked for, in the order asked for, without a hole.         *)
THEOREM AnswersFollowQueries == Spec => []AnswerFollowsQuery
<1>1. FollowInv => AnswerFollowsQuery
    BY DEF FollowInv
<1> QED
    BY <1>1, FollowInvariant, PTL
-----------------------------------------------------------------------------
(* The answer is complete when nothing fails or moves: what the loops have *)
(* collected, and what they have passed over.                              *)

(* Each header collected is in the bundles, and maxNonCanonical has been   *)
(* used up by as many steps as there were lookups.                         *)
StrideFullInv ==
    /\ Len(headers) <= SoftLimit
    /\ \A i \in 1 .. Len(headers) : headers[i] \in {0} \cup Bundled
    /\ query.kind = "hash" =>
          /\ lookups > 0 => query.origin.number \in Bundled
          /\ budget = NonCanonical - lookups * (query.skip + 1) /\ budget >= 0
          /\ query.origin.ours => ours

(* GetHeadersFrom began at the highest bundled block of the request and    *)
(* ends at the lowest one.                                                 *)
DownFullInv ==
    query.kind = "number" =>
        /\ \A i \in 1 .. Len(segment) : segment[i] \in Bundled
        /\ \/ segment = << >> /\ left = 0 /\ bundled < Low(query)
           \/ /\ number - left + 1 = Low(query)
              /\ number + Len(segment) = Smaller(High(query), bundled)

(* No bundled body among those looked up has been passed over.             *)
BodiesFullInv ==
    \E t \in Seq(Nat) :
        /\ Positions(t) /\ Len(t) <= Smaller(SoftLimit, MaxServe)
        /\ Range(headers) \subseteq Bundled
        /\ \A i \in 1 .. lookups : query.hashes[i].number \in Bundled => i \in Range(t)

(* The inductive invariant of completeness, next to FollowInv.             *)
FullInv ==
    /\ calm /\ phase # "idle" => bundled = head
    /\ calm /\ phase = "stride" => StrideFullInv
    /\ calm /\ phase = "down" => DownFullInv
    /\ calm /\ phase = "up" => \A i \in 1 .. Len(headers) : headers[i] \in Bundled
    /\ calm /\ phase = "bodies" => BodiesFullInv
    /\ AnswerComplete

(* FullAnswer, of any request, answer and bundles First .. b.              *)
AllOf(q, h, b) ==
    /\ h \in Pieces(WantedOf(q))
    /\ Range(h) = Range(WantedOf(q)) \cap (First .. b)

(* LongestStart, likewise.                                                 *)
StartOf(q, h, b, k) ==
    \E j \in 0 .. Smaller(Len(WantedOf(q)), k) :
        /\ h = SubSeq(WantedOf(q), 1, j)
        /\ \A i \in 1 .. j : WantedOf(q)[i] \in {0} \cup First .. b
        /\ j < Smaller(Len(WantedOf(q)), k) => WantedOf(q)[j + 1] \notin {0} \cup First .. b

(* FirstBodies, likewise.                                                  *)
BodiesOf(q, h, b) ==
    \E t \in Subsequences(q.hashes) :
        /\ h = [i \in 1 .. Len(t) |-> q.hashes[t[i]].number]
        /\ Len(t) <= Smaller(SoftLimit, MaxServe)
        /\ Range(h) \subseteq First .. b
        /\ \A i \in 1 .. Smaller(Len(q.hashes), 2 * MaxServe) :
              q.hashes[i].number \in First .. b /\ i \notin Range(t) =>
                  Len(t) = Smaller(SoftLimit, MaxServe) /\ t[Smaller(SoftLimit, MaxServe)] < i

(* The whole of FullAnswer.                                                *)
FullOf(q, h, b, k) ==
    IF q.kind = "bodies" THEN BodiesOf(q, h, b)
    ELSE IF q.kind = "hash" /\ q.origin.number \notin First .. b THEN h = << >>
    ELSE IF q.skip = 0 THEN AllOf(q, h, b)
    ELSE StartOf(q, h, b, Smaller(SoftLimit, k))

(* What AnswerComplete says of an answer.                                  *)
Complete(q, h, b) ==
    /\ q.kind # "hash" => FullOf(q, h, b, SoftLimit)
    /\ q.kind = "hash" /\ q.skip = 0 /\ q.reverse => FullOf(q, h, b, SoftLimit)
    /\ q.kind = "hash" /\ q.skip # 0 /\ (q.reverse \/ q.origin.ours) =>
          FullOf(q, h, b, 1 + NonCanonical \div (q.skip + 1))

(* AnswerComplete in terms of the request, the answer and the bundles, in  *)
(* a state and in the next one.                                            *)
LEMMA CompleteIs ==
    /\ AnswerComplete <=>
          (calm /\ phase = "reply" /\ query.kind \in {"number", "hash", "bodies"} =>
              Complete(query, headers, bundled))
    /\ AnswerComplete' <=>
          (calm' /\ phase' = "reply" /\ query'.kind \in {"number", "hash", "bodies"} =>
              Complete(query', headers', bundled'))
<1>1. Wanted = WantedOf(query) /\ Wanted' = WantedOf(query')
    BY DEF Wanted, WantedOf, Step
<1>2. /\ AllBundled(Wanted) <=> AllOf(query, headers, bundled)
      /\ AllBundled(Wanted)' <=> AllOf(query', headers', bundled')
    BY <1>1 DEF AllBundled, AllOf, Bundled
<1>3. ASSUME NEW k
      PROVE  /\ LongestStart(Wanted, k) <=> StartOf(query, headers, bundled, k)
             /\ LongestStart(Wanted, k)' <=> StartOf(query', headers', bundled', k)
    BY <1>1 DEF LongestStart, StartOf, Bundled
<1>4. /\ FirstBodies(Smaller(SoftLimit, MaxServe)) <=> BodiesOf(query, headers, bundled)
      /\ FirstBodies(Smaller(SoftLimit, MaxServe))' <=> BodiesOf(query', headers', bundled')
    BY Zenon DEF FirstBodies, BodiesOf, Bundled, BodiesAt
<1>5. ASSUME NEW k
      PROVE  /\ FullAnswer(k) <=> FullOf(query, headers, bundled, k)
             /\ FullAnswer(k)' <=> FullOf(query', headers', bundled', k)
    <2>1. /\ LongestStart(Wanted, Smaller(SoftLimit, k))
             <=> StartOf(query, headers, bundled, Smaller(SoftLimit, k))
          /\ LongestStart(Wanted, Smaller(SoftLimit, k))'
             <=> StartOf(query', headers', bundled', Smaller(SoftLimit, k))
        BY <1>3
    <2> QED
        BY <1>2, <1>4, <2>1, Zenon DEF FullAnswer, FullOf, Bundled
<1> QED
    BY <1>5 DEF AnswerComplete, Complete, Answered, Step

(* Nothing failed: the block is not there. *)
LEMMA CalmLookup ==
    /\ \A n : NotFound(n) /\ calm' => calm /\ ~Archived(n)
    /\ \A n : NoHeader(n) /\ calm' => calm /\ n # 0 /\ ~Archived(n)
    /\ \A n : Found(n) => Archived(n) /\ (calm' <=> calm)
    /\ \A n : HasHeader(n) => (n = 0 \/ Archived(n)) /\ (calm' <=> calm)
BY DEF NotFound, NoHeader, Found, HasHeader

(* A complete answer may be assembled. *)
LEMMA ReplyKeepsFull ==
    ASSUME FullInv, phase # "idle", NEW h, Reply(h), calm' => calm,
           calm' => Complete(query, h, bundled)
    PROVE  FullInv'
<1>1. headers' = h /\ phase' = "reply" /\ query' = query /\ head' = head /\ bundled' = bundled
    BY DEF Reply, world
<1>2. AnswerComplete'
    BY <1>1, CompleteIs
<1>3. calm' => bundled' = head'
    BY <1>1 DEF FullInv
<1> QED
    BY <1>1, <1>2, <1>3 DEF FullInv

(* A step that goes on collecting. *)
LEMMA NotYetComplete ==
    ASSUME phase' # "reply"
    PROVE  AnswerComplete'
BY CompleteIs

(* The blocks of a contiguous request. *)
LEMMA RunBlocks ==
    ASSUME NEW q, HeaderQuery(q), q.skip = 0
    PROVE  Range(WantedOf(q)) =
               {m \in Nat : IF q.reverse
                            THEN q.origin.number - Count(q) < m /\ m <= q.origin.number
                            ELSE q.origin.number <= m /\ m < q.origin.number + Count(q)}
<1> DEFINE n == q.origin.number
           w == WantedOf(q)
           c == Count(q)
<1>1. n \in Nat /\ c \in Nat
    BY CountBound DEF HeaderQuery
<1>2. w \in Seq(Nat) /\ Len(w) <= c /\ (\A i \in 1 .. Len(w) : w[i] = Nth(q, i))
      /\ (\A i \in 1 .. c : Nth(q, i) >= 0 => i <= Len(w))
    BY WantedBlocks
<1>3. \A i \in Nat \ {0} : Nth(q, i) = IF q.reverse THEN n - (i - 1) ELSE n + (i - 1)
    <2> SUFFICES ASSUME NEW i \in Nat \ {0}
                 PROVE  Nth(q, i) = IF q.reverse THEN n - (i - 1) ELSE n + (i - 1)
        OBVIOUS
    <2>1. q.skip + 1 = 1 /\ (i - 1) * 1 = i - 1
        OBVIOUS
    <2> QED
        BY <2>1 DEF Nth
<1> HIDE DEF n, w, c
<1>4. Range(w) = {w[i] : i \in 1 .. Len(w)}
    BY <1>2 DEF Range
<1>5. CASE q.reverse
    <2>1. ASSUME NEW i \in 1 .. Len(w)
          PROVE  w[i] \in Nat /\ n - c < w[i] /\ w[i] <= n
        <3>1. w[i] = n - (i - 1) /\ i <= c /\ w[i] \in Nat
            BY <1>1, <1>2, <1>3, <1>5
        <3> QED
            BY <1>1, <3>1
    <2>2. ASSUME NEW m \in Nat, n - c < m, m <= n
          PROVE  \E i \in 1 .. Len(w) : w[i] = m
        <3> DEFINE j == n - m + 1
        <3>1. j \in 1 .. c /\ j \in Nat \ {0} /\ n - (j - 1) = m
            BY <1>1, <2>2
        <3> HIDE DEF j
        <3>2. Nth(q, j) = m
            BY <1>3, <1>5, <3>1
        <3> QED
            BY <1>2, <2>2, <3>1, <3>2
    <2> QED
        BY <1>4, <1>5, <2>1, <2>2 DEF n, c, w
<1>6. CASE ~q.reverse
    <2>1. ASSUME NEW i \in 1 .. Len(w)
          PROVE  w[i] \in Nat /\ n <= w[i] /\ w[i] < n + c
        <3>1. w[i] = n + (i - 1) /\ i <= c /\ w[i] \in Nat
            BY <1>1, <1>2, <1>3, <1>6
        <3> QED
            BY <1>1, <3>1
    <2>2. ASSUME NEW m \in Nat, n <= m, m < n + c
          PROVE  \E i \in 1 .. Len(w) : w[i] = m
        <3> DEFINE j == m - n + 1
        <3>1. j \in 1 .. c /\ j \in Nat \ {0} /\ n + (j - 1) = m
            BY <1>1, <2>2
        <3> HIDE DEF j
        <3>2. Nth(q, j) = m
            BY <1>3, <1>6, <3>1
        <3> QED
            BY <1>2, <2>2, <3>1, <3>2
    <2> QED
        BY <1>4, <1>6, <2>1, <2>2 DEF n, c, w
<1> QED
    BY <1>5, <1>6

(* The blocks GetHeadersFrom has collected. *)
LEMMA SegmentBlocks ==
    ASSUME NEW q, NEW s \in Seq(Nat), NEW b \in Int, Descends(s, b)
    PROVE  Range(Ordered(q, s)) = b + 1 .. b + Len(s)
<1> DEFINE x == Ordered(q, s)
           l == Len(s)
<1>1. l \in Nat /\ x \in Seq(Nat) /\ Len(x) = l
    BY ReverseOf DEF Ordered
<1>2. /\ \A i \in 1 .. l : x[i] = s[i] \/ x[i] = s[l + 1 - i]
      /\ q.reverse => \A i \in 1 .. l : x[i] = s[i]
      /\ ~q.reverse => \A i \in 1 .. l : x[i] = s[l + 1 - i]
    <2>1. \A i \in 1 .. l : Reversed(s)[i] = s[l + 1 - i]
        BY ReverseOf
    <2> QED
        BY <2>1 DEF Ordered
<1>3. \A i \in 1 .. l : s[i] = b + l + 1 - i
    BY DEF Descends
<1> HIDE DEF x, l
<1>4. ASSUME NEW i \in 1 .. l
      PROVE  x[i] \in b + 1 .. b + l
    <2>1. l + 1 - i \in 1 .. l
        BY <1>1
    <2>2. s[i] = b + l + 1 - i
        BY <1>3
    <2>3. s[l + 1 - i] = b + i
        <3> DEFINE j == l + 1 - i
        <3>1. j \in 1 .. l /\ b + l + 1 - j = b + i
            BY <1>1
        <3> HIDE DEF j
        <3>2. s[j] = b + i
            BY <1>3, <3>1
        <3> QED
            BY <3>2 DEF j
    <2>4. x[i] = b + l + 1 - i \/ x[i] = b + i
        BY <1>2, <2>2, <2>3
    <2> QED
        BY <1>1, <2>4
<1>5. ASSUME NEW m \in b + 1 .. b + l
      PROVE  \E i \in 1 .. l : x[i] = m
    <2> DEFINE j == b + l + 1 - m
               k == l + 1 - j
    <2>1. j \in 1 .. l /\ k \in 1 .. l /\ l + 1 - k = j
        BY <1>1
    <2>2. s[j] = m
        <3>1. b + l + 1 - j = m
            BY <1>1
        <3> HIDE DEF j
        <3> QED
            BY <1>3, <2>1, <3>1
    <2> HIDE DEF j, k
    <2>3. CASE q.reverse
        BY <1>2, <2>1, <2>2, <2>3
    <2>4. CASE ~q.reverse
        BY <1>2, <2>1, <2>2, <2>4
    <2> QED
        BY <2>3, <2>4
<1>6. Range(x) = {x[i] : i \in 1 .. l}
    BY <1>1 DEF Range
<1> QED
    BY <1>4, <1>5, <1>6, Zenon DEF x, l

(* When GetHeadersFrom stops and nothing failed, it has collected all that *)
(* is bundled of the request.                                              *)
LEMMA DownComplete ==
    ASSUME ServiceTyped, DownInv, DownFullInv, left = 0 \/ ~Archived(number)
    PROVE  Complete(query, InOrder, bundled)
<1> DEFINE n == query.origin.number
           x == Ordered(query, segment)
<1>1. HeaderQuery(query) /\ query.skip = 0 /\ n \in Nat /\ segment \in Seq(Nat) /\ bundled \in Nat
      /\ number \in Int /\ left \in Nat /\ Descends(segment, number)
    BY DEF DownInv, ServiceTyped, HeaderQuery
<1>2. Count(query) \in Nat \ {0}
    BY <1>1, CountBound
<1>3. query.kind \in {"number", "hash"}
    BY <1>1 DEF HeaderQuery
<1>4. CASE query.kind = "hash"
    BY <1>1, <1>4 DEF DownInv, Complete
<1>5. CASE query.kind = "number"
    <2>1. x \in Seq(Nat) /\ Len(x) = Len(segment)
        <3>1. Reversed(segment) \in Seq(Nat) /\ Len(Reversed(segment)) = Len(segment)
            BY <1>1, ReverseOf
        <3> QED
            BY <1>1, <3>1 DEF Ordered
    <2>2. InOrder = x
        <3>1. InOrder = headers \o x
            BY DEF InOrder, Ordered
        <3> HIDE DEF x
        <3> QED
            BY <1>5, <2>1, <3>1 DEF DownInv
    <2>3. x \in Pieces(WantedOf(query))
        <3>1. CASE segment = << >>
            <4>1. x = << >> /\ WantedOf(query) \in Seq(Nat)
                BY <1>1, <2>1, <3>1, WantedBlocks
            <4> DEFINE w == WantedOf(query)
            <4> HIDE DEF x, w
            <4>2. 1 + Len(x) - 1 <= Len(w) /\ 1 \in Nat \ {0} /\ w \in Seq(Nat)
                BY <4>1 DEF w
            <4>3. \A i \in 1 .. Len(x) : x[i] = w[1 + i - 1]
                BY <4>1
            <4>4. x \in Pieces(w)
                BY <2>1, <4>2, <4>3, PieceOf, Zenon
            <4> QED
                BY <4>4 DEF w
        <3>2. CASE segment # << >>
            <4>1. number + Len(segment) <= High(query) /\ number - left + 1 >= Low(query)
                BY <3>2 DEF DownInv
            <4>2. number + 1 >= IF query.reverse THEN n - Count(query) + 1 ELSE n
                BY <1>1, <1>2, <1>5, <4>1 DEF Low
            <4> QED
                BY <1>1, <3>2, <4>1, <4>2, SegmentIsPiece DEF x
        <3> QED
            BY <3>1, <3>2
    <2>4. Range(x) = number + 1 .. number + Len(segment)
        BY <1>1, SegmentBlocks
    <2>5. Range(WantedOf(query)) = {m \in Nat : Low(query) <= m /\ m <= High(query)}
          /\ Low(query) \in Int /\ High(query) \in Int
        <3>1. CASE query.reverse
            <4>1. Range(WantedOf(query)) = {m \in Nat : n - Count(query) < m /\ m <= n}
                BY <1>1, <3>1, RunBlocks
            <4>2. Low(query) = n - Count(query) + 1 /\ High(query) = n
                BY <1>5, <3>1 DEF Low, High
            <4> QED
                BY <1>1, <1>2, <4>1, <4>2
        <3>2. CASE ~query.reverse
            <4>1. Range(WantedOf(query)) = {m \in Nat : n <= m /\ m < n + Count(query)}
                BY <1>1, <3>2, RunBlocks
            <4>2. Low(query) = n /\ High(query) = n + Count(query) - 1
                BY <1>5, <3>2 DEF Low, High
            <4> QED
                BY <1>1, <1>2, <4>1, <4>2
        <3> QED
            BY <3>1, <3>2
    <2>6. \A m \in number + 1 .. number + Len(segment) : m \in First .. bundled
        <3>1. SUFFICES ASSUME NEW i \in 1 .. Len(segment)
                       PROVE  number + Len(segment) + 1 - i \in First .. bundled
            <4>1. ASSUME NEW m \in number + 1 .. number + Len(segment)
                  PROVE  \E i \in 1 .. Len(segment) : m = number + Len(segment) + 1 - i
                <5> DEFINE j == number + Len(segment) + 1 - m
                <5>1. j \in 1 .. Len(segment) /\ m = number + Len(segment) + 1 - j
                    BY <1>1
                <5> QED
                    BY <5>1
            <4> QED
                BY <3>1, <4>1
        <3> QED
            BY <1>1, <1>5, Zenon DEF DownFullInv, Bundled, Descends
    <2>7. CASE segment = << >> /\ left = 0 /\ bundled < Low(query)
        <3>1. Range(x) = {}
            BY <1>1, <2>4, <2>7
        <3>2. Range(WantedOf(query)) \cap (First .. bundled) = {}
            BY <1>1, <2>5, <2>7, ServiceAssumption
        <3> QED
            BY <1>1, <1>5, <2>2, <2>3, <3>1, <3>2 DEF Complete, FullOf, AllOf
    <2>8. CASE /\ number - left + 1 = Low(query)
               /\ number + Len(segment) = Smaller(High(query), bundled)
        <3> DEFINE l == Len(segment)
                   lo == Low(query)
                   hi == High(query)
        <3>1. l \in Nat /\ lo \in Int /\ hi \in Int /\ number - left + 1 = lo
              /\ number + l = IF hi < bundled THEN hi ELSE bundled
            <4>1. l \in Nat /\ lo \in Int /\ hi \in Int
                BY <1>1, <2>5
            <4>2. number - left + 1 = lo
                BY <2>8
            <4>3. number + l = IF hi < bundled THEN hi ELSE bundled
                BY <2>8 DEF Smaller
            <4> QED
                BY <4>1, <4>2, <4>3
        <3>2. left = 0 \/ number < First \/ number > bundled
            BY <1>1, ServiceAssumption DEF Archived
        <3> HIDE DEF l, lo, hi
        <3>3. ASSUME NEW m \in Nat, lo <= m, m <= hi, m \in First .. bundled
              PROVE  m \in number + 1 .. number + l
            <4>1. m <= number + l
                BY <1>1, <3>1, <3>3, ServiceAssumption
            <4>2. number + 1 <= m
                <5>1. CASE left = 0
                    BY <1>1, <3>1, <3>3, <5>1
                <5>2. CASE number < First
                    BY <1>1, <3>3, <5>2, ServiceAssumption
                <5>3. CASE number > bundled
                    BY <1>1, <3>1, <5>3
                <5> QED
                    BY <3>2, <5>1, <5>2, <5>3
            <4> QED
                BY <1>1, <3>1, <4>1, <4>2
        <3>4. ASSUME NEW m \in number + 1 .. number + l
              PROVE  m \in Nat /\ lo <= m /\ m <= hi /\ m \in First .. bundled
            <4>1. m \in First .. bundled
                BY <2>6 DEF l
            <4> QED
                BY <1>1, <3>1, <4>1, ServiceAssumption
        <3>5. Range(x) = Range(WantedOf(query)) \cap (First .. bundled)
            <4> HIDE DEF x
            <4> QED
                BY <2>4, <2>5, <3>3, <3>4, Zenon DEF l, lo, hi
        <3> QED
            BY <1>1, <1>5, <2>2, <2>3, <3>5, Zenon DEF Complete, FullOf, AllOf
    <2> QED
        BY <1>5, <2>7, <2>8 DEF DownFullInv
<1> QED
    BY <1>3, <1>4, <1>5

(* When the ancestors of the origin end and nothing failed, all that are   *)
(* bundled have been delivered.                                            *)
LEMMA UpComplete ==
    ASSUME ServiceTyped, UpInv, \A i \in 1 .. Len(headers) : headers[i] \in Bundled,
           left = 0 \/ ~Archived(number)
    PROVE  Complete(query, headers, bundled)
<1> DEFINE n == query.origin.number
           w == WantedOf(query)
           l == Len(headers)
           c == Count(query)
<1>1. /\ HeaderQuery(query) /\ query.kind = "hash" /\ query.skip = 0 /\ query.reverse /\ n \in Nat
      /\ headers \in Seq(Nat) /\ bundled \in Nat /\ number \in Int /\ left \in Nat
      /\ Starts(query, headers) /\ l \in Nat \ {0}
    BY DEF UpInv, ServiceTyped, HeaderQuery
<1>2. c \in Nat \ {0}
    BY <1>1, CountBound
<1>3. number = n - l /\ left = c - l
    BY DEF UpInv
<1>4. ASSUME NEW i \in 1 .. l
      PROVE  headers[i] = n - (i - 1) /\ headers[i] \in Nat /\ headers[i] \in First .. bundled
    <2>1. headers[i] = Nth(query, i)
        BY <1>1 DEF Starts
    <2>2. query.skip + 1 = 1 /\ (i - 1) * 1 = i - 1
        BY <1>1
    <2>3. headers[i] = n - (i - 1)
        BY <1>1, <2>1, <2>2 DEF Nth
    <2>4. headers[i] \in Nat /\ headers[i] \in First .. bundled
        BY <1>1 DEF Bundled
    <2> QED
        BY <2>3, <2>4
<1>5. w \in Seq(Nat) /\ l <= Len(w) /\ \A i \in 1 .. l : headers[i] = w[i]
    <2>1. w \in Seq(Nat) /\ l <= Len(w) /\ \A i \in 1 .. Len(w) : w[i] = Nth(query, i)
        BY <1>1, WantedBlocks, StartIsPrefix
    <2> HIDE DEF w
    <2>2. ASSUME NEW i \in 1 .. l
          PROVE  headers[i] = w[i]
        <3>1. i \in 1 .. Len(w) /\ headers[i] = Nth(query, i)
            BY <1>1, <2>1 DEF Starts
        <3> QED
            BY <2>1, <3>1
    <2> QED
        BY <2>1, <2>2
<1>6. Range(w) = {m \in Nat : n - c < m /\ m <= n}
    BY <1>1, RunBlocks
<1> HIDE DEF n, w, l, c
<1>7. headers \in Pieces(w)
    <2>1. 1 + l - 1 <= Len(w) /\ 1 \in Nat \ {0} /\ l = Len(headers)
        BY <1>1, <1>5 DEF l
    <2>2. \A i \in 1 .. Len(headers) : headers[i] = w[1 + i - 1]
        BY <1>5, <2>1
    <2> QED
        BY <1>1, <1>5, <2>1, <2>2, PieceOf, Zenon
<1>8. Range(headers) = {headers[i] : i \in 1 .. l}
    BY <1>1 DEF Range, l
<1>9. ASSUME NEW i \in 1 .. l
      PROVE  headers[i] \in Nat /\ n - c < headers[i] /\ headers[i] <= n
             /\ headers[i] \in First .. bundled
    <2>1. headers[i] = n - (i - 1) /\ headers[i] \in Nat /\ headers[i] \in First .. bundled
        BY <1>4
    <2>2. l <= c
        BY <1>1, <1>2, <1>3
    <2> QED
        BY <1>1, <1>2, <2>1, <2>2
<1>10. ASSUME NEW m \in Nat, n - c < m, m <= n, m \in First .. bundled
       PROVE  \E i \in 1 .. l : headers[i] = m
    <2>1. n \in First .. bundled
        <3>1. 1 \in 1 .. l /\ n - (1 - 1) = n
            BY <1>1
        <3> QED
            BY <1>4, <3>1
    <2>2. number < m
        <3>1. CASE left = 0
            BY <1>1, <1>2, <1>3, <1>10, <3>1
        <3>2. CASE ~Archived(number)
            BY <1>1, <1>3, <1>10, <2>1, <3>2, ServiceAssumption DEF Archived
        <3> QED
            BY <3>1, <3>2
    <2> DEFINE j == n - m + 1
    <2>3. j \in 1 .. l /\ n - (j - 1) = m
        BY <1>1, <1>3, <1>10, <2>2
    <2> HIDE DEF j
    <2> QED
        BY <1>4, <2>3
<1>11. Range(headers) = Range(w) \cap (First .. bundled)
    BY <1>6, <1>8, <1>9, <1>10
<1>12. n \in First .. bundled
    <2>1. 1 \in 1 .. l /\ n - (1 - 1) = n
        BY <1>1
    <2> QED
        BY <1>4, <2>1
<1> QED
    BY <1>1, <1>7, <1>11, <1>12 DEF Complete, FullOf, AllOf, n, w

(* The loops of a contiguous request go on. *)
LEMMA ContiguousKeepsFull ==
    ASSUME FollowInv, FullInv,
           ContiguousByNumber \/ HeaderBelow \/ Origin \/ Parent
    PROVE  FullInv'
<1>1. ServiceTyped /\ phase' # "reply" /\ phase # "idle" /\ (calm' <=> calm)
      /\ UNCHANGED <<head, bundled, query>>
    BY DEF FollowInv, ContiguousByNumber, GetHeadersFrom, HeaderBelow, Origin, Parent, Found, world
<1>2. SUFFICES ASSUME calm
               PROVE  /\ phase' \in {"down", "up"}
                      /\ phase' = "down" => DownFullInv'
                      /\ phase' = "up" => \A i \in 1 .. Len(headers') : headers'[i] \in Bundled'
    <2>1. AnswerComplete'
        BY <1>1, NotYetComplete
    <2>2. calm' => bundled' = head'
        BY <1>1 DEF FullInv
    <2> QED
        BY <1>1, <1>2, <2>1, <2>2 DEF FullInv
<1>3. bundled = head
    BY <1>1, <1>2 DEF FullInv
<1>4. CASE ContiguousByNumber
    <2> DEFINE n == query.origin.number
               c == Count(query)
               top == IF query.reverse THEN n ELSE n + c - 1
    <2>1. /\ HeaderQuery(query) /\ query.kind = "number" /\ segment = << >> /\ n \in Nat
        BY <1>4 DEF FollowInv, ContiguousByNumber, HeaderQuery
    <2>2. c \in Nat \ {0}
        BY <2>1, CountBound
    <2>3. top \in Nat /\ top = High(query) /\ top - c + 1 = Low(query)
        BY <2>1, <2>2 DEF High, Low
    <2>4. GetHeadersFrom(top, c) /\ segment' = << >>
        BY <1>4, <2>1 DEF ContiguousByNumber
    <2>5. phase' = "down"
        BY <2>4 DEF GetHeadersFrom
    <2> HIDE DEF n, c, top
    <2>6. \/ left' = 0 /\ bundled < top - c + 1
          \/ /\ number' - left' + 1 = top - c + 1
             /\ number' + 0 = IF top < bundled THEN top ELSE bundled
        BY <1>1, <1>3, <2>2, <2>3, <2>4 DEF GetHeadersFrom, ServiceTyped
    <2>7. DownFullInv'
        <3>1. Len(segment') = 0 /\ query' = query /\ bundled' = bundled
            BY <1>1, <2>4
        <3> QED
            BY <2>3, <2>4, <2>6, <3>1 DEF DownFullInv, Smaller
    <2> QED
        BY <2>5, <2>7
<1>5. CASE HeaderBelow
    <2>1. /\ DownInv /\ left > 0 /\ Archived(number) /\ segment' = Append(segment, number)
          /\ left' = left - 1 /\ number' = number - 1 /\ phase' = "down" /\ phase = "down"
        BY <1>5 DEF FollowInv, HeaderBelow, Found
    <2>2. number \in Nat /\ left \in Nat /\ segment \in Seq(Nat)
        BY <1>1, <2>1, ServiceAssumption DEF ServiceTyped, Archived
    <2>3. segment' \in Seq(Nat) /\ Len(segment') = Len(segment) + 1 /\ Len(segment) \in Nat
        BY <2>1, <2>2
    <2>4. number' + Len(segment') = number + Len(segment) /\ number' - left' + 1 = number - left + 1
        BY <2>1, <2>2, <2>3
    <2>5. DownFullInv
        BY <1>2, <2>1 DEF FullInv
    <2>6. number \in Bundled
        BY <1>1, <2>1, <2>2, ServiceAssumption DEF Archived, Bundled, ServiceTyped
    <2>7. DownFullInv'
        <3> SUFFICES ASSUME query.kind = "number"
                     PROVE  /\ \A i \in 1 .. Len(segment') : segment'[i] \in Bundled
                            /\ number' - left' + 1 = Low(query)
                            /\ number' + Len(segment') = Smaller(High(query), bundled)
            BY <1>1 DEF DownFullInv, Bundled
        <3>1. /\ \A i \in 1 .. Len(segment) : segment[i] \in Bundled
              /\ number - left + 1 = Low(query)
              /\ number + Len(segment) = Smaller(High(query), bundled)
            BY <2>1, <2>2, <2>5 DEF DownFullInv
        <3>2. ASSUME NEW i \in 1 .. Len(segment')
              PROVE  segment'[i] \in Bundled
            <4>1. CASE i = Len(segment')
                BY <2>1, <2>2, <2>3, <2>6, <4>1
            <4>2. CASE i # Len(segment')
                <5>1. i \in 1 .. Len(segment) /\ segment'[i] = segment[i]
                    BY <2>1, <2>2, <2>3, <4>2
                <5> QED
                    BY <3>1, <5>1
            <4> QED
                BY <4>1, <4>2
        <3> QED
            BY <2>4, <3>1, <3>2
    <2> QED
        BY <2>1, <2>7
<1>6. CASE Origin
    <2>1. /\ HeaderQuery(query) /\ query.kind = "hash" /\ number = query.origin.number
          /\ headers' = <<number>> /\ Archived(number) /\ number \in Nat
        BY <1>6 DEF FollowInv, Origin, Found, HeaderQuery
    <2>2. phase' \in {"down", "up"}
        BY <1>6 DEF Origin, GetHeadersFrom
    <2>3. DownFullInv'
        BY <1>1, <2>1 DEF DownFullInv
    <2>4. \A i \in 1 .. Len(headers') : headers'[i] \in Bundled'
        BY <1>1, <2>1, ServiceAssumption DEF Archived, Bundled, ServiceTyped
    <2> QED
        BY <2>2, <2>3, <2>4, Zenon
<1>7. CASE Parent
    <2>1. /\ Archived(number) /\ headers' = Append(headers, number) /\ phase' = "up"
          /\ headers \in Seq(Nat) /\ number \in Nat
          /\ \A i \in 1 .. Len(headers) : headers[i] \in Bundled
        BY <1>1, <1>2, <1>7, ServiceAssumption
           DEF Parent, Found, FullInv, ServiceTyped, Archived
    <2>2. number \in Bundled /\ Bundled' = Bundled
        BY <1>1, <2>1, ServiceAssumption DEF Archived, Bundled, ServiceTyped
    <2>3. ASSUME NEW i \in 1 .. Len(headers')
          PROVE  headers'[i] \in Bundled
        <3>1. CASE i = Len(headers) + 1
            BY <2>1, <2>2, <3>1
        <3>2. CASE i # Len(headers) + 1
            <4>1. i \in 1 .. Len(headers) /\ headers'[i] = headers[i]
                BY <2>1, <3>2
            <4> QED
                BY <2>1, <4>1
        <3> QED
            BY <3>1, <3>2
    <2> QED
        BY <2>1, <2>2, <2>3
<1> QED
    BY <1>4, <1>5, <1>6, <1>7, Zenon

(* The loops of a contiguous request end. *)
LEMMA ContiguousEndsFull ==
    ASSUME FollowInv, FullInv,
           NoHeaderBelow \/ SegmentDone \/ NoOrigin \/ NoParent \/ ParentsDone
    PROVE  FullInv'
<1>1. ServiceTyped /\ phase # "idle"
    BY DEF FollowInv, NoHeaderBelow, SegmentDone, NoOrigin, NoParent, ParentsDone
<1>2. CASE NoHeaderBelow \/ SegmentDone
    <2>1. Reply(InOrder) /\ DownInv /\ (calm' => calm) /\ phase = "down"
        <3>1. Reply(InOrder) /\ phase = "down"
            BY <1>2, Zenon DEF NoHeaderBelow, SegmentDone
        <3>2. DownInv
            BY <3>1, Zenon DEF FollowInv
        <3>3. NoHeaderBelow => (calm' => calm)
            BY CalmLookup, Zenon DEF NoHeaderBelow
        <3>4. SegmentDone => (calm' => calm)
            <4>1. SegmentDone => calm' = calm
                BY DEF SegmentDone
            <4> QED
                BY <4>1, Zenon
        <3> QED
            BY <1>2, <3>1, <3>2, <3>3, <3>4, Zenon
    <2>2. ASSUME calm'
          PROVE  Complete(query, InOrder, bundled)
        <3>1. left = 0 \/ ~Archived(number)
            BY <1>2, <2>2, CalmLookup, Zenon DEF NoHeaderBelow, SegmentDone
        <3>2. DownFullInv
            BY <2>1, <2>2 DEF FullInv
        <3> QED
            BY <1>1, <2>1, <3>1, <3>2, DownComplete
    <2> QED
        BY <1>1, <2>1, <2>2, ReplyKeepsFull
<1>3. CASE NoOrigin
    <2>1. Reply(<< >>) /\ (calm' => calm) /\ (calm' => ~Archived(number))
        BY <1>3, CalmLookup DEF NoOrigin
    <2>2. query.kind = "hash" /\ query.skip = 0 /\ number = query.origin.number /\ number \in Nat
        BY <1>3 DEF NoOrigin, FollowInv, HeaderQuery
    <2>3. ASSUME calm'
          PROVE  Complete(query, << >>, bundled)
        <3>1. query.origin.number \notin First .. bundled
            BY <1>1, <2>1, <2>2, <2>3, ServiceAssumption DEF Archived, ServiceTyped
        <3> QED
            BY <2>2, <3>1 DEF Complete, FullOf
    <2> QED
        BY <1>1, <2>1, <2>3, ReplyKeepsFull
<1>4. CASE NoParent \/ ParentsDone
    <2>1. Reply(headers) /\ UpInv /\ (calm' => calm) /\ phase = "up"
        <3>1. Reply(headers) /\ phase = "up"
            BY <1>4, Zenon DEF NoParent, ParentsDone
        <3>2. UpInv
            BY <3>1, Zenon DEF FollowInv
        <3>3. NoParent => (calm' => calm)
            BY CalmLookup, Zenon DEF NoParent
        <3>4. ParentsDone => (calm' => calm)
            <4>1. ParentsDone => calm' = calm
                BY DEF ParentsDone
            <4> QED
                BY <4>1, Zenon
        <3> QED
            BY <1>4, <3>1, <3>2, <3>3, <3>4, Zenon
    <2>2. ASSUME calm'
          PROVE  Complete(query, headers, bundled)
        <3>1. left = 0 \/ ~Archived(number)
            BY <1>4, <2>2, CalmLookup, Zenon DEF NoParent, ParentsDone
        <3>2. \A i \in 1 .. Len(headers) : headers[i] \in Bundled
            BY <2>1, <2>2 DEF FullInv
        <3> QED
            BY <1>1, <2>1, <3>1, <3>2, UpComplete
    <2> QED
        BY <1>1, <2>1, <2>2, ReplyKeepsFull, Zenon
<1> QED
    BY <1>2, <1>3, <1>4

(* Every block of h is bundled or the genesis block. *)
AllStored(h, b) == \A i \in 1 .. Len(h) : h[i] \in {0} \cup First .. b

(* The first blocks of a request, up to one that is not there, up to its   *)
(* end or up to the limit, are the longest start of it.                    *)
LEMMA StartComplete ==
    ASSUME NEW q, HeaderQuery(q), NEW h \in Seq(Nat), Starts(q, h), NEW b \in Nat, AllStored(h, b),
           NEW k \in Nat, Len(h) <= k,
           \/ Len(h) >= Count(q)
           \/ Len(h) = k
           \/ Nth(q, Len(h) + 1) < 0
           \/ Nth(q, Len(h) + 1) \notin {0} \cup First .. b
    PROVE  StartOf(q, h, b, k)
<1> DEFINE w == WantedOf(q)
           l == Len(h)
<1>1. w \in Seq(Nat) /\ Len(w) <= Count(q) /\ Count(q) \in Nat
      /\ (\A i \in 1 .. Len(w) : w[i] = Nth(q, i)) /\ (\A i \in 1 .. Len(w) : w[i] >= 0)
    BY WantedBlocks, CountBound
<1>2. l \in Nat /\ l <= Len(w) /\ h = SubSeq(w, 1, l)
    BY StartIsPrefix
<1> HIDE DEF w
<1>3. Len(w) \in Nat /\ l \in Nat /\ l <= Len(w) /\ l <= k /\ Len(w) <= Count(q)
      /\ Count(q) \in Nat
    <2>1. Len(w) \in Nat /\ Len(w) <= Count(q) /\ Count(q) \in Nat
        BY <1>1
    <2>2. l \in Nat /\ l <= Len(w)
        BY <1>2, Zenon
    <2> QED
        BY <2>1, <2>2
<1>4. ASSUME NEW i \in 1 .. l
      PROVE  w[i] \in {0} \cup First .. b
    <2>1. i \in 1 .. Len(w)
        BY <1>3
    <2>2. w[i] = Nth(q, i) /\ h[i] = Nth(q, i)
        BY <1>1, <2>1 DEF Starts
    <2> QED
        BY <2>2 DEF AllStored
<1> DEFINE m == Smaller(Len(w), k)
<1>5. m \in Nat /\ m <= Len(w) /\ m <= k /\ l <= m
    <2> HIDE DEF l
    <2> QED
        BY <1>3 DEF Smaller
<1>6. ASSUME l < m
      PROVE  w[l + 1] \notin {0} \cup First .. b
    <2> DEFINE j == l + 1
    <2>1. j \in 1 .. Len(w) /\ l < Count(q) /\ l # k
        <3> HIDE DEF l, m
        <3> QED
            BY <1>3, <1>5, <1>6
    <2>2. Nth(q, j) < 0 \/ Nth(q, j) \notin {0} \cup First .. b
        <3>1. ~(l >= Count(q)) /\ l # k
            <4> HIDE DEF l, m
            <4> QED
                BY <1>3, <2>1
        <3> QED
            BY <3>1
    <2> HIDE DEF j, l, m
    <2>3. w[j] = Nth(q, j) /\ w[j] \in Nat
        BY <1>1, <2>1
    <2>4. w[j] \notin {0} \cup First .. b
        <3>1. ~(Nth(q, j) < 0)
            BY <2>3
        <3> QED
            BY <2>2, <2>3, <3>1
    <2> QED
        BY <2>4 DEF j
<1>7. l \in 0 .. m
    BY <1>3, <1>5
<1> HIDE DEF l
<1> QED
    BY <1>2, <1>4, <1>6, <1>7 DEF StartOf, w

(* When a request with gaps may end. *)
LEMMA StrideAnswer ==
    ASSUME NEW q, HeaderQuery(q), q.skip # 0, NEW h \in Seq(Nat), Starts(q, h),
           NEW b \in Nat, AllStored(h, b), Len(h) <= SoftLimit,
           NEW reach \in Nat, reach = 1 + NonCanonical \div (q.skip + 1),
           q.kind = "hash" => q.origin.number \in First .. b /\ Len(h) <= reach,
           \/ Len(h) >= Count(q)
           \/ Len(h) = SoftLimit
           \/ q.kind = "hash" /\ Len(h) = reach
           \/ q.kind = "hash" /\ ~q.reverse /\ ~q.origin.ours
           \/ Nth(q, Len(h) + 1) < 0
           \/ Nth(q, Len(h) + 1) \notin {0} \cup First .. b
    PROVE  Complete(q, h, b)
<1>1. q.kind \in {"number", "hash"} /\ SoftLimit \in Nat /\ Len(h) \in Nat
    <2>1. q.kind \in {"number", "hash"}
        BY Zenon DEF HeaderQuery
    <2>2. SoftLimit \in Nat
        BY ServiceAssumption
    <2>3. Len(h) \in Nat
        OBVIOUS
    <2> QED
        BY <2>1, <2>2, <2>3
<1>2. CASE q.kind = "number"
    <2> DEFINE k == Smaller(SoftLimit, SoftLimit)
    <2>1. k = SoftLimit
        BY Zenon DEF Smaller
    <2>2. StartOf(q, h, b, SoftLimit)
        BY <1>1, <1>2, StartComplete, Zenon
    <2> QED
        BY <1>2, <2>1, <2>2, Zenon DEF Complete, FullOf
<1>3. CASE q.kind = "hash"
    <2> DEFINE k == Smaller(SoftLimit, reach)
    <2>1. k \in Nat /\ Len(h) <= k /\ (Len(h) = SoftLimit \/ Len(h) = reach => Len(h) = k)
        <3>1. Len(h) <= reach /\ Len(h) <= SoftLimit
            BY <1>3, Zenon
        <3> QED
            BY <1>1, <3>1 DEF Smaller
    <2>2. CASE ~q.reverse /\ ~q.origin.ours
        BY <1>3, <2>2, Zenon DEF Complete
    <2>3. CASE ~(~q.reverse /\ ~q.origin.ours)
        <3> HIDE DEF k
        <3>1. \/ Len(h) >= Count(q)
              \/ Len(h) = k
              \/ Nth(q, Len(h) + 1) < 0
              \/ Nth(q, Len(h) + 1) \notin {0} \cup First .. b
            BY <1>3, <2>1, <2>3, Zenon
        <3>2. StartOf(q, h, b, k)
            BY <2>1, <3>1, StartComplete, Zenon
        <3>3. FullOf(q, h, b, reach)
            BY <1>3, <3>2, Zenon DEF FullOf, k
        <3> QED
            BY <1>3, <3>3, Zenon DEF Complete
    <2> QED
        BY <2>2, <2>3
<1> QED
    BY <1>1, <1>2, <1>3

(* How far maxNonCanonical reaches. *)
LEMMA BudgetReach ==
    ASSUME NEW l \in Nat, NEW s \in Nat, s > 0, NEW left_ \in Int,
           left_ = NonCanonical - l * s, left_ >= 0
    PROVE  /\ NonCanonical \div s \in Nat /\ l <= NonCanonical \div s
           /\ left_ < s => l = NonCanonical \div s
           /\ left_ >= s => left_ - s = NonCanonical - (l + 1) * s
<1>1. NonCanonical \in Nat
    BY ServiceAssumption
<1>2. /\ NonCanonical \div s \in Nat /\ l * s \in Nat /\ (l + 1) * s = l * s + s
      /\ l * s <= NonCanonical <=> l <= NonCanonical \div s
    BY <1>1, QuotientBound
<1>3. (l + 1) * s <= NonCanonical <=> l + 1 <= NonCanonical \div s
    <2> DEFINE a == l + 1
    <2>1. a \in Nat
        OBVIOUS
    <2> HIDE DEF a
    <2>2. a * s <= NonCanonical <=> a <= NonCanonical \div s
        BY <1>1, <2>1, QuotientBound
    <2> QED
        BY <2>2 DEF a
<1> DEFINE d == NonCanonical \div s
           x == l * s
           y == (l + 1) * s
<1>4. d \in Nat /\ x \in Nat /\ y = x + s /\ (x <= NonCanonical <=> l <= d)
      /\ (y <= NonCanonical <=> l + 1 <= d) /\ left_ = NonCanonical - x
    BY <1>2, <1>3
<1> HIDE DEF d, x, y
<1>5. d \in Nat /\ l <= d /\ (left_ < s => l = d) /\ (left_ >= s => left_ - s = NonCanonical - y)
    BY <1>1, <1>4
<1> QED
    BY <1>5 DEF d, x, y

(* One more header of a request with gaps. *)
LEMMA StrideStored ==
    ASSUME FollowInv, phase = "stride", StrideFullInv, StrideOpen, number = 0 \/ Archived(number)
    PROVE  /\ AllStored(Append(headers, number), bundled)
           /\ Len(headers) + 1 <= SoftLimit
<1>1. headers \in Seq(Nat) /\ number \in Nat /\ bundled \in Nat
    BY StrideNext DEF FollowInv, ServiceTyped
<1>2. number \in {0} \cup First .. bundled
    BY <1>1, ServiceAssumption DEF Archived
<1>3. ASSUME NEW i \in 1 .. Len(Append(headers, number))
      PROVE  Append(headers, number)[i] \in {0} \cup First .. bundled
    <2>1. CASE i = Len(headers) + 1
        BY <1>1, <1>2, <2>1
    <2>2. CASE i # Len(headers) + 1
        <3>1. i \in 1 .. Len(headers) /\ Append(headers, number)[i] = headers[i]
            BY <1>1, <2>2
        <3> QED
            BY <3>1 DEF StrideFullInv, Bundled
    <2> QED
        BY <2>1, <2>2
<1>4. Len(headers) + 1 <= SoftLimit
    BY <1>1, ServiceAssumption DEF StrideOpen
<1> QED
    BY <1>3, <1>4 DEF AllStored

(* What is known when the next header of a request with gaps is found and  *)
(* nothing failed so far.                                                  *)
LEMMA StrideFound ==
    ASSUME FollowInv, FullInv, phase = "stride", calm, StrideOpen, FoundAtStride
    PROVE  /\ StrideFullInv /\ calm' /\ (number = 0 \/ Archived(number))
           /\ query.kind = "hash" =>
                 /\ query.origin.number \in First .. bundled
                 /\ NonCanonical \div Step \in Nat /\ Len(headers) <= NonCanonical \div Step
                 /\ ~ReachesAncestor => Len(headers) = NonCanonical \div Step
                 /\ ReachesAncestor =>
                       /\ budget - Step = NonCanonical - (Len(headers) + 1) * Step
                       /\ budget - Step >= 0
<1>1. StrideFullInv /\ StrideInv /\ ServiceTyped /\ HeaderQuery(query) /\ Step \in Nat \ {0}
      /\ headers \in Seq(Nat) /\ number \in Nat
    BY StrideNext DEF FullInv
<1>2. calm' /\ (number = 0 \/ Archived(number))
    BY CalmLookup DEF FoundAtStride
<1>3. ASSUME query.kind = "hash"
      PROVE  /\ query.origin.number \in First .. bundled
             /\ NonCanonical \div Step \in Nat /\ Len(headers) <= NonCanonical \div Step
             /\ ~ReachesAncestor => Len(headers) = NonCanonical \div Step
             /\ ReachesAncestor =>
                   /\ budget - Step = NonCanonical - (Len(headers) + 1) * Step
                   /\ budget - Step >= 0
    <2>1. query.origin.number \in First .. bundled
        <3>1. CASE lookups = 0
            <4>1. Archived(number)
                BY <1>3, <3>1, CalmLookup DEF FoundAtStride
            <4>2. number = query.origin.number
                <5>1. Len(headers) = 0 /\ number = Nth(query, Len(headers) + 1)
                    BY <1>1, <3>1 DEF StrideInv
                <5>2. query.origin.number \in Nat /\ query.skip \in Nat
                      /\ (0 + 1 - 1) * (query.skip + 1) = 0
                    BY <1>1 DEF HeaderQuery
                <5> QED
                    BY <5>1, <5>2 DEF Nth
            <4> QED
                BY <1>1, <4>1, <4>2, ServiceAssumption DEF Archived, ServiceTyped
        <3>2. CASE lookups # 0
            BY <1>1, <1>3, <3>2 DEF StrideFullInv, Bundled, ServiceTyped
        <3> QED
            BY <3>1, <3>2
    <2>2. PICK l \in Nat : l = Len(headers)
        BY <1>1
    <2>3. PICK s \in Nat : s > 0 /\ s = Step
        BY <1>1
    <2>4. budget = NonCanonical - l * s /\ budget >= 0
        BY <1>1, <1>3, <2>2, <2>3 DEF StrideFullInv, StrideInv, Step
    <2>5. budget \in Int
        BY <2>4, ServiceAssumption
    <2>6. /\ NonCanonical \div s \in Nat /\ l <= NonCanonical \div s
          /\ budget < s => l = NonCanonical \div s
          /\ budget >= s => budget - s = NonCanonical - (l + 1) * s
        BY <2>2, <2>3, <2>4, <2>5, BudgetReach
    <2>7. budget >= s => budget - s >= 0
        BY <2>3, <2>5
    <2>8. ReachesAncestor <=> ~(budget < s)
        BY <2>3, <2>5 DEF ReachesAncestor
    <2>9. ReachesAncestor <=> budget >= s
        BY <2>3 DEF ReachesAncestor
    <2> QED
        BY <2>1, <2>2, <2>3, <2>6, <2>7, <2>8, <2>9
<1> QED
    BY <1>1, <1>2, <1>3

(* A request with gaps goes on. *)
LEMMA AdvanceKeepsFull ==
    ASSUME FollowInv, FullInv, phase = "stride", calm, StrideOpen, FoundAtStride,
           NEW to, NEW spent, Advance(to, spent),
           query.kind = "hash" => spent = Step /\ ReachesAncestor
    PROVE  FullInv'
<1>1. /\ headers' = Append(headers, number) /\ lookups' = lookups + 1 /\ ours' = TRUE
      /\ budget' = budget - spent /\ phase' = "stride" /\ UNCHANGED <<head, bundled, query>>
    BY DEF Advance, world
<1>2. AllStored(headers', bundled) /\ Len(headers) + 1 <= SoftLimit
    BY <1>1, StrideFound, StrideStored
<1>3. headers \in Seq(Nat) /\ number \in Nat /\ lookups = Len(headers) /\ lookups \in Nat
    BY StrideNext DEF StrideInv, ServiceTyped
<1>4. Len(headers') = Len(headers) + 1 /\ lookups' = Len(headers) + 1
    BY <1>1, <1>3
<1>5. \A i \in 1 .. Len(headers') : headers'[i] \in {0} \cup Bundled'
    BY <1>1, <1>2 DEF AllStored, Bundled
<1>6. ASSUME query.kind = "hash"
      PROVE  /\ query.origin.number \in Bundled'
             /\ budget' = NonCanonical - lookups' * (query.skip + 1)
             /\ budget' >= 0
    <2>1. query.origin.number \in First .. bundled
          /\ budget - Step = NonCanonical - (Len(headers) + 1) * Step /\ budget - Step >= 0
        BY <1>6, StrideFound
    <2>2. budget' = budget - Step
        BY <1>1, <1>6
    <2>3. Step = query.skip + 1
        BY DEF Step
    <2>4. query.origin.number \in Bundled'
        BY <1>1, <2>1 DEF Bundled
    <2> QED
        BY <1>4, <2>1, <2>2, <2>3, <2>4
<1>7. StrideFullInv'
    <2>1. Len(headers') <= SoftLimit
        BY <1>2, <1>4
    <2> QED
        BY <1>1, <1>5, <1>6, <2>1 DEF StrideFullInv
<1>8. AnswerComplete' /\ (calm' => bundled' = head')
    BY <1>1, NotYetComplete DEF FullInv
<1> QED
    BY <1>1, <1>7, <1>8 DEF FullInv

(* maxNonCanonical reaches at least as far as the headers found.           *)
LEMMA StrideReach ==
    ASSUME FollowInv, FullInv, phase = "stride", calm, lookups # 0 \/ lookups > 0,
           query.kind = "hash", NEW reach \in Nat, reach = 1 + NonCanonical \div (query.skip + 1)
    PROVE  query.origin.number \in First .. bundled /\ Len(headers) <= reach
<1>1. /\ StrideInv /\ StrideFullInv /\ headers \in Seq(Nat) /\ Step \in Nat \ {0}
      /\ lookups = Len(headers) /\ lookups \in Nat
    BY StrideNext DEF FullInv, StrideInv, ServiceTyped
<1>2. query.origin.number \in First .. bundled
    BY <1>1 DEF StrideFullInv, Bundled
<1>3. PICK l \in Nat : l = Len(headers)
    BY <1>1
<1>4. PICK s \in Nat : s > 0 /\ s = query.skip + 1
    BY <1>1 DEF Step
<1>5. budget = NonCanonical - l * s /\ budget >= 0
    BY <1>1, <1>3, <1>4 DEF StrideFullInv
<1>6. budget \in Int
    BY <1>5, ServiceAssumption
<1>7. NonCanonical \div s \in Nat /\ l <= NonCanonical \div s
    BY <1>3, <1>4, <1>5, <1>6, BudgetReach
<1> QED
    BY <1>2, <1>3, <1>4, <1>7

(* Once something failed or moved, nothing is promised. *)
LEMMA NotCalm ==
    ASSUME ~calm'
    PROVE  FullInv'
<1>1. AnswerComplete'
    BY CompleteIs
<1> QED
    BY <1>1 DEF FullInv

(* A request with gaps. *)
LEMMA StrideKeepsFull ==
    ASSUME FollowInv, FullInv,
           StrideByNumber \/ StrideUp \/ StrideDown \/ StrideCut \/ StrideMiss \/ StrideFull
    PROVE  FullInv'
<1> USE DEF StrideByNumber, StrideUp, StrideDown, StrideCut, StrideMiss, StrideFull
<1>1. phase = "stride" /\ phase # "idle"
    OBVIOUS
<1>2. (calm' => calm)
    BY CalmLookup, Zenon DEF FoundAtStride
<1>3. SUFFICES ASSUME calm', calm
               PROVE  FullInv'
    BY <1>2, NotCalm
<1> USE <1>1, <1>3
<1>4. /\ ServiceTyped /\ StrideInv /\ HeaderQuery(query) /\ query.skip # 0
      /\ headers \in Seq(Nat) /\ number \in Nat /\ bundled \in Nat /\ Step \in Nat \ {0}
      /\ Starts(query, headers) /\ StrideFullInv /\ query.skip \in Nat
    BY StrideNext DEF StrideInv, FullInv, ServiceTyped, HeaderQuery
<1>5. PICK reach \in Nat : reach = 1 + NonCanonical \div (query.skip + 1)
    <2>1. NonCanonical \in Nat /\ query.skip + 1 \in Nat /\ query.skip + 1 > 0
        BY <1>4, ServiceAssumption
    <2>2. NonCanonical \div (query.skip + 1) \in Nat
        BY <2>1, QuotientBound
    <2> QED
        BY <2>2
<1>6. Step = query.skip + 1
    BY DEF Step
<1>7. ASSUME StrideOpen, FoundAtStride, Reply(Append(headers, number)),
             \/ query.reverse /\ ~(number >= Step)
             \/ query.kind = "hash" /\ ~ReachesAncestor
             \/ query.kind = "hash" /\ ~query.reverse /\ ~ours
             \/ ~query.reverse /\ ~Archived(number + Step)
      PROVE  FullInv'
    <2>1. PICK h \in Seq(Nat) : h = Append(headers, number)
        <3>1. Append(headers, number) \in Seq(Nat)
            BY <1>7, StrideNext
        <3> QED
            BY <3>1, Zenon
    <2>2. Len(h) = Len(headers) + 1 /\ Len(headers) \in Nat /\ Starts(query, h)
        BY <1>4, <1>7, <2>1, StrideNext
    <2>3. AllStored(h, bundled) /\ Len(h) <= SoftLimit
        BY <1>7, <2>1, <2>2, StrideFound, StrideStored
    <2>4. query.kind = "hash" =>
              /\ query.origin.number \in First .. bundled /\ Len(h) <= reach
              /\ ~ReachesAncestor => Len(h) = reach
        <3> SUFFICES ASSUME query.kind = "hash"
                     PROVE  /\ query.origin.number \in First .. bundled /\ Len(h) <= reach
                            /\ ~ReachesAncestor => Len(h) = reach
            OBVIOUS
        <3>1. /\ query.origin.number \in First .. bundled
              /\ NonCanonical \div Step \in Nat /\ Len(headers) <= NonCanonical \div Step
              /\ ~ReachesAncestor => Len(headers) = NonCanonical \div Step
            BY <1>7, StrideFound
        <3>2. reach = 1 + NonCanonical \div Step
            BY <1>5, <1>6
        <3> QED
            BY <2>2, <3>1, <3>2
    <2>5. Nth(query, Len(h) + 1) = IF query.reverse THEN number - Step ELSE number + Step
        <3>1. Nth(query, Len(headers) + 2) = IF query.reverse THEN number - Step ELSE number + Step
            BY StrideNext
        <3>2. Len(h) + 1 = Len(headers) + 2
            BY <2>2
        <3> QED
            BY <3>1, <3>2
    <2>6. \/ query.kind = "hash" /\ Len(h) = reach
          \/ query.kind = "hash" /\ ~query.reverse /\ ~query.origin.ours
          \/ Nth(query, Len(h) + 1) < 0
          \/ Nth(query, Len(h) + 1) \notin {0} \cup First .. bundled
        <3>1. CASE query.reverse /\ ~(number >= Step)
            BY <1>4, <2>5, <3>1
        <3>2. CASE query.kind = "hash" /\ ~ReachesAncestor
            BY <2>4, <3>2, Zenon
        <3>3. CASE query.kind = "hash" /\ ~query.reverse /\ ~ours
            BY <1>4, <3>3 DEF StrideFullInv
        <3>4. CASE ~query.reverse /\ ~Archived(number + Step)
            BY <1>4, <2>5, <3>4, ServiceAssumption DEF Archived
        <3> QED
            BY <1>7, <3>1, <3>2, <3>3, <3>4
    <2>7. query.kind = "hash" => query.origin.number \in First .. bundled /\ Len(h) <= reach
        BY <2>4, Zenon
    <2>8. Complete(query, h, bundled)
        BY <1>4, <1>5, <2>2, <2>3, <2>6, <2>7, StrideAnswer, Zenon
    <2> QED
        BY <1>7, <2>1, <2>8, ReplyKeepsFull
<1>8. CASE StrideByNumber
    <2>1. StrideOpen /\ FoundAtStride /\ query.kind = "number"
        BY <1>8
    <2>2. CASE \E to, spent : Advance(to, spent)
        BY <2>1, <2>2, AdvanceKeepsFull
    <2>3. CASE query.reverse /\ ~(number >= Step) /\ Reply(Append(headers, number))
        BY <1>7, <2>1, <2>3
    <2> QED
        BY <1>8, <2>2, <2>3
<1>9. CASE StrideUp \/ StrideDown
    <2>1. StrideOpen /\ FoundAtStride /\ query.kind = "hash"
        BY <1>9
    <2>2. CASE ReachesAncestor /\ \E to : Advance(to, Step)
        BY <2>1, <2>2, AdvanceKeepsFull
    <2>3. CASE ~(ReachesAncestor /\ \E to : Advance(to, Step))
        BY <1>7, <1>9, <2>1, <2>3
    <2> QED
        BY <2>2, <2>3
<1>10. CASE StrideCut
    BY <1>10
<1>11. CASE StrideMiss
    <2>1. CASE query.kind = "hash" /\ lookups = 0
        <3>1. ~Archived(number) /\ Reply(headers)
            BY <1>11, <2>1, CalmLookup, Zenon
        <3>2. headers = << >> /\ number = query.origin.number
            <4>1. Len(headers) = 0 /\ number = Nth(query, Len(headers) + 1)
                BY <1>4, <2>1, Zenon DEF StrideInv
            <4>2. Nth(query, 1) = query.origin.number
                BY <1>4, NthFirst, Zenon
            <4> QED
                BY <1>4, <4>1, <4>2
        <3>3. query.origin.number \notin First .. bundled
            BY <1>4, <3>1, <3>2, ServiceAssumption DEF Archived
        <3>4. Complete(query, headers, bundled)
            BY <2>1, <3>2, <3>3, Zenon DEF Complete, FullOf
        <3> QED
            BY <3>1, <3>4, ReplyKeepsFull
    <2>2. CASE ~(query.kind = "hash" /\ lookups = 0)
        <3>1. number # 0 /\ ~Archived(number) /\ Reply(headers)
            BY <1>11, <2>2, CalmLookup
        <3>2. Nth(query, Len(headers) + 1) \notin {0} \cup First .. bundled
            BY <1>4, <3>1, ServiceAssumption DEF Archived, StrideInv
        <3>3. AllStored(headers, bundled) /\ Len(headers) <= SoftLimit
            BY <1>4, Zenon DEF StrideFullInv, AllStored, Bundled
        <3>4. query.kind = "hash" => query.origin.number \in First .. bundled /\ Len(headers) <= reach
            BY <1>4, <1>5, <2>2, StrideReach, Zenon
        <3>5. Complete(query, headers, bundled)
            BY <1>4, <1>5, <3>2, <3>3, <3>4, StrideAnswer, Zenon
        <3> QED
            BY <3>1, <3>5, ReplyKeepsFull
    <2> QED
        BY <2>1, <2>2
<1>12. CASE StrideFull
    <2>1. ~StrideOpen /\ Reply(headers)
        BY <1>12
    <2>2. lookups = Len(headers) /\ Len(headers) \in Nat /\ Len(headers) <= Count(query)
        BY <1>4 DEF StrideInv, Starts
    <2>3. /\ Count(query) \in Nat \ {0} /\ Count(query) <= MaxServe /\ Count(query) <= query.amount
          /\ query.amount \in Nat /\ MaxServe \in Nat \ {0} /\ SoftLimit \in Nat \ {0}
        BY <1>4, CountBound, ServiceAssumption DEF HeaderQuery
    <2>4. Len(headers) >= Count(query) \/ Len(headers) >= SoftLimit
        BY <2>1, <2>2, <2>3 DEF StrideOpen
    <2>5. AllStored(headers, bundled) /\ Len(headers) <= SoftLimit
        BY <1>4 DEF StrideFullInv, AllStored, Bundled
    <2>6. Len(headers) >= Count(query) \/ Len(headers) = SoftLimit
        BY <2>2, <2>3, <2>4, <2>5
    <2>7. lookups > 0
        BY <2>2, <2>3, <2>4
    <2>8. query.kind = "hash" => query.origin.number \in First .. bundled /\ Len(headers) <= reach
        BY <1>4, <1>5, <2>7, StrideReach, Zenon
    <2>9. Complete(query, headers, bundled)
        BY <1>4, <1>5, <2>5, <2>6, <2>8, StrideAnswer, Zenon
    <2> QED
        BY <2>1, <2>9, ReplyKeepsFull
<1> QED
    BY <1>8, <1>9, <1>10, <1>11, <1>12

(* A request for bodies goes on. *)
LEMMA BodyKeepsFull ==
    ASSUME FollowInv, FullInv, Body \/ NoBody
    PROVE  FullInv'
<1>1. /\ phase = "bodies" /\ phase' = "bodies" /\ BodiesOpen /\ lookups' = lookups + 1
      /\ UNCHANGED <<head, bundled, query>> /\ (calm' => calm)
    BY CalmLookup DEF Body, NoBody, world
<1>2. SUFFICES ASSUME calm', calm
               PROVE  BodiesFullInv'
    <2>1. AnswerComplete' /\ (calm' => bundled' = head')
        BY <1>1, NotYetComplete DEF FullInv
    <2> QED
        BY <1>1, <1>2, <2>1 DEF FullInv
<1>3. ServiceTyped /\ BodyQuery(query) /\ lookups \in Nat /\ headers \in Seq(Nat)
      /\ bundled \in Nat
    BY <1>1 DEF FollowInv, BodiesInv, ServiceTyped
<1> DEFINE cap == Smaller(SoftLimit, MaxServe)
<1>4. cap \in Nat /\ Len(headers) < cap
    BY <1>1, ServiceAssumption DEF BodiesOpen, Smaller
<1>5. PICK t \in Seq(Nat) :
          /\ Positions(t) /\ Len(t) <= cap /\ Range(headers) \subseteq Bundled
          /\ \A i \in 1 .. lookups : query.hashes[i].number \in Bundled => i \in Range(t)
    BY <1>1, <1>2 DEF FullInv, BodiesFullInv
<1>6. PICK p \in Nat : p = lookups + 1
    BY <1>3
<1>7. Bundled' = Bundled /\ lookups' = p /\ Asked = query.hashes[p].number
    BY <1>1, <1>6 DEF Bundled, Asked
<1>8. Len(t) = Len(headers)
    BY <1>5 DEF Positions, BodiesAt
<1>9. Asked \in Nat
    <2>1. query.hashes[lookups + 1] \in Hash
        BY <1>1, <1>3 DEF BodiesOpen, BodyQuery
    <2> QED
        BY <2>1, ServiceAssumption DEF Asked, Hash
<1>10. CASE Body
    <2>1. headers' = Append(headers, Asked) /\ Archived(Asked)
        BY <1>10, CalmLookup DEF Body
    <2> DEFINE u == Append(t, p)
    <2>2. u \in Seq(Nat) /\ Len(u) = Len(t) + 1 /\ Positions(u)'
        BY <1>1, <1>3, <1>5, <1>6, <2>1, OneMoreBody
    <2>3. Asked \in Bundled
        BY <1>3, <1>9, <2>1, ServiceAssumption DEF Archived, Bundled
    <2>4. Range(headers') \subseteq Bundled'
        <3>1. ASSUME NEW i \in 1 .. Len(headers) + 1
              PROVE  Append(headers, Asked)[i] \in Bundled
            <4>1. CASE i = Len(headers) + 1
                BY <1>3, <1>9, <2>3, <4>1
            <4>2. CASE i # Len(headers) + 1
                <5>1. i \in 1 .. Len(headers) /\ Append(headers, Asked)[i] = headers[i]
                    BY <1>3, <1>9, <4>2
                <5>2. headers[i] \in Range(headers)
                    BY <1>3, <5>1 DEF Range
                <5> QED
                    BY <1>5, <5>1, <5>2
            <4> QED
                BY <4>1, <4>2
        <3>2. DOMAIN Append(headers, Asked) = 1 .. Len(headers) + 1
            BY <1>3, <1>9
        <3> QED
            BY <1>7, <2>1, <3>1, <3>2 DEF Range
    <2>5. Range(t) \subseteq Range(u) /\ p \in Range(u)
        <3>1. DOMAIN u = 1 .. Len(t) + 1 /\ DOMAIN t = 1 .. Len(t) /\ Len(t) \in Nat
              /\ u[Len(t) + 1] = p /\ \A i \in 1 .. Len(t) : u[i] = t[i]
            OBVIOUS
        <3> HIDE DEF u
        <3>2. \A i \in 1 .. Len(t) : t[i] \in Range(u)
            BY <3>1 DEF Range
        <3>3. u[Len(t) + 1] \in Range(u)
            BY <3>1 DEF Range
        <3> QED
            BY <3>1, <3>2, <3>3 DEF Range
    <2>6. ASSUME NEW i \in 1 .. lookups', query.hashes[i].number \in Bundled
          PROVE  i \in Range(u)
        <3>1. i \in 1 .. lookups \/ i = p
            BY <1>3, <1>6, <1>7
        <3> QED
            BY <1>5, <2>5, <2>6, <3>1
    <2>7. Len(u) <= cap
        BY <1>3, <1>4, <1>8, <2>2
    <2> HIDE DEF u
    <2> QED
        BY <1>1, <1>7, <2>2, <2>4, <2>6, <2>7 DEF BodiesFullInv
<1>11. CASE NoBody
    <2>1. headers' = headers /\ ~Archived(Asked)
        BY <1>2, <1>11, CalmLookup, Zenon DEF NoBody
    <2>2. Positions(t)'
        BY <1>1, <1>3, <1>5, <2>1, OneBodyLess
    <2>3. Asked \notin Bundled
        BY <1>3, <1>9, <2>1, ServiceAssumption DEF Archived, Bundled
    <2>4. ASSUME NEW i \in 1 .. lookups', query.hashes[i].number \in Bundled
          PROVE  i \in Range(t)
        <3>1. i \in 1 .. lookups \/ i = p
            BY <1>3, <1>6, <1>7
        <3> QED
            BY <1>5, <1>7, <2>3, <2>4, <3>1
    <2> QED
        BY <1>1, <1>5, <1>7, <2>1, <2>2, <2>4 DEF BodiesFullInv
<1> QED
    BY <1>10, <1>11

(* A request for bodies ends. *)
LEMMA BodiesEndFull ==
    ASSUME FollowInv, FullInv, BodiesDone
    PROVE  FullInv'
<1>1. /\ phase = "bodies" /\ ~BodiesOpen /\ Reply(headers) /\ (calm' <=> calm)
    BY DEF BodiesDone
<1>2. /\ ServiceTyped /\ BodyQuery(query) /\ lookups \in Nat /\ headers \in Seq(Nat)
      /\ lookups <= Len(query.hashes) /\ Len(query.hashes) \in Nat
    BY <1>1 DEF FollowInv, BodiesInv, ServiceTyped, BodyQuery
<1>3. ASSUME calm
      PROVE  Complete(query, headers, bundled)
    <2> DEFINE cap == Smaller(SoftLimit, MaxServe)
               far == Smaller(Len(query.hashes), 2 * MaxServe)
    <2>1. PICK t \in Seq(Nat) :
              /\ Positions(t) /\ Len(t) <= cap /\ Range(headers) \subseteq Bundled
              /\ \A i \in 1 .. lookups : query.hashes[i].number \in Bundled => i \in Range(t)
        BY <1>1, <1>3 DEF FullInv, BodiesFullInv
    <2>2. t \in Subsequences(query.hashes) /\ Len(t) = Len(headers) /\ headers = BodiesAt(t)
        BY <1>2, <2>1, PositionsOfRequest DEF Positions
    <2>3. cap \in Nat \ {0} /\ (Len(headers) < SoftLimit /\ Len(headers) < MaxServe <=> Len(headers) < cap)
        BY <1>2, ServiceAssumption DEF Smaller
    <2>4. far \in Nat /\ far <= Len(query.hashes) /\ far <= 2 * MaxServe /\ 2 * MaxServe \in Nat
        BY <1>2, ServiceAssumption DEF Smaller
    <2>5. ASSUME NEW i \in 1 .. far, query.hashes[i].number \in Bundled, i \notin Range(t)
          PROVE  Len(t) = cap /\ t[cap] < i
        <3>1. i > lookups /\ i \in Nat
            <4>1. i \notin 1 .. lookups
                BY <2>1, <2>5
            <4> QED
                BY <1>2, <2>4, <4>1
        <3>2. lookups < Len(query.hashes) /\ lookups < 2 * MaxServe
            <4> HIDE DEF far
            <4> QED
                BY <1>2, <2>4, <3>1
        <3>3. ~(Len(headers) < cap)
            BY <1>1, <2>3, <3>2 DEF BodiesOpen
        <3> HIDE DEF cap
        <3>4. Len(t) = cap
            BY <1>2, <2>1, <2>2, <2>3, <3>3
        <3>5. t[cap] \in 1 .. lookups
            BY <2>1, <2>3, <3>4 DEF Positions
        <3> QED
            BY <1>2, <3>1, <3>4, <3>5
    <2>6. BodiesOf(query, headers, bundled)
        <3> HIDE DEF cap, far
        <3>1. /\ headers = [i \in 1 .. Len(t) |-> query.hashes[t[i]].number]
              /\ Range(headers) \subseteq First .. bundled
            BY <2>1, <2>2 DEF BodiesAt, Bundled
        <3>2. \A i \in 1 .. far : query.hashes[i].number \in First .. bundled /\ i \notin Range(t) =>
                  Len(t) = cap /\ t[cap] < i
            BY <2>5 DEF Bundled
        <3> QED
            BY <2>1, <2>2, <3>1, <3>2 DEF BodiesOf, cap, far
    <2>7. query.kind = "bodies"
        BY <1>2 DEF BodyQuery
    <2> QED
        BY <2>6, <2>7, Zenon DEF Complete, FullOf
<1> QED
    BY <1>1, <1>3, ReplyKeepsFull

(* Every step keeps FullInv. *)
LEMMA NextKeepsFull ==
    ASSUME FollowInv, FullInv, [Next]_vars
    PROVE  FullInv'
<1>1. CASE SetCurrentHeader \/ Upload \/ Send
    BY <1>1, NotCalm DEF SetCurrentHeader, Upload, Send
<1>2. CASE \E q \in Request : Receive(q)
    <2>1. PICK q \in Request : Receive(q)
        BY <1>2
    <2>2. /\ query' = q /\ headers' = << >> /\ segment' = << >> /\ lookups' = 0
          /\ UNCHANGED <<head, bundled>> /\ budget' = NonCanonical
          /\ calm' => bundled' = head'
          /\ phase' \in {"bodies", "stride", "from", "origin"}
        BY <2>1, ZenonT(30) DEF Receive, world
    <2>3. AnswerComplete'
        BY <2>2, NotYetComplete
    <2>4. phase' = "stride" => StrideFullInv'
        <3>1. q.origin.ours => ours'
            <4>1. ours' = (q.kind # "bodies" => q.origin.ours)
                BY <2>1 DEF Receive
            <4> QED
                BY <4>1, Zenon
        <3>2. NonCanonical \in Nat /\ SoftLimit \in Nat /\ FollowInv'
            BY <2>1, ServiceAssumption, ReceiveKeepsFollow
        <3>3. phase' = "stride" => q.skip \in Nat /\ NonCanonical - 0 * (q.skip + 1) = NonCanonical
            <4>1. phase' = "stride" => query'.skip \in Nat
                BY <3>2, Zenon DEF FollowInv, StrideInv, HeaderQuery
            <4>2. ASSUME NEW k \in Nat
                  PROVE  NonCanonical - 0 * (k + 1) = NonCanonical
                BY <3>2
            <4> QED
                BY <2>2, <4>1, <4>2, Zenon
        <3> QED
            BY <2>2, <3>1, <3>2, <3>3 DEF StrideFullInv
    <2>5. phase' = "bodies" => BodiesFullInv'
        <3>1. << >> \in Seq(Nat) /\ Len(<< >>) = 0 /\ Smaller(SoftLimit, MaxServe) \in Nat
            BY ServiceAssumption DEF Smaller
        <3>2. Positions(<< >>)'
            BY <2>2 DEF Positions, BodiesAt
        <3>3. Range(headers') = {}
            BY <2>2 DEF Range
        <3>4. 1 .. lookups' = {}
            BY <2>2
        <3>5. 0 <= Smaller(SoftLimit, MaxServe)
            BY <3>1
        <3>6. \A i \in 1 .. lookups' : query'.hashes[i].number \in Bundled' => i \in Range(<< >>)
            BY <3>4, Zenon
        <3> QED
            BY <3>1, <3>2, <3>3, <3>5, <3>6, Zenon DEF BodiesFullInv
    <2> QED
        BY <2>2, <2>3, <2>4, <2>5 DEF FullInv
<1>3. CASE ContiguousByNumber \/ HeaderBelow \/ Origin \/ Parent
    BY <1>3, ContiguousKeepsFull
<1>4. CASE NoHeaderBelow \/ SegmentDone \/ NoOrigin \/ NoParent \/ ParentsDone
    BY <1>4, ContiguousEndsFull
<1>5. CASE StrideByNumber \/ StrideUp \/ StrideDown \/ StrideCut \/ StrideMiss \/ StrideFull
    BY <1>5, StrideKeepsFull
<1>6. CASE Body \/ NoBody
    BY <1>6, BodyKeepsFull
<1>7. CASE BodiesDone
    BY <1>7, BodiesEndFull
<1>8. CASE UNCHANGED vars
    <2>1. UNCHANGED <<head, bundled, query, phase, number, left, ours, budget, lookups, segment,
                      headers, misses, calm>>
        BY <1>8 DEF vars, world, cursor
    <2>2. AnswerComplete'
        BY <2>1, CompleteIs DEF FullInv
    <2>3. (StrideFullInv => StrideFullInv') /\ (DownFullInv => DownFullInv')
          /\ Bundled' = Bundled
        BY <2>1 DEF StrideFullInv, DownFullInv, Bundled
    <2>4. BodiesFullInv => BodiesFullInv'
        BY <2>1, Zenon DEF BodiesFullInv, Positions, BodiesAt, Bundled
    <2> QED
        BY <2>1, <2>2, <2>3, <2>4 DEF FullInv
<1> QED
    BY <1>1, <1>2, <1>3, <1>4, <1>5, <1>6, <1>7, <1>8 DEF Next, Handler

(* AnswerComplete holds for every chain, every limit and every request:    *)
(* when no lookup fails and neither head nor bundles move while a request  *)
(* is served, the answer is the one a full node with the same blocks would *)
(* give: by number in both directions and with any gap, by hash towards    *)
(* the genesis block and with a gap as far as maxNonCanonical reaches, and *)
(* the bodies up to the limits of the reply.                               *)
THEOREM QuietAnswersComplete == Spec => []AnswerComplete
<1>1. Init => FullInv
    <2> SUFFICES ASSUME Init PROVE FullInv
        OBVIOUS
    <2>1. phase = "idle" /\ AnswerComplete
        BY CompleteIs DEF Init
    <2> QED
        BY <2>1 DEF FullInv
<1>2. FollowInv /\ FullInv /\ [Next]_vars => FullInv'
    BY NextKeepsFull
<1>3. FullInv => AnswerComplete
    BY DEF FullInv
<1> QED
    BY <1>1, <1>2, <1>3, FollowInvariant, PTL DEF Spec
=============================================================================
