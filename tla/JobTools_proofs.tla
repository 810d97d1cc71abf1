---------------------------- MODULE JobTools_proofs ----------------------------
(***************************************************************************)
(* Proofs about the job tools.  BoardCollectors: a collector that returns  *)
(* from a board that states its total has missed nothing, for any boards,  *)
(* pages and limits, for any number of changes and of pages cut short.     *)
(* CompanyTools: whatever rows are repaired and merged, a website is       *)
(* marked verified only where it was, and a stored board stays.            *)
(* JobRefresh: for any companies, boards, links and ids, and any failures, *)
(* what a refresh makes of the table loses nothing it must keep and shows  *)
(* the boards that were read, and the snapshot says what the table says.   *)
(***************************************************************************)
EXTENDS BoardCollectors, CompanyTools, JobRefresh, SequenceTheorems, FiniteSetTheorems,
        WellFoundedInduction, TLAPS

-----------------------------------------------------------------------------
(* The inductive invariant.                                                *)

Counts == collector.total \in {"every", "first"}

\* Before the first page nothing has happened.
Untouched ==
    page = 0 =>
        /\ fetched = 0 /\ expected = None /\ seen = {} /\ jobs = {}
        /\ kept = Range(board) /\ churned = {}

\* A board that is not sent in pages is read at once.
ReadAtOnce == page > 0 => collector.paged

\* Where the board stands to the total of its first page tells what happened to it.
SizeTells ==
    /\ expected \in Nat
    /\ "added" \notin churned /\ "removed" \notin churned => Len(board) = expected
    /\ "added" \in churned /\ "removed" \notin churned => Len(board) > expected
    /\ "removed" \in churned /\ "added" \notin churned => Len(board) < expected

\* Without additions all that was and is on the board was there at first.
FromTheStart ==
    "added" \notin churned =>
        \E first \in SUBSET Postings :
            Cardinality(first) = expected /\ seen \cup Range(board) \subseteq first

\* While nothing changes the postings received are those at the head of the board.
InStep ==
    churned = {} =>
        /\ fetched <= Len(board)
        /\ seen = {board[i] : i \in 1..fetched}
        /\ collector # ADP => fetched = page * PageSize

Counted ==
    page > 0 => /\ SizeTells
                /\ collector.unique => FromTheStart
                /\ ~collector.unique => InStep

\* A posting without an id is no job, so it was refused.
Taken == collector # Generic => jobs = seen \ (Untitled \cup Nameless)
Identified == collector.named /\ status \in {"reading", "returned"} => seen \cap Nameless = {}

CollectorsInv ==
    /\ TypeOK
    /\ fetched <= page * Cardinality(Postings)
    /\ status = "reading" =>
          /\ page < MaxPages
          /\ Untouched /\ ReadAtOnce
          /\ Counts => Counted
    /\ Taken /\ Identified
    /\ NothingMissed

-----------------------------------------------------------------------------
(* A posting more or less on the board.                                    *)

\* InsertAt moves the elements from i on by one place.
LEMMA Inserted ==
    ASSUME NEW S, NEW s \in Seq(S), NEW e \in S, NEW i \in 1..(Len(s) + 1)
    PROVE  /\ InsertAt(s, i, e) \in Seq(S) /\ Len(InsertAt(s, i, e)) = Len(s) + 1
           /\ \A j \in 1..(Len(s) + 1) :
                 InsertAt(s, i, e)[j] = IF j < i THEN s[j] ELSE IF j = i THEN e ELSE s[j - 1]
<1>1. \A j \in 1..Len(s) : s[j] \in S
    BY ElementOfSeq
<1>2. Len(s) \in Nat
    BY LenProperties
<1> DEFINE head == SubSeq(s, 1, i - 1)  tail == SubSeq(s, i, Len(s))
<1>3. head \in Seq(S) /\ Len(head) = i - 1 /\ \A j \in 1..(i - 1) : head[j] = s[j]
    <2>1. \A j \in 1..(i - 1) : s[j] \in S
        BY <1>1, <1>2
    <2> HIDE DEF head
    <2>2. /\ head \in Seq(S) /\ Len(head) = IF 1 <= i - 1 THEN (i - 1) - 1 + 1 ELSE 0
          /\ \A j \in 1..((i - 1) - 1 + 1) : head[j] = s[1 + j - 1]
        BY <1>2, <2>1, SubSeqProperties DEF head
    <2> QED BY <2>2, <1>2
<1>4. /\ tail \in Seq(S) /\ Len(tail) = Len(s) + 1 - i
      /\ \A j \in 1..(Len(s) + 1 - i) : tail[j] = s[j + i - 1]
    <2>1. \A j \in i..Len(s) : s[j] \in S
        BY <1>1, <1>2
    <2> HIDE DEF tail
    <2>2. /\ tail \in Seq(S) /\ Len(tail) = IF i <= Len(s) THEN Len(s) - i + 1 ELSE 0
          /\ \A j \in 1..(Len(s) - i + 1) : tail[j] = s[i + j - 1]
        BY <1>2, <2>1, SubSeqProperties DEF tail
    <2> QED BY <2>2, <1>2
<1> HIDE DEF head, tail
<1>5. /\ <<e>> \in Seq(S) /\ Len(<<e>>) = 1 /\ <<e>>[1] = e
    OBVIOUS
<1> DEFINE start == head \o <<e>>
<1>6. /\ start \in Seq(S) /\ Len(start) = i
      /\ \A j \in 1..i : start[j] = IF j < i THEN s[j] ELSE e
    BY <1>2, <1>3, <1>5, ConcatProperties
<1> HIDE DEF start
<1>7. /\ start \o tail \in Seq(S) /\ Len(start \o tail) = Len(s) + 1
      /\ \A j \in 1..(Len(s) + 1) :
            (start \o tail)[j] = IF j <= i THEN start[j] ELSE tail[j - i]
    <2>1. /\ start \o tail \in Seq(S) /\ Len(start \o tail) = Len(start) + Len(tail)
          /\ \A j \in 1..(Len(start) + Len(tail)) :
                (start \o tail)[j] = IF j <= Len(start) THEN start[j] ELSE tail[j - Len(start)]
        BY <1>4, <1>6, ConcatProperties
    <2>2. Len(start) = i /\ Len(start) + Len(tail) = Len(s) + 1
        BY <1>2, <1>4, <1>6
    <2> QED BY <2>1, <2>2
<1>8. InsertAt(s, i, e) = start \o tail
    BY DEF InsertAt, start, head, tail
<1> QED
    BY <1>2, <1>4, <1>6, <1>7, <1>8

\* RemoveAt moves the elements after i.
LEMMA Removed ==
    ASSUME NEW S, NEW s \in Seq(S), NEW i \in 1..Len(s)
    PROVE  /\ RemoveAt(s, i) \in Seq(S) /\ Len(RemoveAt(s, i)) = Len(s) - 1
           /\ \A j \in 1..(Len(s) - 1) :
                 RemoveAt(s, i)[j] = IF j < i THEN s[j] ELSE s[j + 1]
<1>1. \A j \in 1..Len(s) : s[j] \in S
    BY ElementOfSeq
<1>2. Len(s) \in Nat
    BY LenProperties
<1> DEFINE head == SubSeq(s, 1, i - 1)  tail == SubSeq(s, i + 1, Len(s))
<1>3. head \in Seq(S) /\ Len(head) = i - 1 /\ \A j \in 1..(i - 1) : head[j] = s[j]
    <2>1. \A j \in 1..(i - 1) : s[j] \in S
        BY <1>1, <1>2
    <2> HIDE DEF head
    <2>2. /\ head \in Seq(S) /\ Len(head) = IF 1 <= i - 1 THEN (i - 1) - 1 + 1 ELSE 0
          /\ \A j \in 1..((i - 1) - 1 + 1) : head[j] = s[1 + j - 1]
        BY <1>2, <2>1, SubSeqProperties DEF head
    <2> QED BY <2>2, <1>2
<1>4. /\ tail \in Seq(S) /\ Len(tail) = Len(s) - i
      /\ \A j \in 1..(Len(s) - i) : tail[j] = s[j + i]
    <2>1. \A j \in (i + 1)..Len(s) : s[j] \in S
        BY <1>1, <1>2
    <2> HIDE DEF tail
    <2>2. /\ tail \in Seq(S)
          /\ Len(tail) = IF i + 1 <= Len(s) THEN Len(s) - (i + 1) + 1 ELSE 0
          /\ \A j \in 1..(Len(s) - (i + 1) + 1) : tail[j] = s[(i + 1) + j - 1]
        BY <1>2, <2>1, SubSeqProperties DEF tail
    <2> QED BY <2>2, <1>2
<1> HIDE DEF head, tail
<1>5. /\ head \o tail \in Seq(S) /\ Len(head \o tail) = Len(s) - 1
      /\ \A j \in 1..(Len(s) - 1) :
            (head \o tail)[j] = IF j <= i - 1 THEN head[j] ELSE tail[j - (i - 1)]
    <2>1. /\ head \o tail \in Seq(S) /\ Len(head \o tail) = Len(head) + Len(tail)
          /\ \A j \in 1..(Len(head) + Len(tail)) :
                (head \o tail)[j] = IF j <= Len(head) THEN head[j] ELSE tail[j - Len(head)]
        BY <1>3, <1>4, ConcatProperties
    <2>2. Len(head) = i - 1 /\ Len(head) + Len(tail) = Len(s) - 1
        BY <1>2, <1>3, <1>4
    <2> QED BY <2>1, <2>2
<1>6. RemoveAt(s, i) = head \o tail
    BY DEF RemoveAt, head, tail
<1>7. ASSUME NEW j \in 1..(Len(s) - 1)
      PROVE  RemoveAt(s, i)[j] = IF j < i THEN s[j] ELSE s[j + 1]
    <2>1. CASE j < i
        <3>1. j \in 1..(i - 1) /\ j <= i - 1
            BY <1>2, <2>1
        <3> QED BY <1>3, <1>5, <1>6, <2>1, <3>1
    <2>2. CASE j >= i
        <3>1. ~(j <= i - 1) /\ j - (i - 1) \in 1..(Len(s) - i) /\ j - (i - 1) + i = j + 1
            BY <1>2, <2>2
        <3> QED BY <1>4, <1>5, <1>6, <2>2, <3>1
    <2> QED BY <1>2, <2>1, <2>2
<1> QED
    BY <1>5, <1>6, <1>7

\* A new posting on a board.
LEMMA InsertedBoard ==
    ASSUME NEW S, NEW s \in Seq(S), IsInjective(s), NEW e \in S, e \notin Range(s),
           NEW i \in 1..(Len(s) + 1)
    PROVE  /\ InsertAt(s, i, e) \in Seq(S) /\ IsInjective(InsertAt(s, i, e))
           /\ Len(InsertAt(s, i, e)) = Len(s) + 1
           /\ Range(InsertAt(s, i, e)) = Range(s) \cup {e}
<1> DEFINE t == InsertAt(s, i, e)
<1> HIDE DEF t
<1>1. /\ t \in Seq(S) /\ Len(t) = Len(s) + 1
      /\ \A j \in 1..(Len(s) + 1) :
            t[j] = IF j < i THEN s[j] ELSE IF j = i THEN e ELSE s[j - 1]
    <2>1. t \in Seq(S)
        BY Inserted DEF t
    <2>2. Len(t) = Len(s) + 1
        BY Inserted DEF t
    <2>3. ASSUME NEW j \in 1..(Len(s) + 1)
          PROVE  t[j] = IF j < i THEN s[j] ELSE IF j = i THEN e ELSE s[j - 1]
        BY Inserted DEF t
    <2> QED BY <2>1, <2>2, <2>3
<1>2. /\ Len(s) \in Nat /\ DOMAIN s = 1..Len(s) /\ DOMAIN t = 1..(Len(s) + 1)
    BY <1>1, LenProperties
<1>3. \A j \in 1..Len(s) : s[j] # e
    BY <1>2 DEF Range
<1>4. \A j, k \in 1..Len(s) : s[j] = s[k] => j = k
    BY <1>2 DEF IsInjective
<1>5. ASSUME NEW j \in 1..(Len(s) + 1), NEW k \in 1..(Len(s) + 1), t[j] = t[k]
      PROVE  j = k
    BY <1>1, <1>2, <1>3, <1>4, <1>5
<1>6. ASSUME NEW j \in 1..(Len(s) + 1)
      PROVE  t[j] \in Range(s) \cup {e}
    BY <1>1, <1>2 DEF Range
<1>7. ASSUME NEW j \in 1..Len(s)
      PROVE  \E k \in 1..(Len(s) + 1) : t[k] = s[j]
    <2>1. CASE j < i
        BY <1>1, <1>2, <2>1
    <2>2. CASE j >= i
        <3>1. j + 1 \in 1..(Len(s) + 1) /\ t[j + 1] = s[j]
            BY <1>1, <1>2, <2>2
        <3> QED BY <3>1
    <2> QED BY <1>2, <2>1, <2>2
<1>8. t[i] = e
    BY <1>1, <1>2
<1>9. IsInjective(t)
    BY <1>2, <1>5 DEF IsInjective
<1>10. Range(t) = Range(s) \cup {e}
    BY <1>2, <1>6, <1>7, <1>8 DEF Range
<1> QED BY <1>1, <1>9, <1>10 DEF t

\* A posting taken from a board.
LEMMA RemovedBoard ==
    ASSUME NEW S, NEW s \in Seq(S), IsInjective(s), NEW i \in 1..Len(s)
    PROVE  /\ RemoveAt(s, i) \in Seq(S) /\ IsInjective(RemoveAt(s, i))
           /\ Len(RemoveAt(s, i)) = Len(s) - 1
           /\ Range(RemoveAt(s, i)) = Range(s) \ {s[i]}
           /\ s[i] \in S /\ s[i] \in Range(s)
<1> DEFINE t == RemoveAt(s, i)
<1>1. /\ t \in Seq(S) /\ Len(t) = Len(s) - 1
      /\ \A j \in 1..(Len(s) - 1) : t[j] = IF j < i THEN s[j] ELSE s[j + 1]
    BY Removed
<1> HIDE DEF t
<1>2. /\ Len(s) \in Nat /\ DOMAIN s = 1..Len(s) /\ DOMAIN t = 1..(Len(s) - 1)
    BY <1>1, LenProperties
<1>3. s[i] \in S /\ s[i] \in Range(s)
    BY <1>2, ElementOfSeq DEF Range
<1>4. \A j, k \in 1..Len(s) : s[j] = s[k] => j = k
    BY <1>2 DEF IsInjective
<1>5. ASSUME NEW j \in 1..(Len(s) - 1), NEW k \in 1..(Len(s) - 1), t[j] = t[k]
      PROVE  j = k
    BY <1>1, <1>2, <1>4, <1>5
<1>6. ASSUME NEW j \in 1..(Len(s) - 1)
      PROVE  t[j] \in Range(s) \ {s[i]}
    <2>1. PICK k \in 1..Len(s) : k # i /\ t[j] = s[k]
        <3>1. CASE j < i
            BY <1>1, <1>2, <3>1
        <3>2. CASE j >= i
            <4>1. j + 1 \in 1..Len(s) /\ j + 1 # i /\ t[j] = s[j + 1]
                BY <1>1, <1>2, <3>2
            <4> QED BY <4>1
        <3> QED BY <1>2, <3>1, <3>2
    <2> QED BY <1>2, <1>4, <2>1 DEF Range
<1>7. ASSUME NEW j \in 1..Len(s), j # i
      PROVE  \E k \in 1..(Len(s) - 1) : t[k] = s[j]
    <2>1. CASE j < i
        <3>1. j \in 1..(Len(s) - 1) /\ t[j] = s[j]
            BY <1>1, <1>2, <2>1
        <3> QED BY <3>1
    <2>2. CASE j > i
        <3>1. j - 1 \in 1..(Len(s) - 1) /\ t[j - 1] = s[j]
            BY <1>1, <1>2, <2>2
        <3> QED BY <3>1
    <2> QED BY <1>2, <1>7, <2>1, <2>2
<1>8. IsInjective(t)
    BY <1>2, <1>5 DEF IsInjective
<1>9. \A x \in Range(s) \ {s[i]} : \E k \in 1..(Len(s) - 1) : t[k] = x
    BY <1>2, <1>7 DEF Range
<1>10. Range(t) = Range(s) \ {s[i]}
    <2>1. Range(t) \subseteq Range(s) \ {s[i]}
        BY <1>2, <1>6 DEF Range
    <2>2. Range(s) \ {s[i]} \subseteq Range(t)
        BY <1>2, <1>9 DEF Range
    <2> QED BY <2>1, <2>2
<1> QED BY <1>1, <1>3, <1>8, <1>10 DEF t

\* As many postings as places.
LEMMA SizeOfBoard ==
    ASSUME NEW S, NEW s \in Seq(S), IsInjective(s)
    PROVE  IsFiniteSet(Range(s)) /\ Cardinality(Range(s)) = Len(s)
<1>1. Len(s) \in Nat /\ DOMAIN s = 1..Len(s) /\ s \in [1..Len(s) -> S]
    BY LenProperties
<1>2. s \in [1..Len(s) -> Range(s)]
    BY <1>1 DEF Range
<1>3. s \in Bijection(1..Len(s), Range(s))
    BY <1>1, <1>2 DEF Bijection, Injection, Surjection, Range
<1>4. IsFiniteSet(1..Len(s)) /\ Cardinality(1..Len(s)) = Len(s)
    BY <1>1, FS_Interval
<1> QED
    BY <1>3, <1>4, FS_Bijection DEF ExistsBijection

-----------------------------------------------------------------------------
(* What the collectors are, and what they are sent.                        *)

\* Whoever goes by a total insists on ids; who lets it out on later pages counts them.
LEMMA CollectorsAre ==
    \A c \in Collectors :
        /\ c.total \in {"never", "first", "every"}
        /\ c.total # "never" => c.named
        /\ c.total = "first" => c.unique
<1> USE DEF Paged, Whole
<1>1. \A c \in {Workday, Cornerstone, Paycom, UKG, Dayforce} :
          c.named /\ c.unique /\ c.total \in {"first", "every"}
    BY DEF Workday, Cornerstone, Paycom, UKG, Dayforce
<1>2. \A c \in {UKGReady, ADP} : c.named /\ c.total = "every"
    BY DEF UKGReady, ADP
<1>3. ICIMS.total = "never"
    BY DEF ICIMS
<1>4. \A c \in {ClearCompany, ApplicantPro} : c.named /\ c.total = "every"
    BY DEF ClearCompany, ApplicantPro
<1>5. \A c \in {Paylocity, Paycor} : c.total = "never"
    BY DEF Paylocity, Paycor
<1> QED BY <1>1, <1>2, <1>3, <1>4, <1>5 DEF Collectors

LEMMA GenericIs == Generic.total = "rendered" /\ ~Generic.named
BY DEF Generic, Whole

LEMMA OffsetIs == TypeOK => Offset \in Nat
<1> SUFFICES ASSUME TypeOK PROVE Offset \in Nat
    OBVIOUS
<1>1. page \in Nat /\ fetched \in Nat /\ PageSize \in Nat
    BY CollectorsAssumption DEF TypeOK
<1>2. page * PageSize \in Nat
    BY <1>1
<1> QED BY <1>1, <1>2 DEF Offset

\* Rows of the board, from the offset on.
Part(sent) ==
    /\ sent \in Seq(Postings)
    /\ Len(sent) = 0 \/ Offset + Len(sent) <= Len(board)
    /\ \A i \in 1..Len(sent) : sent[i] = board[Offset + i]

LEMMA SubSeqIsPart ==
    ASSUME TypeOK, NEW m \in Nat, m <= Len(board)
    PROVE  /\ Part(SubSeq(board, Offset + 1, m))
           /\ Len(SubSeq(board, Offset + 1, m)) = IF Offset + 1 <= m THEN m - Offset ELSE 0
<1>1. Offset \in Nat
    BY OffsetIs
<1>2. board \in Seq(Postings) /\ Len(board) \in Nat
    BY LenProperties DEF TypeOK
<1> DEFINE sent == SubSeq(board, Offset + 1, m)
<1>3. \A i \in (Offset + 1)..m : board[i] \in Postings
    BY <1>1, <1>2, ElementOfSeq
<1> HIDE DEF sent
<1>4. /\ sent \in Seq(Postings)
      /\ Len(sent) = IF Offset + 1 <= m THEN m - (Offset + 1) + 1 ELSE 0
      /\ \A i \in 1..(m - (Offset + 1) + 1) : sent[i] = board[(Offset + 1) + i - 1]
    BY <1>1, <1>3, SubSeqProperties DEF sent
<1>5. Len(sent) = IF Offset + 1 <= m THEN m - Offset ELSE 0
    BY <1>1, <1>4
<1>6. ASSUME NEW i \in 1..Len(sent)
      PROVE  sent[i] = board[Offset + i]
    <2>1. i \in 1..(m - (Offset + 1) + 1) /\ (Offset + 1) + i - 1 = Offset + i
        BY <1>1, <1>5
    <2> QED BY <1>4, <2>1
<1>7. Len(sent) = 0 \/ Offset + Len(sent) <= Len(board)
    BY <1>1, <1>2, <1>5
<1> QED BY <1>4, <1>5, <1>6, <1>7 DEF Part, sent

LEMMA MinIs == \A a, b \in Nat : Min({a, b}) = IF a <= b THEN a ELSE b
<1> SUFFICES ASSUME NEW a \in Nat, NEW b \in Nat
             PROVE  Min({a, b}) = IF a <= b THEN a ELSE b
    OBVIOUS
<1> DEFINE least == IF a <= b THEN a ELSE b
<1>1. least \in {a, b} /\ \A y \in {a, b} : least <= y
    OBVIOUS
<1>2. \A x \in {a, b} : (\A y \in {a, b} : x <= y) => x = least
    OBVIOUS
<1> HIDE DEF least
<1>3. Min({a, b}) = least
    BY <1>1, <1>2 DEF Min
<1> QED BY <1>3 DEF least

\* What is due is a part of the board, a page of it if it comes in pages.
LEMMA DueIs ==
    ASSUME TypeOK, collector.paged \/ page = 0, collector # ADP \/ collector.paged
    PROVE  Part(Due) /\ (collector.paged => Len(Due) <= PageSize)
<1>1. Offset \in Nat /\ PageSize \in Nat /\ board \in Seq(Postings) /\ Len(board) \in Nat
    BY OffsetIs, LenProperties, CollectorsAssumption DEF TypeOK
<1>2. CASE collector.paged
    <2>1. PICK m \in Nat : m = Min({Offset + PageSize, Len(board)})
        BY <1>1, MinIs
    <2>2. m <= Len(board) /\ m <= Offset + PageSize
        BY <1>1, <2>1, MinIs
    <2>3. Due = SubSeq(board, Offset + 1, m)
        BY <1>2, <2>1 DEF Due
    <2>4. Part(Due) /\ Len(Due) = IF Offset + 1 <= m THEN m - Offset ELSE 0
        BY <2>2, <2>3, SubSeqIsPart
    <2> QED BY <1>1, <2>2, <2>4
<1>3. CASE ~collector.paged
    <2>1. Offset = 0
        BY <1>3, CollectorsAssumption DEF Offset
    <2>2. Due = board
        BY <1>3 DEF Due
    <2> QED BY <1>1, <1>3, <2>1, <2>2 DEF Part
<1> QED BY <1>2, <1>3

LEMMA CutIsPart ==
    ASSUME TypeOK, NEW sent, Part(sent), NEW cut \in Cut(sent)
    PROVE  Part(cut) /\ Len(cut) < Len(sent)
<1>1. Offset \in Nat /\ Len(board) \in Nat /\ Len(sent) \in Nat /\ sent \in Seq(Postings)
    BY OffsetIs, LenProperties DEF TypeOK, Part
<1>2. PICK k \in 0..(Len(sent) - 1) : cut = SubSeq(sent, 1, k)
    BY DEF Cut
<1>3. \A i \in 1..k : sent[i] \in Postings
    BY <1>1, ElementOfSeq
<1>4. /\ cut \in Seq(Postings) /\ Len(cut) = IF 1 <= k THEN k - 1 + 1 ELSE 0
      /\ \A i \in 1..(k - 1 + 1) : cut[i] = sent[1 + i - 1]
    BY <1>1, <1>2, <1>3, SubSeqProperties
<1>5. Len(cut) = k
    BY <1>1, <1>4
<1>6. ASSUME NEW i \in 1..Len(cut)
      PROVE  cut[i] = board[Offset + i]
    <2>1. i \in 1..(k - 1 + 1) /\ 1 + i - 1 = i /\ i \in 1..Len(sent)
        BY <1>1, <1>5
    <2>2. cut[i] = sent[i]
        BY <1>4, <2>1
    <2> QED BY <2>1, <2>2 DEF Part
<1>7. Len(cut) = 0 \/ Offset + Len(cut) <= Len(board)
    BY <1>1, <1>5 DEF Part
<1> QED BY <1>1, <1>4, <1>5, <1>6, <1>7 DEF Part

\* Whatever the provider sends is a part of the board: no more than a page, all
\* that is left, or cut short.
LEMMA AnswersAreParts ==
    ASSUME TypeOK, collector.paged \/ page = 0, NEW answer \in Answers
    PROVE  /\ Part(answer[1])
           /\ collector.paged => \/ Len(answer[1]) <= PageSize
                                 \/ Offset + Len(answer[1]) = Len(board)
           /\ answer[2] \in {0, 1} /\ (answer[2] = 1 => faults < MaxFaults)
<1>1. Offset \in Nat /\ PageSize \in Nat /\ Len(board) \in Nat
    BY OffsetIs, LenProperties, CollectorsAssumption DEF TypeOK
<1>2. collector # ADP \/ collector.paged
    BY DEF ADP, Paged
<1>3. Part(Due) /\ (collector.paged => Len(Due) <= PageSize)
    BY <1>2, DueIs
<1>4. CASE answer = <<Due, 0>>
    BY <1>3, <1>4
<1>5. CASE \E sent \in Cut(Due) \cup {After(Offset)} :
              faults < MaxFaults /\ answer = <<sent, 1>>
    <2>1. PICK sent \in Cut(Due) \cup {After(Offset)} :
              faults < MaxFaults /\ answer = <<sent, 1>>
        BY <1>5
    <2>2. CASE sent \in Cut(Due)
        <3>1. Part(sent) /\ Len(sent) < Len(Due) /\ Len(sent) \in Nat /\ Len(Due) \in Nat
            BY <1>3, <2>2, CutIsPart, LenProperties DEF Part
        <3> QED BY <1>1, <1>3, <2>1, <3>1
    <2>3. CASE sent = After(Offset)
        <3>1. Part(sent) /\ Len(sent) = IF Offset + 1 <= Len(board) THEN Len(board) - Offset ELSE 0
            BY <1>1, <2>3, SubSeqIsPart DEF After
        <3> QED BY <1>1, <2>1, <3>1
    <2> QED BY <2>1, <2>2, <2>3
<1> QED
    <2>1. answer = <<Due, 0>> \/ \E sent \in Cut(Due) \cup {After(Offset)} :
                                    \E n \in IF faults < MaxFaults THEN {1} ELSE {} :
                                        answer = <<sent, n>>
        BY DEF Answers
    <2> QED BY <1>4, <1>5, <2>1

-----------------------------------------------------------------------------
(* A page is read.                                                         *)

\* What comes in is on the board, and no more than there is.
LEMMA RowsAreOnBoard ==
    ASSUME TypeOK, NEW sent, Part(sent)
    PROVE  /\ Len(sent) \in Nat /\ Len(sent) <= Len(board) /\ Len(board) \in Nat
           /\ Len(board) <= Cardinality(Postings) /\ Cardinality(Postings) \in Nat
           /\ Range(sent) = {board[i] : i \in (Offset + 1)..(Offset + Len(sent))}
           /\ Range(sent) \subseteq Range(board) /\ Range(board) \subseteq Postings
<1>1. /\ Offset \in Nat /\ Len(board) \in Nat /\ Len(sent) \in Nat
      /\ DOMAIN sent = 1..Len(sent) /\ DOMAIN board = 1..Len(board)
      /\ board \in Seq(Postings)
    BY OffsetIs, LenProperties DEF TypeOK, Part
<1>2. Range(board) \subseteq Postings
    BY <1>1, RangeOfSeq
<1>3. Len(board) <= Cardinality(Postings) /\ Cardinality(Postings) \in Nat
    <2>1. IsFiniteSet(Range(board)) /\ Cardinality(Range(board)) = Len(board)
        BY SizeOfBoard DEF TypeOK
    <2>2. Cardinality(Range(board)) <= Cardinality(Postings)
        BY <1>2, FS_Subset, CollectorsAssumption
    <2> QED BY <2>1, <2>2, FS_CardinalityType, CollectorsAssumption
<1>4. Len(sent) <= Len(board)
    BY <1>1 DEF Part
<1>5. ASSUME NEW i \in (Offset + 1)..(Offset + Len(sent))
      PROVE  board[i] \in Range(sent) /\ i \in 1..Len(board)
    <2>1. i - Offset \in 1..Len(sent) /\ Offset + (i - Offset) = i /\ i \in 1..Len(board)
        BY <1>1 DEF Part
    <2>2. sent[i - Offset] = board[i]
        BY <2>1 DEF Part
    <2> QED BY <1>1, <2>1, <2>2 DEF Range
<1>6. ASSUME NEW x \in Range(sent)
      PROVE  \E i \in (Offset + 1)..(Offset + Len(sent)) : x = board[i]
    <2>1. PICK i \in 1..Len(sent) : x = sent[i]
        BY <1>1 DEF Range
    <2>2. Offset + i \in (Offset + 1)..(Offset + Len(sent)) /\ x = board[Offset + i]
        BY <1>1, <2>1 DEF Part
    <2> QED BY <2>2
<1>7. Range(sent) = {board[i] : i \in (Offset + 1)..(Offset + Len(sent))}
    BY <1>5, <1>6
<1>8. Range(sent) \subseteq Range(board)
    BY <1>1, <1>5, <1>6 DEF Range
<1> QED BY <1>1, <1>2, <1>3, <1>4, <1>7, <1>8

\* The total that counts is that of the first page; other collectors have none.
LEMMA WantIs ==
    ASSUME CollectorsInv, status = "reading", collector # Generic, NEW total \in Totals
    PROVE  /\ page \in Nat /\ MaxPages \in Nat
           /\ Want(total) \in 0..Cardinality(Postings) \cup {None}
           /\ Counts => /\ Want(total) \in Nat
                        /\ page = 0 => /\ expected = None /\ Want(total) = Len(board)
                                       /\ total = Len(board)
                        /\ page > 0 => expected \in Nat /\ Want(total) = expected
                        /\ collector.total = "every" => total = Len(board)
           /\ collector.total # "never" <=> Counts
<1>1. TypeOK /\ Untouched /\ (Counts => Counted) /\ collector \in Collectors
    BY DEF CollectorsInv, TypeOK
<1>2. /\ Len(board) \in 0..Cardinality(Postings) /\ page \in Nat /\ MaxPages \in Nat
    <2>1. IsFiniteSet(Range(board)) /\ Cardinality(Range(board)) = Len(board)
        BY <1>1, SizeOfBoard DEF TypeOK
    <2>2. Range(board) \subseteq Postings
        BY <1>1, RangeOfSeq DEF TypeOK
    <2>3. Cardinality(Range(board)) <= Cardinality(Postings) /\ Cardinality(Postings) \in Nat
        BY <2>2, FS_Subset, FS_CardinalityType, CollectorsAssumption
    <2>4. Len(board) \in Nat
        BY <1>1, LenProperties DEF TypeOK
    <2> QED BY <1>1, <2>1, <2>3, <2>4, CollectorsAssumption DEF TypeOK
<1>3. total \in {Len(board), 0, None}
    BY DEF Totals
<1>4. Want(total) \in 0..Cardinality(Postings) \cup {None}
    <2>1. total \in 0..Cardinality(Postings) \cup {None}
        <3>1. Len(board) \in Nat /\ Cardinality(Postings) \in Nat
            BY <1>2, FS_CardinalityType, CollectorsAssumption
        <3>2. 0 \in 0..Cardinality(Postings)
            BY <3>1
        <3> QED BY <1>2, <1>3, <3>2
    <2>2. Want(total) \in {total, expected}
        BY DEF Want
    <2> QED BY <1>1, <2>1, <2>2 DEF TypeOK
<1>5. collector.total \in {"never", "first", "every"}
    BY <1>1, CollectorsAre
<1>6. ASSUME Counts
      PROVE  /\ page = 0 \/ collector.total = "every" => total = Len(board)
             /\ page = 0 => expected = None
             /\ page > 0 => expected \in Nat
    BY <1>1, <1>2, <1>5, <1>6 DEF Counts, Totals, Untouched, Counted, SizeTells
<1>7. ASSUME Counts
      PROVE  /\ Want(total) \in Nat
             /\ page = 0 => Want(total) = Len(board)
             /\ page > 0 => Want(total) = expected
    <2>1. CASE page = 0
        BY <1>2, <1>6, <1>7, <2>1 DEF Want
    <2>2. CASE page > 0
        BY <1>6, <1>7, <2>2, CollectorsAssumption DEF Want
    <2> QED BY <1>2, <2>1, <2>2
<1> QED BY <1>2, <1>4, <1>5, <1>6, <1>7 DEF Counts

\* A page keeps the types, and what has been received within the pages read.
LEMMA FetchKeepsType ==
    ASSUME CollectorsInv, status = "reading", collector # Generic,
           NEW sent, Part(sent), NEW total \in Totals, Fetch(sent, total),
           faults' \in 0..MaxFaults
    PROVE  TypeOK' /\ fetched' <= page' * Cardinality(Postings)
<1>1. TypeOK /\ page < MaxPages /\ fetched <= page * Cardinality(Postings)
    BY DEF CollectorsInv
<1>2. /\ Len(sent) \in Nat /\ Len(sent) <= Cardinality(Postings)
      /\ Cardinality(Postings) \in Nat /\ Range(sent) \subseteq Postings
    BY <1>1, RowsAreOnBoard
<1>3. page \in Nat /\ MaxPages \in Nat /\ fetched \in Nat
    BY <1>1, CollectorsAssumption DEF TypeOK
<1>4. page' = page + 1 /\ page' \in 0..MaxPages /\ fetched' = fetched + Len(sent)
    BY <1>1, <1>3 DEF Fetch
<1>5. fetched' \in Nat /\ fetched' <= page' * Cardinality(Postings)
    <2> DEFINE C == Cardinality(Postings)
    <2>1. (page + 1) * C = page * C + C /\ page * C \in Nat
        BY <1>2, <1>3
    <2> QED BY <1>1, <1>2, <1>3, <1>4, <2>1
<1>6. fetched' \in 0..(MaxPages * Cardinality(Postings))
    <2> DEFINE C == Cardinality(Postings)  left == MaxPages - page'
    <2>1. left \in Nat /\ MaxPages = page' + left
        BY <1>3, <1>4
    <2>2. left * C \in Nat /\ page' * C \in Nat
        BY <1>2, <1>3, <1>4, <2>1
    <2>3. MaxPages * C = page' * C + left * C
        BY <1>2, <1>3, <1>4, <2>1
    <2>4. MaxPages * C \in Nat
        BY <1>2, <1>3
    <2> QED BY <1>5, <2>2, <2>3, <2>4
<1>7. expected' \in 0..Cardinality(Postings) \cup {None}
    BY WantIs DEF Fetch
<1>8. /\ seen' \subseteq Postings /\ jobs' \subseteq seen' \ (Untitled \cup Nameless)
    BY <1>1, <1>2 DEF Fetch, TypeOK
<1>9. status' \in {"reading", "returned", "partial", "failed"}
    BY DEF Fetch
<1>10. UNCHANGED <<collector, board, kept, churned, churn>>
    BY DEF Fetch, world
<1> QED
    BY <1>1, <1>4, <1>5, <1>6, <1>7, <1>8, <1>9, <1>10 DEF TypeOK

\* Another page is read only of a board in pages, and only if the total says so.
LEMMA FetchGoesOn ==
    ASSUME CollectorsInv, status = "reading", collector # Generic,
           NEW sent, Part(sent), NEW total \in Totals, Fetch(sent, total),
           status' = "reading"
    PROVE  /\ page' > 0 /\ page' < MaxPages /\ collector.paged
           /\ Counts => /\ fetched + Len(sent) < Want(total)
                        /\ Len(sent) >= PageSize
                        /\ ~TotalRefused(total)
<1>1. TypeOK /\ page < MaxPages /\ collector \in Collectors
    BY DEF CollectorsInv, TypeOK
<1>2. ~Refused(sent, total) /\ ~FinalPage(sent, total) /\ ~Exhausted
    BY DEF Fetch
<1>3. page \in Nat /\ MaxPages \in Nat /\ page' = page + 1 /\ page' # MaxPages
    BY <1>1, <1>2, CollectorsAssumption DEF TypeOK, Fetch, Exhausted
<1>4. page' > 0 /\ page' < MaxPages
    BY <1>1, <1>3
<1>5. Len(sent) \in Nat /\ fetched \in Nat /\ PageSize \in Nat
    BY <1>1, RowsAreOnBoard, CollectorsAssumption DEF TypeOK
<1>6. collector.total # "never" <=> Counts
    BY WantIs
<1>7. ASSUME Counts
      PROVE  /\ fetched + Len(sent) < Want(total) /\ collector.paged /\ Len(sent) >= PageSize
             /\ ~TotalRefused(total)
    <2>1. Want(total) \in Nat
        BY <1>7, WantIs
    <2>2. ~TotalRefused(total) /\ ~CountRefused(sent, total) /\ fetched + Len(sent) # Want(total)
        BY <1>2, <1>6, <1>7 DEF Refused, FinalPage
    <2> QED BY <1>5, <2>1, <2>2 DEF CountRefused
<1>8. ~Counts => collector.paged
    BY <1>2, <1>6 DEF FinalPage
<1> QED BY <1>4, <1>7, <1>8

\* A page leaves a board in step that is not changed.
LEMMA FetchStaysInStep ==
    ASSUME CollectorsInv, status = "reading", collector # Generic, Counts, ~collector.unique,
           churned = {}, NEW sent, Part(sent)
    PROVE  /\ Offset = fetched
           /\ fetched + Len(sent) <= Len(board)
           /\ seen \cup Range(sent) = {board[i] : i \in 1..(fetched + Len(sent))}
<1>1. TypeOK /\ Untouched /\ Counted
    BY DEF CollectorsInv
<1>2. page \in Nat /\ fetched \in Nat /\ PageSize \in Nat
    BY <1>1, CollectorsAssumption DEF TypeOK
<1>3. /\ Len(sent) \in Nat /\ Len(board) \in Nat
      /\ Range(sent) = {board[i] : i \in (Offset + 1)..(Offset + Len(sent))}
    BY <1>1, RowsAreOnBoard
<1>4. /\ fetched <= Len(board) /\ seen = {board[i] : i \in 1..fetched}
      /\ Offset = fetched
    <2>1. CASE page = 0
        <3>1. fetched = 0 /\ seen = {}
            BY <1>1, <2>1 DEF Untouched
        <3>2. {board[i] : i \in 1..0} = {}
            OBVIOUS
        <3>3. 0 * PageSize = 0
            BY <1>2
        <3> QED BY <1>3, <2>1, <3>1, <3>2, <3>3 DEF Offset
    <2>2. CASE page > 0
        BY <1>1, <2>2 DEF Counted, InStep, Offset
    <2> QED BY <1>2, <2>1, <2>2
<1>5. fetched + Len(sent) <= Len(board)
    BY <1>2, <1>3, <1>4 DEF Part
<1>6. seen \cup Range(sent) = {board[i] : i \in 1..(fetched + Len(sent))}
    <2>1. 1..(fetched + Len(sent)) = 1..fetched \cup (fetched + 1)..(fetched + Len(sent))
        BY <1>2, <1>3
    <2> QED BY <1>3, <1>4, <2>1
<1> QED BY <1>4, <1>5, <1>6

\* What a page leaves of the total while more are to come.
LEMMA FetchKeepsCount ==
    ASSUME CollectorsInv, status = "reading", collector # Generic, Counts,
           NEW sent, Part(sent),
           collector.paged => Len(sent) <= PageSize \/ Offset + Len(sent) = Len(board),
           NEW total \in Totals, Fetch(sent, total), status' = "reading"
    PROVE  Counted'
<1>1. TypeOK /\ Untouched /\ Counted
    BY DEF CollectorsInv
<1>2. /\ page \in Nat /\ page' = page + 1 /\ fetched' = fetched + Len(sent)
      /\ seen' = seen \cup Range(sent) /\ expected' = Want(total)
      /\ UNCHANGED <<collector, board, kept, churned>>
    BY WantIs DEF Fetch, world
<1>3. /\ Want(total) \in Nat
      /\ page = 0 => expected = None /\ Want(total) = Len(board)
      /\ page > 0 => expected \in Nat /\ Want(total) = expected
    BY WantIs
<1>4. /\ Len(sent) \in Nat /\ Range(sent) \subseteq Range(board) /\ Range(board) \subseteq Postings
      /\ Len(board) \in Nat
    BY <1>1, RowsAreOnBoard
<1>5. SizeTells'
    <2>1. CASE page = 0
        BY <1>1, <1>2, <1>3, <1>4, <2>1 DEF SizeTells, Untouched
    <2>2. CASE page > 0
        BY <1>1, <1>2, <1>3, <2>2 DEF SizeTells, Counted
    <2> QED BY <1>2, <2>1, <2>2
<1>6. ASSUME collector.unique, "added" \notin churned
      PROVE  \E first \in SUBSET Postings :
                 /\ Cardinality(first) = expected'
                 /\ seen' \cup Range(board') \subseteq first
    <2>1. CASE page = 0
        <3>1. seen = {}
            BY <1>1, <2>1 DEF Untouched
        <3>2. Cardinality(Range(board)) = Len(board)
            BY <1>1, SizeOfBoard DEF TypeOK
        <3>3. Range(board) \in SUBSET Postings
            BY <1>4
        <3> WITNESS Range(board) \in SUBSET Postings
        <3> QED BY <1>2, <1>3, <1>4, <2>1, <3>1, <3>2
    <2>2. CASE page > 0
        <3>1. PICK first \in SUBSET Postings :
                  Cardinality(first) = expected /\ seen \cup Range(board) \subseteq first
            BY <1>1, <1>6, <2>2 DEF Counted, FromTheStart
        <3> WITNESS first \in SUBSET Postings
        <3> QED BY <1>2, <1>3, <1>4, <2>2, <3>1
    <2> QED BY <1>2, <2>1, <2>2
<1>7. ASSUME ~collector.unique, churned = {}
      PROVE  /\ fetched' <= Len(board)
             /\ seen' = {board[i] : i \in 1..fetched'}
             /\ collector # ADP => fetched' = page' * PageSize
    <2>1. /\ Offset = fetched /\ fetched + Len(sent) <= Len(board)
          /\ seen \cup Range(sent) = {board[i] : i \in 1..(fetched + Len(sent))}
        BY <1>7, FetchStaysInStep
    <2>2. ASSUME collector # ADP
          PROVE  fetched' = page' * PageSize
        <3>1. /\ collector.paged /\ Len(sent) >= PageSize
              /\ fetched + Len(sent) < Want(total)
            BY FetchGoesOn
        <3>2. PageSize \in Nat /\ fetched \in Nat
            BY <1>1, CollectorsAssumption DEF TypeOK
        <3>3. Want(total) = Len(board)
            BY <1>1, <1>2, <1>3, <1>7 DEF Counted, SizeTells
        <3>4. Len(sent) = PageSize
            BY <1>4, <2>1, <3>1, <3>2, <3>3
        <3>5. fetched = page * PageSize
            BY <2>1, <2>2 DEF Offset
        <3>6. (page + 1) * PageSize = page * PageSize + PageSize
            BY <1>2, <3>2
        <3> QED BY <1>2, <3>4, <3>5, <3>6
    <2> QED BY <1>2, <2>1, <2>2
<1>8. (collector.unique => FromTheStart)'
    BY <1>2, <1>6 DEF FromTheStart
<1>9. (~collector.unique => InStep)'
    BY <1>2, <1>7 DEF InStep
<1> QED BY <1>5, <1>8, <1>9 DEF Counted

\* The page that completes the total completes the board.
LEMMA FetchMissesNothing ==
    ASSUME CollectorsInv, status = "reading", collector # Generic, Counts,
           NEW sent, Part(sent), NEW total \in Totals, Fetch(sent, total),
           status' = "returned", ~Undetectable
    PROVE  kept \subseteq seen'
<1>1. TypeOK /\ Untouched /\ Counted /\ collector \in Collectors /\ kept \subseteq Range(board)
    BY DEF CollectorsInv, TypeOK
<1>2. /\ page \in Nat /\ Want(total) \in Nat
      /\ page = 0 => expected = None /\ Want(total) = Len(board)
      /\ page > 0 => expected \in Nat /\ Want(total) = expected
      /\ collector.total = "every" => total = Len(board)
    BY WantIs
<1>3. /\ fetched + Len(sent) = Want(total) /\ seen' = seen \cup Range(sent)
      /\ ~TotalRefused(total) /\ ~Incomplete(seen', total)
    BY WantIs DEF Fetch, Refused, FinalPage
<1>4. /\ collector.total \in {"first", "every"}
      /\ collector.total = "first" => collector.unique
    BY <1>1, CollectorsAre DEF Counts
<1>5. /\ Range(sent) \subseteq Range(board) /\ Range(board) \subseteq Postings
      /\ Len(board) \in Nat /\ Len(sent) \in Nat
    BY <1>1, RowsAreOnBoard
\* On later pages the total is that of the first.
<1>6. page > 0 /\ collector.total = "every" => Len(board) = expected
    BY <1>2, <1>3, CollectorsAssumption DEF TotalRefused
<1>7. "added" \notin churned
    <2> SUFFICES ASSUME "added" \in churned PROVE FALSE
        OBVIOUS
    <2>1. "removed" \notin churned /\ collector.total = "every"
        BY <1>4 DEF Undetectable
    <2>2. page > 0
        BY <1>1, <1>2 DEF Untouched
    <2>3. Len(board) > expected
        BY <1>1, <2>1, <2>2 DEF Counted, SizeTells
    <2> QED BY <1>2, <1>5, <1>6, <2>1, <2>2, <2>3
<1>8. CASE collector.unique
    <2>1. Cardinality(seen') = Want(total)
        BY <1>3, <1>8 DEF Incomplete
    <2>2. PICK first \in SUBSET Postings :
              Cardinality(first) = Want(total) /\ seen \cup Range(board) \subseteq first
        <3>1. CASE page = 0
            <4>1. Cardinality(Range(board)) = Len(board) /\ seen = {}
                BY <1>1, <3>1, SizeOfBoard DEF TypeOK, Untouched
            <4> QED BY <1>2, <1>5, <3>1, <4>1
        <3>2. CASE page > 0
            BY <1>1, <1>2, <1>7, <1>8, <3>2 DEF Counted, FromTheStart
        <3> QED BY <1>2, <3>1, <3>2
    <2>3. IsFiniteSet(first)
        BY FS_Subset, CollectorsAssumption
    <2>4. seen' \in SUBSET first
        BY <1>3, <1>5, <2>2
    <2>5. seen' = first
        BY <2>1, <2>2, <2>3, <2>4, FS_Subset
    <2> QED BY <1>1, <2>2, <2>5
<1>9. CASE ~collector.unique
    <2>1. collector.total = "every" /\ "moved" \notin churned
        BY <1>4, <1>9 DEF Undetectable
    <2>2. "removed" \notin churned
        <3> SUFFICES ASSUME "removed" \in churned PROVE FALSE
            OBVIOUS
        <3>1. page > 0
            BY <1>1, <1>2 DEF Untouched
        <3>2. Len(board) < expected
            BY <1>1, <1>7, <3>1 DEF Counted, SizeTells
        <3> QED BY <1>2, <1>5, <1>6, <2>1, <3>1, <3>2
    <2>3. churned = {}
        BY <1>1, <1>7, <2>1, <2>2 DEF TypeOK
    <2>4. seen \cup Range(sent) = {board[i] : i \in 1..(fetched + Len(sent))}
        BY <1>9, <2>3, FetchStaysInStep
    <2>5. Want(total) = Len(board)
        BY <1>2, <1>6, <2>1
    <2>6. DOMAIN board = 1..Len(board)
        BY <1>1, LenProperties DEF TypeOK
    <2>7. seen' = Range(board)
        BY <1>3, <2>4, <2>5, <2>6 DEF Range
    <2> QED BY <1>1, <2>7
<1> QED BY <1>8, <1>9

\* A page, whatever it is.
LEMMA FetchKeeps ==
    ASSUME CollectorsInv, FetchPage
    PROVE  CollectorsInv'
<1>1. status = "reading" /\ collector # Generic
    BY DEF FetchPage
<1>2. PICK answer \in Answers, total \in Totals :
          Fetch(answer[1], total) /\ faults' = faults + answer[2]
    BY DEF FetchPage
<1> DEFINE sent == answer[1]
<1>3. TypeOK /\ Untouched /\ ReadAtOnce /\ (Counts => Counted) /\ Taken /\ Identified
      /\ collector \in Collectors
    BY <1>1 DEF CollectorsInv, TypeOK
<1>4. collector.paged \/ page = 0
    BY <1>3, CollectorsAssumption DEF ReadAtOnce, TypeOK
<1>5. /\ Part(sent)
      /\ collector.paged => Len(sent) <= PageSize \/ Offset + Len(sent) = Len(board)
      /\ answer[2] \in {0, 1} /\ (answer[2] = 1 => faults < MaxFaults)
    BY <1>3, <1>4, AnswersAreParts
<1>6. faults' \in 0..MaxFaults
    BY <1>2, <1>3, <1>5, CollectorsAssumption DEF TypeOK
<1> HIDE DEF sent
<1>7. Fetch(sent, total)
    BY <1>2 DEF sent
<1>8. TypeOK' /\ fetched' <= page' * Cardinality(Postings)
    BY <1>1, <1>5, <1>6, <1>7, FetchKeepsType
<1>9. UNCHANGED <<collector, board, kept, churned>>
    BY <1>7 DEF Fetch, world
<1>10. ASSUME status' = "reading"
       PROVE  page' < MaxPages /\ Untouched' /\ ReadAtOnce' /\ (Counts => Counted)'
    <2>1. page' > 0 /\ page' < MaxPages /\ collector.paged
        BY <1>1, <1>5, <1>7, <1>10, FetchGoesOn
    <2>2. page' # 0
        BY <2>1
    <2>3. Counts => Counted'
        BY <1>1, <1>5, <1>7, <1>10, FetchKeepsCount
    <2>4. Counts' <=> Counts
        BY <1>9 DEF Counts
    <2> QED BY <1>9, <2>1, <2>2, <2>3, <2>4 DEF Untouched, ReadAtOnce
<1>11. Taken'
    BY <1>1, <1>3, <1>7, <1>9 DEF Taken, Fetch
<1>12. Identified'
    <2> SUFFICES ASSUME collector.named, status' \in {"reading", "returned"}
                 PROVE  seen' \cap Nameless = {}
        BY <1>9 DEF Identified
    <2>1. ~Refused(sent, total)
        BY <1>7 DEF Fetch
    <2>2. Range(sent) \cap Nameless = {}
        BY <2>1 DEF Refused
    <2> QED BY <1>1, <1>3, <1>7, <2>2 DEF Identified, Fetch
<1>13. NothingMissed'
    <2> SUFFICES ASSUME status' = "returned", Counts', ~Undetectable'
                 PROVE  Listed' \subseteq jobs'
        BY DEF NothingMissed, Counts
    <2>1. Counts /\ ~Undetectable
        BY <1>9 DEF Counts, Undetectable
    <2>2. kept \subseteq seen'
        BY <1>1, <1>5, <1>7, <2>1, FetchMissesNothing
    <2>3. collector.named
        BY <1>3, <2>1, CollectorsAre DEF Counts
    <2>4. seen' \cap Nameless = {}
        BY <1>9, <1>12, <2>3 DEF Identified
    <2>5. jobs' = seen' \ (Untitled \cup Nameless)
        BY <1>1, <1>9, <1>11 DEF Taken
    <2> QED BY <1>9, <2>2, <2>4, <2>5 DEF Listed
<1> QED BY <1>8, <1>10, <1>11, <1>12, <1>13 DEF CollectorsInv

-----------------------------------------------------------------------------
(* The generic collector.                                                  *)

LEMMA ParsedAre ==
    ASSUME NEW cards
    PROVE  Parsed(cards) \subseteq Range(cards) \ (Untitled \cup Nameless)
BY DEF Parsed, Range

\* What a browser renders, and what a plain request finds when it fails, is on the board.
LEMMA CardsAreOnBoard ==
    ASSUME TypeOK, NEW cards, cards \in Cut(board) \cup {board, <<>>}
    PROVE  /\ Len(cards) \in Nat /\ Len(cards) <= Cardinality(Postings)
           /\ Cardinality(Postings) \in Nat /\ Range(cards) \subseteq Postings
<1>1. board \in Seq(Postings) /\ Len(board) \in Nat
    BY LenProperties DEF TypeOK
<1>2. Len(board) <= Cardinality(Postings) /\ Cardinality(Postings) \in Nat
    <2>1. IsFiniteSet(Range(board)) /\ Cardinality(Range(board)) = Len(board)
        BY SizeOfBoard DEF TypeOK
    <2>2. Range(board) \subseteq Postings
        BY <1>1, RangeOfSeq
    <2> QED BY <2>1, <2>2, FS_Subset, FS_CardinalityType, CollectorsAssumption
<1>3. cards \in Seq(Postings) /\ Len(cards) <= Len(board)
    <2>1. CASE cards = board
        BY <1>1, <2>1
    <2>2. CASE cards = <<>>
        BY <1>1, <2>2
    <2>3. CASE cards \in Cut(board)
        <3>1. PICK k \in 0..(Len(board) - 1) : cards = SubSeq(board, 1, k)
            BY <2>3 DEF Cut
        <3>2. \A i \in 1..k : board[i] \in Postings
            BY <1>1, ElementOfSeq
        <3>3. cards \in Seq(Postings) /\ Len(cards) = IF 1 <= k THEN k - 1 + 1 ELSE 0
            BY <1>1, <3>1, <3>2, SubSeqProperties
        <3> QED BY <1>1, <3>3
    <2> QED BY <2>1, <2>2, <2>3
<1> QED
    BY <1>1, <1>2, <1>3, LenProperties, RangeOfSeq

\* A reading by the generic collector is its only one, and counts nothing.
LEMMA GenericKeeps ==
    ASSUME CollectorsInv, status = "reading", collector = Generic,
           NEW cards, cards \in Cut(board) \cup {board, <<>>},
           page' = 1, fetched' = Len(cards), seen' = Range(cards), jobs' = Parsed(cards),
           status' \in {"failed", "partial", "returned"}, faults' \in 0..MaxFaults,
           UNCHANGED <<collector, world, expected>>
    PROVE  CollectorsInv'
<1>1. TypeOK /\ page < MaxPages
    BY DEF CollectorsInv
<1>2. /\ Len(cards) \in Nat /\ Len(cards) <= Cardinality(Postings)
      /\ Cardinality(Postings) \in Nat /\ Range(cards) \subseteq Postings
    BY <1>1, CardsAreOnBoard
<1>3. MaxPages \in Nat /\ 1 <= MaxPages
    BY <1>1, CollectorsAssumption DEF TypeOK
<1>4. fetched' \in 0..(MaxPages * Cardinality(Postings))
    <2> DEFINE C == Cardinality(Postings)  left == MaxPages - 1
    <2>1. left \in Nat /\ MaxPages = 1 + left
        BY <1>3
    <2>2. left * C \in Nat
        BY <1>2, <2>1
    <2>3. MaxPages * C = C + left * C
        BY <1>2, <2>1
    <2> QED BY <1>2, <2>2, <2>3
<1>5. fetched' <= page' * Cardinality(Postings)
    BY <1>2
<1>6. /\ seen' \subseteq Postings /\ jobs' \subseteq seen' \ (Untitled \cup Nameless)
    BY <1>2, ParsedAre
<1>7. UNCHANGED <<collector, board, kept, churned, churn, expected>>
    BY DEF world
<1>8. TypeOK'
    BY <1>1, <1>3, <1>4, <1>6, <1>7 DEF TypeOK
<1>9. Taken' /\ Identified' /\ NothingMissed'
    BY <1>7, GenericIs DEF Taken, Identified, NothingMissed
<1> QED
    BY <1>5, <1>8, <1>9 DEF CollectorsInv

LEMMA RenderKeeps ==
    ASSUME CollectorsInv, RenderPage
    PROVE  CollectorsInv'
<1>1. PICK view \in Views, saysNone \in {FALSE, board = <<>>} :
          \E cards \in Cards(view) : Render(view, cards, saysNone)
    BY DEF RenderPage
<1>2. PICK cards \in Cards(view) : Render(view, cards, saysNone)
    BY <1>1
<1>3. /\ cards \in Cut(board) \cup {board, <<>>}
      /\ view = "list" /\ cards # board => faults < MaxFaults
    BY DEF Cards
<1>4. TypeOK
    BY DEF CollectorsInv
<1>5. faults' \in 0..MaxFaults
    BY <1>2, <1>3, <1>4, CollectorsAssumption DEF Render, TypeOK
<1>6. status' \in {"failed", "partial", "returned"}
    BY <1>2 DEF Render
<1> QED
    BY <1>2, <1>3, <1>5, <1>6, GenericKeeps DEF Render, RenderPage

\* A collection that failed has nothing left to show.
LEMMA FailingKeeps ==
    ASSUME CollectorsInv, status' = "failed",
           UNCHANGED <<collector, world, page, fetched, expected, seen, jobs, faults>>
    PROVE  CollectorsInv'
<1>1. UNCHANGED <<collector, board, kept, churned, churn, page, fetched, expected, seen, jobs,
                  faults>>
    BY DEF world
<1>2. TypeOK' /\ fetched' <= page' * Cardinality(Postings)
    BY <1>1 DEF CollectorsInv, TypeOK
<1>3. Taken' /\ Identified' /\ NothingMissed'
    BY <1>1 DEF CollectorsInv, Taken, Identified, NothingMissed
<1> QED BY <1>2, <1>3 DEF CollectorsInv

LEMMA RenderFailsKeeps ==
    ASSUME CollectorsInv, RenderFails
    PROVE  CollectorsInv'
<1>1. CASE status' = "failed" /\ UNCHANGED <<page, fetched, seen, jobs>>
    BY <1>1, FailingKeeps DEF RenderFails
<1>2. CASE \E cards \in Cut(board) \cup {board} :
              /\ page' = 1 /\ fetched' = Len(cards)
              /\ seen' = Range(cards)
              /\ jobs' = Parsed(cards)
              /\ status' = "partial"
    <2>1. faults' \in 0..MaxFaults
        BY DEF RenderFails, CollectorsInv, TypeOK
    <2> QED BY <1>2, <2>1, GenericKeeps DEF RenderFails
<1> QED BY <1>1, <1>2 DEF RenderFails

-----------------------------------------------------------------------------
(* The board changes while it is read.                                     *)

\* What a change may do to a board, and to those who count.
LEMMA ChangeKeeps ==
    ASSUME CollectorsInv, NEW how \in {"added", "removed", "moved"}, Change(how),
           board' \in Seq(Postings), IsInjective(board'),
           kept' \subseteq kept \cap Range(board'),
           how = "added" => Len(board') = Len(board) + 1,
           how = "removed" => Len(board') = Len(board) - 1 /\ Range(board') \subseteq Range(board),
           how = "moved" => Len(board') = Len(board) /\ Range(board') \subseteq Range(board)
    PROVE  CollectorsInv'
<1>1. TypeOK /\ Untouched /\ ReadAtOnce /\ (Counts => Counted) /\ Taken /\ Identified
      /\ page < MaxPages /\ fetched <= page * Cardinality(Postings)
    BY DEF CollectorsInv, Change
<1>2. /\ status = "reading" /\ page > 0 /\ churned' = churned \cup {how}
      /\ churn' = churn + 1 /\ churn < MaxChurn
      /\ UNCHANGED <<collector, status, page, fetched, expected, seen, jobs, faults>>
    BY DEF Change, found
<1>3. churn' \in 0..MaxChurn
    BY <1>1, <1>2, CollectorsAssumption DEF TypeOK
<1>4. TypeOK'
    BY <1>1, <1>2, <1>3 DEF TypeOK
<1>5. page' # 0
    BY <1>1, <1>2, CollectorsAssumption DEF TypeOK
<1>6. Len(board) \in Nat /\ Len(board') \in Nat
    BY <1>1, LenProperties DEF TypeOK
<1>7. ASSUME Counts
      PROVE  Counted'
    <2>1. Counted
        BY <1>1, <1>7
    <2>2. SizeTells'
        BY <1>2, <1>6, <2>1 DEF Counted, SizeTells
    <2>3. collector.unique => FromTheStart'
        <3> SUFFICES ASSUME collector.unique, "added" \notin churned'
                     PROVE  \E first \in SUBSET Postings :
                                /\ Cardinality(first) = expected'
                                /\ seen' \cup Range(board') \subseteq first
            BY DEF FromTheStart
        <3>1. PICK first \in SUBSET Postings :
                  Cardinality(first) = expected /\ seen \cup Range(board) \subseteq first
            BY <1>2, <2>1 DEF Counted, FromTheStart
        <3>2. Range(board') \subseteq Range(board)
            BY <1>2
        <3> WITNESS first \in SUBSET Postings
        <3> QED BY <1>2, <3>1, <3>2
    <2>4. InStep'
        BY <1>2 DEF InStep
    <2> QED BY <1>2, <2>2, <2>3, <2>4 DEF Counted
<1>8. Taken' /\ Identified' /\ NothingMissed'
    BY <1>1, <1>2 DEF Taken, Identified, NothingMissed
<1>9. Untouched' /\ ReadAtOnce' /\ (Counts => Counted)'
    BY <1>1, <1>2, <1>5, <1>7 DEF Untouched, ReadAtOnce, Counts
<1> QED
    BY <1>1, <1>2, <1>4, <1>8, <1>9 DEF CollectorsInv

LEMMA AddKeeps ==
    ASSUME CollectorsInv, NEW p \in Postings, NEW i \in 1..(Len(board) + 1), Add(p, i)
    PROVE  CollectorsInv'
<1>1. board \in Seq(Postings) /\ IsInjective(board) /\ kept \subseteq Range(board)
    BY DEF CollectorsInv, TypeOK
<1>2. /\ p \notin Range(board) /\ board' = InsertAt(board, i, p) /\ kept' = kept /\ Change("added")
    BY DEF Add
<1>3. /\ board' \in Seq(Postings) /\ IsInjective(board') /\ Len(board') = Len(board) + 1
      /\ Range(board') = Range(board) \cup {p}
    <2> PICK s : s = board
        OBVIOUS
    <2>1. /\ InsertAt(s, i, p) \in Seq(Postings) /\ IsInjective(InsertAt(s, i, p))
          /\ Len(InsertAt(s, i, p)) = Len(s) + 1
          /\ Range(InsertAt(s, i, p)) = Range(s) \cup {p}
        BY <1>1, <1>2, InsertedBoard
    <2> QED BY <1>2, <2>1
<1> QED
    BY <1>1, <1>2, <1>3, ChangeKeeps

LEMMA TakeKeeps ==
    ASSUME CollectorsInv, NEW i \in 1..Len(board), Take(i)
    PROVE  CollectorsInv'
<1>1. board \in Seq(Postings) /\ IsInjective(board) /\ kept \subseteq Range(board)
    BY DEF CollectorsInv, TypeOK
<1>2. board' = RemoveAt(board, i) /\ kept' = kept \ {board[i]} /\ Change("removed")
    BY DEF Take
<1>3. /\ board' \in Seq(Postings) /\ IsInjective(board') /\ Len(board') = Len(board) - 1
      /\ Range(board') = Range(board) \ {board[i]}
    BY <1>1, <1>2, RemovedBoard
<1> QED
    BY <1>1, <1>2, <1>3, ChangeKeeps

LEMMA MoveKeeps ==
    ASSUME CollectorsInv, NEW i \in 1..Len(board), NEW k \in 1..Len(board), Move(i, k)
    PROVE  CollectorsInv'
<1>1. board \in Seq(Postings) /\ IsInjective(board) /\ kept \subseteq Range(board)
      /\ Len(board) \in Nat
    BY LenProperties DEF CollectorsInv, TypeOK
<1>2. /\ board' = InsertAt(RemoveAt(board, i), k, board[i]) /\ kept' = kept
      /\ Change("moved")
    BY DEF Move
<1> PICK rest : rest = RemoveAt(board, i)
    OBVIOUS
<1> PICK p : p = board[i]
    OBVIOUS
<1>3. /\ rest \in Seq(Postings) /\ IsInjective(rest) /\ Len(rest) = Len(board) - 1
      /\ Range(rest) = Range(board) \ {p} /\ p \in Postings /\ p \in Range(board)
    BY <1>1, RemovedBoard
<1>4. k \in 1..(Len(rest) + 1) /\ p \notin Range(rest)
    BY <1>1, <1>3
<1>5. /\ InsertAt(rest, k, p) \in Seq(Postings) /\ IsInjective(InsertAt(rest, k, p))
      /\ Len(InsertAt(rest, k, p)) = Len(rest) + 1
      /\ Range(InsertAt(rest, k, p)) = Range(rest) \cup {p}
    BY <1>3, <1>4, InsertedBoard
<1>6. /\ board' \in Seq(Postings) /\ IsInjective(board') /\ Len(board') = Len(board)
      /\ Range(board') = Range(board)
    BY <1>1, <1>2, <1>3, <1>5
<1> QED
    BY <1>1, <1>2, <1>6, ChangeKeeps

-----------------------------------------------------------------------------
(* Every step.                                                             *)

LEMMA InitEstablishes == Init => CollectorsInv
<1> SUFFICES ASSUME Init PROVE CollectorsInv
    OBVIOUS
<1>1. Cardinality(Postings) \in Nat
    BY FS_CardinalityType, CollectorsAssumption
<1>2. board \in Seq(Postings) /\ IsInjective(board)
    <2>1. PICK n \in 0..Cardinality(Postings) : board \in [1..n -> Postings]
        BY DEF Init, BoundedSeq, SeqOf
    <2> QED BY <1>1, <2>1, SeqDef DEF Init
<1>3. 0 \in 0..Cardinality(Postings) /\ 0 \in 0..(MaxPages * Cardinality(Postings))
      /\ 0 \in 0..MaxPages /\ 0 < MaxPages /\ 0 \in 0..MaxChurn /\ 0 \in 0..MaxFaults
      /\ 0 <= 0 * Cardinality(Postings)
    <2>1. MaxPages * Cardinality(Postings) \in Nat
        BY <1>1, CollectorsAssumption
    <2> QED BY <1>1, <2>1, CollectorsAssumption
<1>4. TypeOK
    BY <1>2, <1>3 DEF Init, TypeOK
<1>5. Untouched /\ ReadAtOnce /\ Counted /\ Taken /\ Identified /\ NothingMissed
    BY DEF Init, Untouched, ReadAtOnce, Counted, Taken, Identified, NothingMissed
<1> QED BY <1>3, <1>4, <1>5 DEF CollectorsInv, Init

LEMMA NextKeeps == CollectorsInv /\ [Next]_vars => CollectorsInv'
<1> SUFFICES ASSUME CollectorsInv, [Next]_vars PROVE CollectorsInv'
    OBVIOUS
<1>1. CASE Churn
    BY <1>1, AddKeeps, TakeKeeps, MoveKeeps DEF Churn
<1>2. CASE FetchPage
    BY <1>2, FetchKeeps
<1>3. CASE FetchFails
    BY <1>3, FailingKeeps DEF FetchFails
<1>4. CASE RenderPage
    BY <1>4, RenderKeeps
<1>5. CASE RenderFails
    BY <1>5, RenderFailsKeeps
<1>6. CASE UNCHANGED vars
    <2>1. UNCHANGED <<collector, board, kept, churned, churn, status, page, fetched, expected,
                      seen, jobs, faults>>
        BY <1>6 DEF vars, world, found
    <2>2. TypeOK' /\ (fetched <= page * Cardinality(Postings))'
        BY <2>1 DEF CollectorsInv, TypeOK
    <2>3. (status = "reading" =>
              /\ page < MaxPages
              /\ Untouched /\ ReadAtOnce
              /\ Counts => Counted)'
        BY <2>1 DEF CollectorsInv, Untouched, ReadAtOnce, Counts, Counted, SizeTells,
                    FromTheStart, InStep
    <2>4. Taken' /\ Identified' /\ NothingMissed'
        BY <2>1 DEF CollectorsInv, Taken, Identified, NothingMissed, Undetectable, Listed
    <2> QED BY <2>2, <2>3, <2>4 DEF CollectorsInv
<1> QED
    BY <1>1, <1>2, <1>3, <1>4, <1>5, <1>6 DEF Next, Over

\* The invariant holds: the total of the first page tells of a reader still at work what
\* became of the board since, and so whether the postings it has are all of them.
THEOREM CollectorsInvariance == Spec => []CollectorsInv
<1>1. Init => CollectorsInv
    BY InitEstablishes
<1>2. CollectorsInv /\ [Next]_vars => CollectorsInv'
    BY NextKeeps
<1> QED BY <1>1, <1>2, PTL DEF Spec

\* Every variable of a collection keeps its type, and no collector reads more pages than
\* it may or returns a posting without a title or an id.
THEOREM CollectorsTypeCorrect == Spec => []TypeOK
<1>1. CollectorsInv => TypeOK
    BY DEF CollectorsInv
<1> QED BY <1>1, CollectorsInvariance, PTL

\* A collector that goes by a total and returns has every posting that was on the board
\* all along, for boards, pages and limits of any size and any number of changes and of
\* pages that are cut short, unless additions made up for what was removed unseen.
THEOREM ReturnedMissesNothing == Spec => []NothingMissed
<1>1. CollectorsInv => NothingMissed
    BY DEF CollectorsInv
<1> QED BY <1>1, CollectorsInvariance, PTL

-----------------------------------------------------------------------------
(* Merging.                                                                *)

\* What of n rows has come to the i-th, for i up to n.
MergesTo(list, m, n) ==
    /\ m \in [1..n -> Rows]
    /\ \A i \in 1..n : m[i] = IF i = 1 THEN list[1] ELSE MergeRows(m[i - 1], list[i])

LEMMA MergeRowsType == \A left, right \in Rows : MergeRows(left, right) \in Rows
<1> SUFFICES ASSUME NEW left \in Rows, NEW right \in Rows PROVE MergeRows(left, right) \in Rows
    OBVIOUS
<1>1. \A best, other \in Rows : Filled(best, other) \in Rows
    BY DEF Filled, Cell, Rows
<1> QED BY <1>1 DEF MergeRows

LEMMA MergesExist ==
    ASSUME NEW list \in Seq(Rows)
    PROVE  \A n \in 0..Len(list) : \E m : MergesTo(list, m, n)
<1> DEFINE Bad == {n \in 0..Len(list) : ~\E m : MergesTo(list, m, n)}
<1> SUFFICES ASSUME Bad # {} PROVE FALSE
    OBVIOUS
<1>0. Len(list) \in Nat /\ \A i \in 1..Len(list) : list[i] \in Rows
    BY LenProperties, ElementOfSeq
<1>1. PICK n \in Bad : \A k \in Bad : ~(k < n)
    <2>1. Bad \subseteq Nat
        BY <1>0
    <2>2. PICK n \in Bad : \A k \in Bad : ~(<<k, n>> \in OpToRel(<, Nat))
        BY <2>1, WFMin, NatLessThanWellFounded
    <2> QED BY <2>1, <2>2 DEF OpToRel
<1>2. n # 0
    <2>1. MergesTo(list, [i \in 1..0 |-> list[1]], 0)
        BY DEF MergesTo
    <2> QED BY <1>1, <2>1
<1>3. n - 1 \in 0..Len(list) /\ n \in 1..Len(list)
    BY <1>0, <1>1, <1>2
<1>4. PICK m : MergesTo(list, m, n - 1)
    BY <1>1, <1>3
<1> DEFINE next == IF n = 1 THEN list[1] ELSE MergeRows(m[n - 1], list[n])
           more == [i \in 1..n |-> IF i = n THEN next ELSE m[i]]
<1>5. next \in Rows
    BY <1>0, <1>3, <1>4, MergeRowsType DEF MergesTo
<1> HIDE DEF next
<1>6. more \in [1..n -> Rows]
    BY <1>3, <1>4, <1>5 DEF MergesTo
<1>7. ASSUME NEW i \in 1..n
      PROVE  more[i] = IF i = 1 THEN list[1] ELSE MergeRows(more[i - 1], list[i])
    BY <1>3, <1>4 DEF MergesTo, next
<1>8. MergesTo(list, more, n)
    BY <1>6, <1>7 DEF MergesTo
<1> QED BY <1>1, <1>8

\* It comes to the same however it is computed.
LEMMA MergeAllIs ==
    ASSUME NEW list \in Seq(Rows), Len(list) > 0
    PROVE  \E m : MergesTo(list, m, Len(list)) /\ MergeAll(list) = m[Len(list)]
<1>1. DOMAIN list = 1..Len(list) /\ Len(list) \in Nat
    BY LenProperties
<1> DEFINE Is(f) == f = [i \in DOMAIN list |-> IF i = 1 THEN list[1] ELSE MergeRows(f[i - 1], list[i])]
<1>2. PICK m : MergesTo(list, m, Len(list))
    BY <1>1, MergesExist
<1>3. Is(m)
    BY <1>1, <1>2 DEF MergesTo
<1> PICK c : c = CHOOSE f : Is(f)
    OBVIOUS
<1>4. Is(c)
    BY <1>3
<1>5. MergeAll(list) = c[Len(list)]
    BY DEF MergeAll
<1>6. \A i \in 1..Len(list) : c[i] = IF i = 1 THEN list[1] ELSE MergeRows(c[i - 1], list[i])
    BY <1>1, <1>4
<1>7. \A i \in 1..Len(list) : c[i] = m[i]
    <2> DEFINE Bad == {i \in 1..Len(list) : c[i] # m[i]}
    <2> SUFFICES ASSUME Bad # {} PROVE FALSE
        OBVIOUS
    <2>1. PICK i \in Bad : \A k \in Bad : ~(k < i)
        <3>1. Bad \subseteq Nat
            BY <1>1
        <3>2. PICK i \in Bad : \A k \in Bad : ~(<<k, i>> \in OpToRel(<, Nat))
            BY <3>1, WFMin, NatLessThanWellFounded
        <3> QED BY <3>1, <3>2 DEF OpToRel
    <2>2. CASE i = 1
        BY <1>2, <1>6, <2>1, <2>2 DEF MergesTo
    <2>3. CASE i # 1
        <3>1. i - 1 \in 1..Len(list) /\ i - 1 < i
            BY <1>1, <2>1, <2>3
        <3>2. c[i - 1] = m[i - 1]
            BY <2>1, <3>1
        <3> QED BY <1>2, <1>6, <2>1, <2>3, <3>2 DEF MergesTo
    <2> QED BY <2>2, <2>3
<1> QED BY <1>1, <1>2, <1>5, <1>7

-----------------------------------------------------------------------------
(* What a group of rows with one key comes to.                             *)

\* A verified website is there.
Earned(r) == r.verified => r.official # Nothing

\* Of rows of a group, one came to q that has no cell of anybody else.
CameOf(group, q, key) ==
    /\ q \in Rows /\ DedupeKey(q) = key /\ Earned(q)
    /\ q.verified => \E r \in group : r.verified /\ r.official = q.official
    /\ q.board # Nothing => \E r \in group : r.board = q.board

LEMMA RowHasKey ==
    ASSUME NEW r \in Rows
    PROVE  /\ r.official # Nothing => DedupeKey(r) = <<"domain", r.official>>
           /\ r.official = Nothing /\ r.known # Nothing => DedupeKey(r) = <<"domain", r.known>>
           /\ r.official = Nothing /\ r.known = Nothing => DedupeKey(r) = <<"name-state", r.name>>
BY DEF DedupeKey, Site

\* Two rows of one key become a row of that key.
LEMMA FilledCameOf ==
    ASSUME NEW group, NEW key, NEW best \in Rows, NEW other \in Rows,
           CameOf(group, best, key), CameOf(group, other, key)
    PROVE  CameOf(group, Filled(best, other), key)
<1> PICK q : q = Filled(best, other)
    OBVIOUS
<1>1. /\ q \in Rows /\ q.name = best.name
      /\ q.known = Cell(best.known, other.known)
      /\ q.official = Cell(best.official, other.official)
      /\ q.verified = (best.verified \/ other.verified)
      /\ q.board = Cell(best.board, other.board)
    BY DEF Filled, Cell, Rows
<1>2. DedupeKey(best) = key /\ DedupeKey(other) = key /\ Earned(best) /\ Earned(other)
    BY DEF CameOf
<1>3. best.official # Nothing /\ other.official # Nothing => best.official = other.official
    BY <1>2, RowHasKey
<1>4. DedupeKey(q) = key
    <2>1. CASE best.official # Nothing
        BY <1>1, <1>2, <2>1, RowHasKey DEF Cell
    <2>2. CASE best.official = Nothing /\ other.official # Nothing
        BY <1>1, <1>2, <2>2, RowHasKey DEF Cell
    <2>3. CASE best.official = Nothing /\ other.official = Nothing
        <3>1. best.known = Nothing <=> other.known = Nothing
            BY <1>2, <2>3, RowHasKey
        <3> QED BY <1>1, <1>2, <2>3, <3>1, RowHasKey DEF Cell
    <2> QED BY <2>1, <2>2, <2>3
<1>5. q.verified => q.official # Nothing /\ \E r \in group : r.verified /\ r.official = q.official
    <2>1. CASE best.verified
        BY <1>1, <1>2, <2>1 DEF Cell, CameOf, Earned
    <2>2. CASE other.verified
        <3>1. q.official = other.official
            BY <1>1, <1>2, <1>3, <2>2 DEF Cell, Earned
        <3> QED BY <1>2, <2>2, <3>1 DEF CameOf, Earned
    <2> QED BY <1>1, <2>1, <2>2
<1>6. q.board # Nothing => \E r \in group : r.board = q.board
    BY <1>1 DEF Cell, CameOf
<1> QED BY <1>1, <1>4, <1>5, <1>6 DEF CameOf, Earned

\* A board of one of two rows is a board of what they become.
LEMMA MergeRowsAre ==
    ASSUME NEW group, NEW key, NEW left \in Rows, NEW right \in Rows,
           CameOf(group, left, key), CameOf(group, right, key)
    PROVE  /\ CameOf(group, MergeRows(left, right), key)
           /\ left.board # Nothing \/ right.board # Nothing => MergeRows(left, right).board # Nothing
<1>1. \A best, other \in Rows : Filled(best, other).board = Cell(best.board, other.board)
    BY DEF Filled
<1> QED BY <1>1, FilledCameOf DEF MergeRows, Cell

\* However a group is merged: its key stays, a mark and a website that it vouches for
\* come from one row, a board comes from a row and is lost with none.
LEMMA GroupMerged ==
    ASSUME NEW group \in SUBSET Rows, NEW key, \A r \in group : DedupeKey(r) = key /\ Earned(r),
           NEW list \in Seq(group), Len(list) > 0
    PROVE  /\ CameOf(group, MergeAll(list), key)
           /\ \A i \in 1..Len(list) : list[i].board # Nothing => MergeAll(list).board # Nothing
<1>1. list \in Seq(Rows) /\ Len(list) \in Nat /\ \A i \in 1..Len(list) : list[i] \in group
    BY LenProperties, ElementOfSeq, SeqMonotonic
<1>2. PICK m : MergesTo(list, m, Len(list)) /\ MergeAll(list) = m[Len(list)]
    BY <1>1, MergeAllIs
<1> DEFINE Good(n) == /\ CameOf(group, m[n], key)
                      /\ \A i \in 1..n : list[i].board # Nothing => m[n].board # Nothing
<1>3. \A r \in group : CameOf(group, r, key)
    BY DEF CameOf
<1>4. \A n \in 1..Len(list) : Good(n)
    <2> DEFINE Bad == {n \in 1..Len(list) : ~Good(n)}
    <2> SUFFICES ASSUME Bad # {} PROVE FALSE
        OBVIOUS
    <2> HIDE DEF Good
    <2>1. PICK n \in Bad : \A k \in Bad : ~(k < n)
        <3>1. Bad \subseteq Nat
            BY <1>1
        <3>2. PICK n \in Bad : \A k \in Bad : ~(<<k, n>> \in OpToRel(<, Nat))
            BY <3>1, WFMin, NatLessThanWellFounded
        <3> QED BY <3>1, <3>2 DEF OpToRel
    <2>2. CASE n = 1
        <3>1. m[1] = list[1] /\ list[1] \in group
            BY <1>1, <1>2, <2>1, <2>2 DEF MergesTo
        <3>2. \A i \in 1..1 : i = 1
            OBVIOUS
        <3>3. Good(1)
            BY <1>3, <3>1, <3>2 DEF Good
        <3> QED BY <2>1, <2>2, <3>3
    <2>3. CASE n # 1
        <3>1. n - 1 \in 1..Len(list) /\ n - 1 < n /\ n \in 1..Len(list)
            BY <1>1, <2>1, <2>3
        <3>2. Good(n - 1)
            BY <2>1, <3>1
        <3>3. m[n] = MergeRows(m[n - 1], list[n]) /\ m[n - 1] \in Rows /\ list[n] \in Rows
            BY <1>1, <1>2, <2>3, <3>1 DEF MergesTo
        <3>4. CameOf(group, m[n - 1], key) /\ CameOf(group, list[n], key)
            BY <1>1, <1>3, <3>1, <3>2 DEF Good
        <3>5. /\ CameOf(group, m[n], key)
              /\ m[n - 1].board # Nothing \/ list[n].board # Nothing => m[n].board # Nothing
            BY <3>3, <3>4, MergeRowsAre
        <3>6. \A i \in 1..n : i \in 1..(n - 1) \/ i = n
            BY <3>1
        <3>7. Good(n)
            BY <3>2, <3>5, <3>6 DEF Good
        <3> QED BY <2>1, <3>7
    <2> QED BY <2>2, <2>3
<1> HIDE DEF Good
<1>5. Good(Len(list))
    BY <1>1, <1>4
<1> QED BY <1>2, <1>5 DEF Good

\* What rows come to when duplicates are merged: each key has one row, which came of
\* the rows of its key, and lost no board of them.
LEMMA DedupedAre ==
    ASSUME NEW sent \in SUBSET Rows, IsFiniteSet(sent), \A r \in sent : Earned(r),
           NEW result \in Deduped(sent)
    PROVE  /\ result \subseteq Rows /\ IsFiniteSet(result)
           /\ \A q, p \in result : DedupeKey(q) = DedupeKey(p) => q = p
           /\ \A q \in result : Earned(q) /\ CameOf(sent, q, DedupeKey(q))
           /\ \A r \in sent : \E q \in result :
                 /\ DedupeKey(q) = DedupeKey(r)
                 /\ CameOf({s \in sent : DedupeKey(s) = DedupeKey(r)}, q, DedupeKey(r))
                 /\ r.board # Nothing => q.board # Nothing
<1> DEFINE Group(key) == {r \in sent : DedupeKey(r) = key}
           Merges(key) == {MergeAll(list) : list \in SetToSeqs(Group(key))}
           keys == {DedupeKey(r) : r \in sent}
<1>1. PICK pick : /\ result = {pick[key] : key \in keys}
                  /\ DOMAIN pick = keys
                  /\ \A key \in keys : pick[key] \in Merges(key)
    BY DEF Deduped
<1>2. ASSUME NEW key \in keys
      PROVE  /\ CameOf(Group(key), pick[key], key)
             /\ \A r \in Group(key) : r.board # Nothing => pick[key].board # Nothing
    <2> PICK group : group = Group(key)
        OBVIOUS
    <2>1. /\ group \in SUBSET Rows /\ IsFiniteSet(group) /\ group # {}
          /\ \A r \in group : DedupeKey(r) = key /\ Earned(r)
        <3>1. group \in SUBSET sent /\ group # {}
            OBVIOUS
        <3> QED BY <3>1, FS_Subset
    <2>2. PICK list \in SetToSeqs(group) : pick[key] = MergeAll(list)
        BY <1>1
    <2>3. /\ Cardinality(group) \in Nat /\ list \in [1..Cardinality(group) -> group]
          /\ \A i, j \in 1..Cardinality(group) : i # j => list[i] # list[j]
        BY <2>1, <2>2, FS_CardinalityType DEF SetToSeqs
    <2>4. list \in Seq(group) /\ Len(list) = Cardinality(group)
        <3>1. PICK n \in Nat : n = Cardinality(group)
            BY <2>3
        <3>2. list \in [1..n -> group]
            BY <2>3, <3>1
        <3>3. list \in Seq(group)
            BY <3>2, SeqDef
        <3>4. Len(list) = n
            BY <3>1, <3>2, <3>3, LenProperties
        <3> QED BY <3>1, <3>3, <3>4
    <2>5. Len(list) > 0
        BY <2>1, <2>3, <2>4, FS_EmptySet
    <2>6. \A r \in group : \E i \in 1..Len(list) : list[i] = r
        <3>1. list \in Injection(1..Cardinality(group), group)
            BY <2>3 DEF Injection, IsInjective
        <3>2. IsFiniteSet(1..Cardinality(group)) /\ Cardinality(1..Cardinality(group)) = Cardinality(group)
            BY <2>3, FS_Interval
        <3>3. list \in Surjection(1..Cardinality(group), group)
            BY <2>1, <3>1, <3>2, FS_Injection
        <3> QED BY <2>4, <3>3 DEF Surjection
    <2>7. /\ CameOf(group, MergeAll(list), key)
          /\ \A i \in 1..Len(list) : list[i].board # Nothing => MergeAll(list).board # Nothing
        BY <2>1, <2>4, <2>5, GroupMerged
    <2> QED BY <2>2, <2>6, <2>7
<1>3. \A r \in sent : DedupeKey(r) \in keys /\ r \in Group(DedupeKey(r))
    OBVIOUS
<1> HIDE DEF Merges
<1>4. \A key \in keys : pick[key] \in Rows /\ DedupeKey(pick[key]) = key /\ Earned(pick[key])
    BY <1>2 DEF CameOf
<1>5. IsFiniteSet(result)
    <2> DEFINE one == [r \in sent |-> pick[DedupeKey(r)]]
    <2>1. one \in Surjection(sent, result)
        BY <1>1, <1>3 DEF Surjection
    <2> QED BY <2>1, FS_Surjection
<1>6. \A q \in result : \E key \in keys : q = pick[key]
    BY <1>1
<1> HIDE DEF keys
<1>7. result \subseteq Rows /\ \A q, p \in result : DedupeKey(q) = DedupeKey(p) => q = p
    BY <1>4, <1>6
<1>8. \A q \in result : Earned(q) /\ CameOf(sent, q, DedupeKey(q))
    <2> SUFFICES ASSUME NEW q \in result PROVE Earned(q) /\ CameOf(sent, q, DedupeKey(q))
        OBVIOUS
    <2>1. PICK key \in keys : q = pick[key]
        BY <1>6
    <2>2. CameOf(Group(key), q, key) /\ DedupeKey(q) = key
        BY <1>2, <1>4, <2>1
    <2>3. Group(key) \subseteq sent
        OBVIOUS
    <2> QED BY <2>2, <2>3 DEF CameOf
<1>9. ASSUME NEW r \in sent
      PROVE  \E q \in result :
                 /\ DedupeKey(q) = DedupeKey(r)
                 /\ CameOf(Group(DedupeKey(r)), q, DedupeKey(r))
                 /\ r.board # Nothing => q.board # Nothing
    <2>1. DedupeKey(r) \in keys /\ r \in Group(DedupeKey(r))
        BY <1>3
    <2>2. pick[DedupeKey(r)] \in result
        BY <1>1, <2>1
    <2> QED BY <1>2, <1>4, <2>1, <2>2
<1> QED BY <1>5, <1>7, <1>8, <1>9

-----------------------------------------------------------------------------
(* The inductive invariant.                                                *)

\* Commands on the rows of the workbook work on each of them.
Edits == {"fill", "repair", "audit"}

\* Rows are finitely many, and of a key there is one.
SheetApart ==
    /\ IsFiniteSet(sheet)
    /\ \A r, s \in sheet : DedupeKey(r) = DedupeKey(s) => r = s

\* No row vouches for a website that is not there.
AllEarned ==
    /\ \A r \in sheet : Earned(r)
    /\ \A item \in DOMAIN work : Earned(work[item])

\* An edit has the rows of the workbook at hand.  Until it writes them a fill has left
\* the websites, a repair the boards, and without force neither replaced a board.
AtHand ==
    /\ command.op = "none" => DOMAIN work = {}
    /\ command.op = "enrich" => DOMAIN work \subseteq Inputs
    /\ command.op \in Edits =>
          /\ DOMAIN work = sheet
          /\ \A r \in sheet :
                /\ command.op = "fill" => DedupeKey(work[r]) = DedupeKey(r)
                /\ command.op # "fill" => work[r].board = r.board
                /\ ~command.force /\ r.board # Nothing => work[r].board = r.board

ToolsInv == ToolsTypeOK /\ SheetApart /\ AllEarned /\ AtHand

-----------------------------------------------------------------------------
(* Every step.                                                             *)

LEMMA ToolsInitEstablishes == ToolsInit => ToolsInv
<1> SUFFICES ASSUME ToolsInit PROVE ToolsInv
    OBVIOUS
<1>1. DOMAIN work = {}
    BY DEF ToolsInit
<1>2. commands \in 0..MaxCommands
    BY ToolsAssumption DEF ToolsInit
<1>3. SheetApart
    BY FS_EmptySet DEF ToolsInit, SheetApart
<1> QED
    BY <1>1, <1>2, <1>3 DEF ToolsInit, ToolsInv, ToolsTypeOK, AllEarned, AtHand, NoCommand, Edits

\* A command starts with rows as they are, or with none but what it is to look up.
LEMMA StartsKeeps ==
    ASSUME ToolsInv, NEW op \in Edits \cup {"enrich"}, NEW force \in BOOLEAN, NEW dry \in BOOLEAN,
           NEW items, NEW looked \in SUBSET DOMAIN items,
           DOMAIN items \subseteq Rows \cup Inputs,
           \A item \in DOMAIN items : items[item] \in Rows /\ Earned(items[item]),
           op = "enrich" => DOMAIN items \subseteq Inputs,
           op \in Edits => DOMAIN items = sheet /\ \A r \in sheet : items[r] = r,
           Starts(op, force, dry, items, looked)
    PROVE  ToolsInv'
<1>1. /\ commands' = commands + 1 /\ commands < MaxCommands /\ commands \in 0..MaxCommands
      /\ command' = [op |-> op, force |-> force, dry |-> dry]
      /\ work' = items /\ todo' = looked /\ sheet' = sheet
    BY DEF Starts, ToolsInv, ToolsTypeOK
<1>2. commands' \in 0..MaxCommands
    BY <1>1, ToolsAssumption
<1>3. command' \in Commands /\ command'.op = op /\ command'.op # "none"
    BY <1>1 DEF Commands, Edits
<1>4. ToolsTypeOK'
    BY <1>1, <1>2, <1>3 DEF ToolsInv, ToolsTypeOK
<1>5. SheetApart' /\ AllEarned'
    BY <1>1 DEF ToolsInv, SheetApart, AllEarned
<1>6. AtHand'
    BY <1>1, <1>3 DEF AtHand, Edits
<1> QED BY <1>4, <1>5, <1>6 DEF ToolsInv

LEMMA EditStarts ==
    ASSUME ToolsInv, StartFill \/ StartRepair \/ StartAudit
    PROVE  ToolsInv'
<1>1. PICK op \in Edits, force \in BOOLEAN, dry \in BOOLEAN, some \in SUBSET sheet :
          Starts(op, force, dry, Unread, some)
    BY DEF StartFill, StartRepair, StartAudit, Edits
<1>2. DOMAIN Unread = sheet /\ \A r \in sheet : Unread[r] = r
    BY DEF Unread
<1>3. \A r \in sheet : r \in Rows /\ Earned(r)
    BY DEF ToolsInv, ToolsTypeOK, AllEarned
<1>4. "enrich" \notin Edits
    BY DEF Edits
<1> QED BY <1>1, <1>2, <1>3, <1>4, StartsKeeps

LEMMA BlankIs == \A c \in Inputs : Blank(c) \in Rows /\ Earned(Blank(c))
BY ToolsAssumption DEF Blank, Rows, Earned

LEMMA EnrichStarts ==
    ASSUME ToolsInv, StartEnrich
    PROVE  ToolsInv'
<1>1. PICK force \in BOOLEAN, some \in SUBSET Inputs :
          Starts("enrich", force, FALSE, [c \in some |-> Blank(c)], some)
    BY DEF StartEnrich
<1> PICK items : items = [c \in some |-> Blank(c)]
    OBVIOUS
<1>2. /\ DOMAIN items = some /\ "enrich" \notin Edits
      /\ \A c \in some : items[c] \in Rows /\ Earned(items[c])
    BY BlankIs DEF Edits
<1>3. Starts("enrich", force, FALSE, items, some)
    BY <1>1
<1> QED BY <1>2, <1>3, StartsKeeps

\* A row that is looked up is replaced by one that vouches only for what is there.
LEMMA LookedKeeps ==
    ASSUME ToolsInv, command.op \in Edits \cup {"enrich"}, NEW item, NEW row \in Rows, Earned(row),
           command.op \in Edits /\ item \in sheet =>
               /\ command.op = "fill" => DedupeKey(row) = DedupeKey(item)
               /\ command.op # "fill" => row.board = item.board
               /\ ~command.force /\ item.board # Nothing => row.board = item.board,
           Looked(item, row)
    PROVE  ToolsInv'
<1>1. /\ item \in DOMAIN work /\ todo' = todo \ {item}
      /\ UNCHANGED <<sheet, command, commands>>
    BY DEF Looked, ToolsInv, ToolsTypeOK
<1>2. DOMAIN work' = DOMAIN work
    BY DEF Looked
<1>3. \A x \in DOMAIN work : work'[x] = work[x] \/ (x = item /\ work'[x] = row)
    <2>1. work' = [work EXCEPT ![item] = IF command.dry THEN work[item] ELSE row]
        BY DEF Looked
    <2> QED BY <1>1, <2>1
<1>4. ToolsTypeOK'
    BY <1>1, <1>2, <1>3 DEF ToolsInv, ToolsTypeOK
<1>5. SheetApart' /\ AllEarned'
    BY <1>1, <1>2, <1>3 DEF ToolsInv, SheetApart, AllEarned
<1>6. AtHand'
    BY <1>1, <1>2, <1>3 DEF ToolsInv, AtHand
<1> QED BY <1>4, <1>5, <1>6 DEF ToolsInv

\* A lookup finds a board, and touches nothing else.
LEMMA LookUpBoardKeeps ==
    ASSUME ToolsInv, NEW r \in todo, LookUpBoard(r)
    PROVE  ToolsInv'
<1>1. command.op = "fill" /\ r \in sheet /\ r \in Rows /\ Earned(r)
    BY DEF LookUpBoard, ToolsInv, ToolsTypeOK, AtHand, Edits, AllEarned
<1>2. PICK hit \in Found : Looked(r, [r EXCEPT !.board =
                  IF LeavesBoard(r) \/ hit = Nothing THEN r.board ELSE hit])
    BY DEF LookUpBoard
<1> PICK target : target = IF LeavesBoard(r) \/ hit = Nothing THEN r.board ELSE hit
    OBVIOUS
<1> PICK row : row = [r EXCEPT !.board = target]
    OBVIOUS
<1>3. target \in Boards \cup {Nothing}
    BY <1>1 DEF Found, Fit, Rows
<1>4. /\ row \in Rows /\ row.board = target /\ row.official = r.official /\ row.known = r.known
      /\ row.name = r.name /\ row.verified = r.verified
    BY <1>1, <1>3 DEF Rows
<1>5. Earned(row) /\ DedupeKey(row) = DedupeKey(r)
    BY <1>1, <1>4 DEF Earned, DedupeKey, Site
<1>6. ~command.force /\ r.board # Nothing => row.board = r.board
    BY <1>4 DEF LeavesBoard
<1>7. Looked(r, row)
    BY <1>2
<1> QED BY <1>1, <1>4, <1>5, <1>6, <1>7, LookedKeeps DEF Edits

\* A repair changes what a row says of its website, and no target.
LEMMA RepairSiteKeeps ==
    ASSUME ToolsInv, NEW r \in todo, RepairSite(r)
    PROVE  ToolsInv'
<1>1. command.op = "repair" /\ r \in sheet /\ r \in Rows /\ Earned(r)
    BY DEF RepairSite, ToolsInv, ToolsTypeOK, AtHand, Edits, AllEarned
<1>2. PICK row : /\ Looked(r, row)
                 /\ \/ row = r
                    \/ row = [r EXCEPT !.verified = FALSE]
                    \/ \E site \in Sites : row = [r EXCEPT !.official = site, !.verified = TRUE,
                                                           !.recent = TRUE]
    BY DEF RepairSite
<1>3. row \in Rows /\ Earned(row) /\ row.board = r.board
    <2>1. CASE row = r
        BY <1>1, <2>1
    <2>2. CASE row = [r EXCEPT !.verified = FALSE]
        BY <1>1, <2>2 DEF Rows, Earned
    <2>3. CASE \E site \in Sites : row = [r EXCEPT !.official = site, !.verified = TRUE,
                                                    !.recent = TRUE]
        <3>1. PICK site \in Sites : row = [r EXCEPT !.official = site, !.verified = TRUE,
                                                    !.recent = TRUE]
            BY <2>3
        <3>2. row \in Rows /\ row.board = r.board /\ row.official = site
            BY <1>1, <3>1 DEF Rows
        <3> QED BY <3>2, ToolsAssumption DEF Earned
    <2> QED BY <1>2, <2>1, <2>2, <2>3
<1> QED BY <1>1, <1>2, <1>3, LookedKeeps DEF Edits

LEMMA EnrichCompanyKeeps ==
    ASSUME ToolsInv, NEW c \in todo, EnrichCompany(c)
    PROVE  ToolsInv'
<1>1. command.op = "enrich" /\ c \in Inputs /\ "enrich" \notin Edits
    BY DEF EnrichCompany, ToolsInv, ToolsTypeOK, AtHand, Edits
<1>2. PICK row : /\ Looked(c, row)
                 /\ \/ row = Blank(c)
                    \/ \E site \in Sites, target \in Boards \cup {Nothing} :
                          row = [Blank(c) EXCEPT !.official = site, !.verified = TRUE,
                                                 !.board = target]
    BY DEF EnrichCompany
<1>3. row \in Rows /\ Earned(row)
    <2>1. CASE row = Blank(c)
        BY <1>1, <2>1, BlankIs
    <2>2. CASE \E site \in Sites, target \in Boards \cup {Nothing} :
                  row = [Blank(c) EXCEPT !.official = site, !.verified = TRUE, !.board = target]
        <3>1. PICK site \in Sites, target \in Boards \cup {Nothing} :
                  row = [Blank(c) EXCEPT !.official = site, !.verified = TRUE, !.board = target]
            BY <2>2
        <3>2. Blank(c) \in Rows
            BY <1>1, BlankIs
        <3>3. row \in Rows /\ row.official = site
            BY <3>1, <3>2 DEF Rows
        <3> QED BY <3>3, ToolsAssumption DEF Earned
    <2> QED BY <1>2, <2>1, <2>2
<1> QED BY <1>1, <1>2, <1>3, LookedKeeps

\* What is merged is made of rows that vouch for what is there.
LEMMA MergingIs ==
    ASSUME ToolsInv
    PROVE  Merging \subseteq Rows /\ IsFiniteSet(Merging) /\ \A r \in Merging : Earned(r)
<1>1. InMemory \subseteq Rows /\ \A r \in InMemory : Earned(r)
    BY DEF InMemory, ToolsInv, ToolsTypeOK, AllEarned
<1>2. command.op \in Edits \cup {"enrich", "none"}
    BY DEF ToolsInv, ToolsTypeOK, Commands, NoCommand, Edits
<1>3. IsFiniteSet(DOMAIN work)
    BY <1>2, FS_EmptySet, FS_Subset, ToolsAssumption DEF ToolsInv, AtHand, SheetApart
<1>4. IsFiniteSet(InMemory)
    <2> DEFINE row == [item \in DOMAIN work |-> work[item]]
    <2>1. row \in Surjection(DOMAIN work, InMemory)
        BY DEF Surjection, InMemory
    <2> QED BY <1>3, <2>1, FS_Surjection
<1>5. IsFiniteSet(sheet \cup InMemory)
    BY <1>4, FS_Union DEF ToolsInv, SheetApart
<1> QED
    BY <1>1, <1>4, <1>5 DEF Merging, ToolsInv, ToolsTypeOK, AllEarned

LEMMA WriteMasterKeeps ==
    ASSUME ToolsInv, WriteMaster
    PROVE  ToolsInv'
<1>1. /\ sheet' \in Deduped(Merging) /\ command' = NoCommand /\ work' = <<>> /\ todo = {}
      /\ UNCHANGED <<commands, todo>>
    BY DEF WriteMaster, CommandOver
<1>2. DOMAIN work' = {}
    BY <1>1
<1>3. /\ sheet' \subseteq Rows /\ IsFiniteSet(sheet')
      /\ \A q, p \in sheet' : DedupeKey(q) = DedupeKey(p) => q = p
      /\ \A q \in sheet' : Earned(q)
    BY <1>1, MergingIs, DedupedAre
<1>4. command'.op = "none"
    BY <1>1 DEF NoCommand
<1>5. ToolsTypeOK'
    BY <1>1, <1>2, <1>3 DEF ToolsInv, ToolsTypeOK
<1>6. SheetApart' /\ AllEarned' /\ AtHand'
    BY <1>2, <1>3, <1>4 DEF SheetApart, AllEarned, AtHand, Edits
<1> QED BY <1>5, <1>6 DEF ToolsInv

\* A command that is over without writing leaves the workbook.
LEMMA OverKeeps ==
    ASSUME ToolsInv, CommandOver, sheet' = sheet, todo' = {}
    PROVE  ToolsInv'
<1>1. command' = NoCommand /\ DOMAIN work' = {} /\ commands' = commands
    BY DEF CommandOver
<1>2. command'.op = "none"
    BY <1>1 DEF NoCommand
<1>3. ToolsTypeOK'
    BY <1>1 DEF ToolsInv, ToolsTypeOK
<1>4. SheetApart' /\ AllEarned' /\ AtHand'
    BY <1>1, <1>2 DEF ToolsInv, SheetApart, AllEarned, AtHand, Edits
<1> QED BY <1>3, <1>4 DEF ToolsInv

LEMMA DaysPassKeeps ==
    ASSUME ToolsInv, DaysPass
    PROVE  ToolsInv'
<1> DEFINE Older(r) == [r EXCEPT !.recent = FALSE]
<1>1. /\ command = NoCommand /\ sheet' = {Older(r) : r \in sheet}
      /\ UNCHANGED <<command, work, todo, commands>>
    BY DEF DaysPass
<1>2. ASSUME NEW r \in sheet
      PROVE  Older(r) \in Rows /\ Earned(Older(r)) /\ DedupeKey(Older(r)) = DedupeKey(r)
    <2>1. r \in Rows /\ Earned(r)
        BY DEF ToolsInv, ToolsTypeOK, AllEarned
    <2>2. /\ Older(r) \in Rows /\ Older(r).official = r.official /\ Older(r).known = r.known
          /\ Older(r).name = r.name /\ Older(r).verified = r.verified
        BY <2>1 DEF Rows
    <2> HIDE DEF Older
    <2> QED BY <2>1, <2>2 DEF Earned, DedupeKey, Site
<1> HIDE DEF Older
<1>3. \A q \in sheet' : \E r \in sheet : q = Older(r)
    BY <1>1
<1>4. SheetApart'
    <2> DEFINE older == [r \in sheet |-> Older(r)]
    <2>1. older \in Surjection(sheet, sheet')
        BY <1>1 DEF Surjection
    <2>2. IsFiniteSet(sheet')
        BY <2>1, FS_Surjection DEF ToolsInv, SheetApart
    <2>3. \A q, p \in sheet' : DedupeKey(q) = DedupeKey(p) => q = p
        BY <1>2, <1>3 DEF ToolsInv, SheetApart
    <2> QED BY <2>2, <2>3 DEF SheetApart
<1>5. ToolsTypeOK' /\ AllEarned'
    BY <1>1, <1>2, <1>3 DEF ToolsInv, ToolsTypeOK, AllEarned
<1>6. AtHand'
    BY <1>1 DEF ToolsInv, AtHand, NoCommand, Edits
<1> QED BY <1>4, <1>5, <1>6 DEF ToolsInv

LEMMA ToolsNextKeeps == ToolsInv /\ [ToolsNext]_toolsVars => ToolsInv'
<1> SUFFICES ASSUME ToolsInv, [ToolsNext]_toolsVars PROVE ToolsInv'
    OBVIOUS
<1>1. CASE StartFill \/ StartRepair \/ StartAudit
    BY <1>1, EditStarts
<1>2. CASE StartEnrich
    BY <1>2, EnrichStarts
<1>3. CASE \E item \in todo : LookUpBoard(item) \/ RepairSite(item) \/ EnrichCompany(item)
    BY <1>3, LookUpBoardKeeps, RepairSiteKeeps, EnrichCompanyKeeps
<1>4. CASE WriteMaster
    BY <1>4, WriteMasterKeeps
<1>5. CASE DryRunEnds \/ CommandStops
    BY <1>5, OverKeeps DEF DryRunEnds, CommandStops
<1>6. CASE DaysPass
    BY <1>6, DaysPassKeeps
<1>7. CASE UNCHANGED toolsVars
    BY <1>7 DEF toolsVars, ToolsInv, ToolsTypeOK, SheetApart, AllEarned, AtHand
<1> QED
    BY <1>1, <1>2, <1>3, <1>4, <1>5, <1>6, <1>7 DEF ToolsNext

\* The invariant holds: what a command has at hand differs from the workbook only in
\* what the command may change, and a key has one row.
THEOREM ToolsInvariance == ToolsSpec => []ToolsInv
<1>1. ToolsInit => ToolsInv
    BY ToolsInitEstablishes
<1>2. ToolsInv /\ [ToolsNext]_toolsVars => ToolsInv'
    BY ToolsNextKeeps
<1> QED BY <1>1, <1>2, PTL DEF ToolsSpec

\* Every variable of the workbook and of a command keeps its type.
THEOREM ToolsTypeCorrect == ToolsSpec => []ToolsTypeOK
<1>1. ToolsInv => ToolsTypeOK
    BY DEF ToolsInv
<1> QED BY <1>1, ToolsInvariance, PTL

\* While a command runs, only WriteMaster changes the workbook.
LEMMA OnlyWritten ==
    ASSUME [ToolsNext]_toolsVars, command # NoCommand, sheet' # sheet
    PROVE  WriteMaster
BY DEF ToolsNext, toolsVars, StartFill, StartRepair, StartAudit, StartEnrich, Starts, Looked,
       LookUpBoard, RepairSite, EnrichCompany, DryRunEnds, CommandStops, CommandOver, DaysPass

\* However rows are repaired and merged, the mark that a website was verified is that of
\* a row of this website: for any names, websites, boards and numbers of duplicates.
THEOREM MarksAreEarned == ToolsSpec => VerifiedIsEarned
<1>1. ToolsInv /\ [ToolsNext]_toolsVars =>
          (command # NoCommand =>
              \A q \in sheet' \ sheet : q.verified =>
                  \E r \in Merging : r.verified /\ r.official = q.official)
    <2> SUFFICES ASSUME ToolsInv, [ToolsNext]_toolsVars, command # NoCommand,
                        NEW q \in sheet' \ sheet, q.verified
                 PROVE  \E r \in Merging : r.verified /\ r.official = q.official
        OBVIOUS
    <2>1. sheet' \in Deduped(Merging)
        BY OnlyWritten DEF WriteMaster
    <2>2. CameOf(Merging, q, DedupeKey(q))
        BY <2>1, MergingIs, DedupedAre
    <2> QED BY <2>2 DEF CameOf
<1> QED BY <1>1, ToolsInvariance, PTL DEF ToolsSpec, VerifiedIsEarned

\* Without --force no edit of the workbook loses the board of a row: the row it comes to
\* has the board of one of the rows that came to it.
THEOREM BoardsStay == ToolsSpec => StoredBoardsStay
<1>1. ToolsInv /\ [ToolsNext]_toolsVars =>
          (command.op \in {"fill", "repair", "audit"} /\ ~command.force /\ sheet' # sheet =>
              \A r \in sheet : r.board # Nothing =>
                  LET twins == {s \in sheet : DedupeKey(work[s]) = DedupeKey(work[r])}
                  IN  \E q \in sheet' : /\ DedupeKey(q) = DedupeKey(work[r])
                                        /\ q.board \in {s.board : s \in twins} \ {Nothing})
    <2> SUFFICES ASSUME ToolsInv, [ToolsNext]_toolsVars, command.op \in Edits, ~command.force,
                        sheet' # sheet, NEW r \in sheet, r.board # Nothing
                 PROVE  \E q \in sheet' : /\ DedupeKey(q) = DedupeKey(work[r])
                                          /\ q.board # Nothing
                                          /\ \E s \in sheet : /\ DedupeKey(work[s]) = DedupeKey(work[r])
                                                              /\ s.board = q.board
        BY DEF Edits
    <2>1. command # NoCommand /\ command.op # "enrich"
        BY DEF NoCommand, Edits
    <2>2. sheet' \in Deduped(InMemory) /\ Merging = InMemory
        BY <2>1, OnlyWritten DEF WriteMaster, Merging
    <2>3. DOMAIN work = sheet /\ work[r] \in InMemory /\ work[r].board = r.board
        BY DEF ToolsInv, AtHand, InMemory
    <2> DEFINE key == DedupeKey(work[r])  group == {g \in InMemory : DedupeKey(g) = key}
    <2>4. PICK q \in sheet' : /\ DedupeKey(q) = key /\ CameOf(group, q, key)
                              /\ work[r].board # Nothing => q.board # Nothing
        BY <2>2, <2>3, MergingIs, DedupedAre
    <2> HIDE DEF group, key
    <2>5. PICK g \in group : g.board = q.board
        BY <2>3, <2>4 DEF CameOf
    <2>6. PICK s \in sheet : g = work[s] /\ DedupeKey(work[s]) = key
        BY <2>3, <2>5 DEF InMemory, group
    <2>7. s.board = q.board
        <3>1. CASE command.op = "fill"
            BY <2>3, <2>5, <2>6, <3>1 DEF ToolsInv, AtHand, SheetApart, Edits, key
        <3>2. CASE command.op # "fill"
            BY <2>5, <2>6, <3>2 DEF ToolsInv, AtHand
        <3> QED BY <3>1, <3>2
    <2> QED BY <2>3, <2>4, <2>6, <2>7 DEF key
<1> QED BY <1>1, ToolsInvariance, PTL DEF ToolsSpec, StoredBoardsStay

-----------------------------------------------------------------------------
(* Steps along a list.                                                     *)

\* What holds of 0, and of a number when it holds of the one before, holds up to N.
LEMMA UpTo ==
    ASSUME NEW N \in Nat, NEW S, 0 \in S, \A n \in 1..N : n - 1 \in S => n \in S
    PROVE  \A n \in 0..N : n \in S
<1> DEFINE Bad == {n \in 0..N : n \notin S}
<1> SUFFICES ASSUME Bad # {} PROVE FALSE
    OBVIOUS
<1>1. PICK n \in Bad : \A k \in Bad : ~(k < n)
    <2>1. Bad \subseteq Nat
        OBVIOUS
    <2>2. PICK n \in Bad : \A k \in Bad : ~(<<k, n>> \in OpToRel(<, Nat))
        BY <2>1, WFMin, NatLessThanWellFounded
    <2> QED BY <2>1, <2>2 DEF OpToRel
<1>2. n \in 1..N /\ n - 1 \in 0..N /\ n - 1 < n
    BY <1>1
<1> QED BY <1>1, <1>2

\* f is what G makes of a, step by step.
StepsTo(f, A, a, G, n) ==
    f \in [0..n -> A] /\ f[0] = a /\ \A i \in 1..n : f[i] = G[<<f[i - 1], i>>]

\* What is computed step by step along a list is well defined.
LEMMA StepsExist ==
    ASSUME NEW A, NEW a \in A, NEW N \in Nat, NEW G \in [A \X (1..N) -> A]
    PROVE  \E f : StepsTo(f, A, a, G, N)
<1> DEFINE Steps(f, n) == StepsTo(f, A, a, G, n)
           S == {n \in 0..N : \E f : Steps(f, n)}
<1>1. 0 \in S
    <2>1. Steps([i \in 0..0 |-> a], 0)
        BY DEF StepsTo
    <2> HIDE DEF Steps
    <2>2. 0 \in 0..N
        OBVIOUS
    <2> QED BY <2>1, <2>2
<1>2. ASSUME NEW n \in 1..N, n - 1 \in S PROVE n \in S
    <2>1. PICK f : Steps(f, n - 1)
        BY <1>2
    <2> USE DEF StepsTo
    <2>2. n - 1 \in 0..(n - 1) /\ f[n - 1] \in A
        BY <2>1
    <2> DEFINE next == G[<<f[n - 1], n>>]
               g == [i \in 0..n |-> IF i = n THEN next ELSE f[i]]
    <2>3. next \in A
        BY <2>2
    <2> HIDE DEF next
    <2>4. \A i \in 0..n : i # n => i \in 0..(n - 1)
        OBVIOUS
    <2>5. g \in [0..n -> A]
        BY <2>1, <2>3, <2>4
    <2>6. g[0] = a
        BY <2>1
    <2>7. ASSUME NEW i \in 1..n PROVE g[i] = G[<<g[i - 1], i>>]
        <3>1. i - 1 \in 0..n /\ i - 1 # n /\ g[i - 1] = f[i - 1]
            OBVIOUS
        <3>2. CASE i = n
            BY <3>1, <3>2 DEF next
        <3>3. CASE i # n
            <4>1. i \in 1..(n - 1) /\ g[i] = f[i]
                BY <3>3
            <4> QED BY <2>1, <3>1, <4>1
        <3> QED BY <3>2, <3>3
    <2>8. Steps(g, n)
        BY <2>5, <2>6, <2>7
    <2> HIDE DEF Steps
    <2> QED BY <2>8
<1> HIDE DEF S
<1>3. N \in S
    BY <1>1, <1>2, UpTo
<1> QED BY <1>3 DEF S

\* The members of a list that was appended to.
LEMMA AppendIs ==
    ASSUME NEW S, NEW s \in Seq(S), NEW x \in S
    PROVE  /\ Append(s, x) \in Seq(S)
           /\ Range(Append(s, x)) = Range(s) \cup {x}
           /\ \A i \in DOMAIN Append(s, x) : \/ i \in DOMAIN s /\ Append(s, x)[i] = s[i]
                                             \/ i = Len(s) + 1 /\ Append(s, x)[i] = x
<1>1. Len(s) \in Nat /\ DOMAIN s = 1..Len(s)
    BY LenProperties
<1>2. /\ Append(s, x) \in Seq(S) /\ Len(Append(s, x)) = Len(s) + 1
      /\ \A i \in 1..Len(s) : Append(s, x)[i] = s[i]
      /\ Append(s, x)[Len(s) + 1] = x
    BY AppendProperties
<1>3. DOMAIN Append(s, x) = 1..(Len(s) + 1)
    BY <1>2, LenProperties
<1>4. \A i \in 1..(Len(s) + 1) : i \in 1..Len(s) \/ i = Len(s) + 1
    BY <1>1
<1>5. \A i \in 1..Len(s) : i \in 1..(Len(s) + 1)
    BY <1>1
<1>6. Len(s) + 1 \in 1..(Len(s) + 1)
    BY <1>1
<1> QED BY <1>1, <1>2, <1>3, <1>4, <1>5, <1>6 DEF Range

\* The members of a list are at its positions.
LEMMA MembersAre ==
    ASSUME NEW S, NEW s \in Seq(S)
    PROVE  /\ Len(s) \in Nat /\ DOMAIN s = 1..Len(s)
           /\ \A i \in 1..Len(s) : s[i] \in S /\ s[i] \in Range(s)
           /\ Range(s) \subseteq S /\ \A e \in Range(s) : \E i \in 1..Len(s) : e = s[i]
<1>1. Len(s) \in Nat /\ DOMAIN s = 1..Len(s) /\ \A i \in 1..Len(s) : s[i] \in S
    BY LenProperties, ElementOfSeq
<1> QED BY <1>1 DEF Range

-----------------------------------------------------------------------------
(* What the steps of a merge make of a list of rows.                       *)

\* No two members have one link.
LinksApart(list) ==
    \A i, j \in DOMAIN list : Link[list[i].posting] = Link[list[j].posting] => i = j

\* f is what is picked up to each position.
PicksTo(entries, some, f, N) ==
    /\ f \in [0..N -> Seq(Entries)] /\ f[0] = <<>>
    /\ \A n \in 1..N : f[n] = IF entries[n].posting \in some THEN Append(f[n - 1], entries[n])
                                                            ELSE f[n - 1]

\* Picking is a walk along the list.
LEMMA PickedIs ==
    ASSUME NEW entries \in Seq(Entries), NEW some, NEW N \in Nat, N = Len(entries)
    PROVE  \E f : PicksTo(entries, some, f, N) /\ Picked(entries, some) = f[N]
<1>0. \A n \in 1..N : entries[n] \in Entries
    BY MembersAre
<1>00. 0 \in 0..N /\ N \in 0..N /\ \A n \in 1..N : n \in 0..N /\ n - 1 \in 0..N /\ n # 0
    OBVIOUS
<1> DEFINE Step(s, n) == IF entries[n].posting \in some THEN Append(s, entries[n]) ELSE s
           G == [x \in Seq(Entries) \X (1..N) |-> Step(x[1], x[2])]
           Is(f) == f = [n \in 0..N |-> IF n = 0 THEN <<>> ELSE Step(f[n - 1], n)]
<1>1. <<>> \in Seq(Entries) /\ \A s \in Seq(Entries), n \in 1..N : Step(s, n) \in Seq(Entries)
    BY <1>0, EmptySeq, AppendIs
<1>2. Picked(entries, some) = (CHOOSE f : Is(f))[N]
    BY DEF Picked
<1> HIDE DEF Step
<1>3. G \in [Seq(Entries) \X (1..N) -> Seq(Entries)]
    BY <1>1
<1> HIDE DEF G
<1>4. PICK f : StepsTo(f, Seq(Entries), <<>>, G, N)
    BY <1>1, <1>3, StepsExist
<1>5. \A n \in 1..N : f[n] = Step(f[n - 1], n)
    BY <1>00, <1>4 DEF G, StepsTo
<1>6. Is(f)
    <2>1. \A n \in 0..N : n = 0 \/ n \in 1..N
        OBVIOUS
    <2> QED BY <1>4, <1>5, <2>1 DEF StepsTo
<1> PICK c : c = CHOOSE g : Is(g)
    OBVIOUS
<1>7. Is(c)
    BY <1>6
<1>8. c[0] = <<>> /\ \A n \in 1..N : c[n] = Step(c[n - 1], n)
    BY <1>00, <1>7
<1>9. \A n \in 0..N : c[n] \in Seq(Entries)
    <2> DEFINE S == {n \in 0..N : c[n] \in Seq(Entries)}
    <2>1. 0 \in S
        BY <1>00, <1>1, <1>8
    <2>2. \A n \in 1..N : n - 1 \in S => n \in S
        BY <1>00, <1>1, <1>8
    <2> HIDE DEF S
    <2>3. \A n \in 0..N : n \in S
        BY <2>1, <2>2, UpTo
    <2> QED BY <2>3 DEF S
<1>10. c \in [0..N -> Seq(Entries)]
    BY <1>7, <1>9
<1>11. PicksTo(entries, some, c, N)
    BY <1>8, <1>10 DEF Step, PicksTo
<1> QED BY <1>2, <1>11

\* What is picked: the rows of some postings; a list of one row a link stays one.
LEMMA PickedAre ==
    ASSUME NEW entries \in Seq(Entries), NEW some
    PROVE  /\ Picked(entries, some) \in Seq(Entries)
           /\ Range(Picked(entries, some)) = {e \in Range(entries) : e.posting \in some}
           /\ LinksApart(entries) => LinksApart(Picked(entries, some))
<1>0. /\ Len(entries) \in Nat /\ DOMAIN entries = 1..Len(entries)
      /\ \A i \in 1..Len(entries) : entries[i] \in Entries /\ entries[i] \in Range(entries)
      /\ \A e \in Range(entries) : \E i \in 1..Len(entries) : e = entries[i]
    BY MembersAre
<1> PICK N \in Nat : N = Len(entries)
    BY <1>0
<1>00. 0 \in 0..N /\ N \in 0..N /\ \A n \in 1..N : n \in 0..N /\ n - 1 \in 0..N /\ n # 0
    OBVIOUS
<1>a. PICK f : PicksTo(entries, some, f, N) /\ Picked(entries, some) = f[N]
    BY PickedIs
<1>1. /\ f \in [0..N -> Seq(Entries)] /\ f[0] = <<>> /\ Picked(entries, some) = f[N]
      /\ \A n \in 1..N : f[n] = IF entries[n].posting \in some THEN Append(f[n - 1], entries[n])
                                                              ELSE f[n - 1]
    BY <1>a DEF PicksTo
<1> DEFINE Upto(n) == {i \in 1..n : entries[i].posting \in some}
           From(n) == {entries[i] : i \in Upto(n)}
           Good(n) == Range(f[n]) = From(n) /\ (LinksApart(entries) => LinksApart(f[n]))
           S == {n \in 0..N : Good(n)}
<1>2. 0 \in S
    BY <1>00, <1>1 DEF Range, LinksApart
<1>3. ASSUME NEW n \in 1..N, n - 1 \in S PROVE n \in S
    <2>1. n \in 0..N /\ n - 1 \in 0..N /\ f[n - 1] \in Seq(Entries) /\ entries[n] \in Entries
        BY <1>0, <1>00, <1>1
    <2>2. Good(n - 1)
        BY <1>3
    <2>3. \A i \in 1..n : i \in 1..(n - 1) \/ i = n
        OBVIOUS
    <2>4. \A i \in 1..(n - 1) : i \in 1..n /\ i # n /\ i \in 1..N
        OBVIOUS
    <2>5. CASE entries[n].posting \notin some
        <3>1. Upto(n) = Upto(n - 1)
            BY <2>3, <2>4, <2>5
        <3>2. From(n) = From(n - 1) /\ f[n] = f[n - 1]
            BY <1>1, <2>5, <3>1
        <3> QED BY <2>1, <2>2, <3>2
    <2>6. CASE entries[n].posting \in some
        <3>1. f[n] = Append(f[n - 1], entries[n])
            BY <1>1, <2>6
        <3>2. Upto(n) = Upto(n - 1) \cup {n}
            BY <2>3, <2>4, <2>6
        <3>3. From(n) = From(n - 1) \cup {entries[n]}
            BY <3>2
        <3>a. Range(Append(f[n - 1], entries[n])) = Range(f[n - 1]) \cup {entries[n]}
            BY <2>1, AppendIs
        <3> HIDE DEF Upto
        <3>4. Range(f[n]) = From(n)
            BY <2>2, <3>1, <3>3, <3>a
        <3>5. ASSUME LinksApart(entries) PROVE LinksApart(f[n])
            <4>1. \A e \in From(n - 1) : Link[e.posting] # Link[entries[n].posting]
                BY <1>0, <2>4, <3>5 DEF LinksApart, Upto
            <4>2. \A i \in DOMAIN f[n - 1] : f[n - 1][i] \in From(n - 1)
                BY <2>2 DEF Range
            <4>3. \A i \in DOMAIN f[n] : \/ i \in DOMAIN f[n - 1] /\ f[n][i] = f[n - 1][i]
                                         \/ i = Len(f[n - 1]) + 1 /\ f[n][i] = entries[n]
                BY <2>1, <3>1, AppendIs
            <4>4. LinksApart(f[n - 1])
                BY <2>2, <3>5
            <4> HIDE DEF From
            <4> QED BY <4>1, <4>2, <4>3, <4>4 DEF LinksApart
        <3> QED BY <2>1, <3>4, <3>5
    <2> QED BY <2>5, <2>6
<1> HIDE DEF S
<1>4. N \in S
    <2>1. \A n \in 1..N : n - 1 \in S => n \in S
        BY <1>3
    <2>2. \A n \in 0..N : n \in S
        BY <1>2, <2>1, UpTo
    <2> QED BY <1>00, <2>2
<1>5. Good(N)
    BY <1>4 DEF S
<1>6. From(N) = {e \in Range(entries) : e.posting \in some}
    BY <1>0
<1> HIDE DEF From
<1> QED BY <1>1, <1>5, <1>6

\* f is what is left of the list up to each position.
UniquesTo(entries, f, N) ==
    /\ f \in [0..N -> Seq(Entries)] /\ f[0] = <<>>
    /\ \A n \in 1..N : f[n] = Put(f[n - 1], entries[n])

\* A list after a row was put: the rows of other links, and the row.
LEMMA PutIs ==
    ASSUME NEW list \in Seq(Entries), NEW e \in Entries
    PROVE  /\ Put(list, e) \in Seq(Entries)
           /\ LinksApart(list) =>
                 /\ LinksApart(Put(list, e))
                 /\ Range(Put(list, e)) =
                       {d \in Range(list) : Link[d.posting] # Link[e.posting]} \cup {e}
<1>0. /\ Len(list) \in Nat /\ DOMAIN list = 1..Len(list)
      /\ \A i \in 1..Len(list) : list[i] \in Entries /\ list[i] \in Range(list)
      /\ \A d \in Range(list) : \E i \in 1..Len(list) : d = list[i]
    BY MembersAre
<1>1. CASE ~HasLink(list, e)
    <2>1. Put(list, e) = Append(list, e)
        BY <1>1 DEF Put
    <2>2. \A i \in DOMAIN list : Link[list[i].posting] # Link[e.posting]
        BY <1>1 DEF HasLink
    <2>3. /\ Append(list, e) \in Seq(Entries)
          /\ Range(Append(list, e)) = Range(list) \cup {e}
          /\ \A i \in DOMAIN Append(list, e) :
                \/ i \in DOMAIN list /\ Append(list, e)[i] = list[i]
                \/ i = Len(list) + 1 /\ Append(list, e)[i] = e
        BY AppendIs
    <2>4. LinksApart(list) => LinksApart(Append(list, e))
        BY <2>2, <2>3 DEF LinksApart
    <2>5. \A d \in Range(list) : Link[d.posting] # Link[e.posting]
        BY <1>0, <2>2
    <2> QED BY <2>1, <2>3, <2>4, <2>5
<1>2. CASE HasLink(list, e)
    <2> PICK new : new = Replaced(list, e)
        OBVIOUS
    <2> PICK N \in Nat : N = Len(list)
        BY <1>0
    <2>1. Put(list, e) = new
        BY <1>2 DEF Put
    <2>2. /\ DOMAIN new = 1..N
          /\ \A i \in 1..N : new[i] = IF Link[list[i].posting] = Link[e.posting] THEN e ELSE list[i]
        BY <1>0 DEF Replaced
    <2>3. new \in Seq(Entries)
        <3>1. \A i \in 1..N : new[i] \in Entries
            BY <1>0, <2>2
        <3>2. new = [i \in 1..N |-> new[i]]
            BY <1>0 DEF Replaced
        <3>3. new \in [1..N -> Entries]
            BY <3>1, <3>2
        <3> QED BY <3>3, SeqDef
    <2>4. PICK k \in 1..N : Link[list[k].posting] = Link[e.posting]
        BY <1>0, <1>2 DEF HasLink
    <2>5. LinksApart(list) => LinksApart(new)
        <3> SUFFICES ASSUME LinksApart(list), NEW i \in 1..N, NEW j \in 1..N,
                            Link[new[i].posting] = Link[new[j].posting]
                     PROVE  i = j
            BY <2>2 DEF LinksApart
        <3>1. Link[new[i].posting] = Link[list[i].posting] /\ Link[new[j].posting] = Link[list[j].posting]
            BY <2>2
        <3> QED BY <1>0, <3>1 DEF LinksApart
    <2>6. \A d \in Range(new) : d = e \/ (d \in Range(list) /\ Link[d.posting] # Link[e.posting])
        BY <1>0, <2>2 DEF Range
    <2>7. e \in Range(new)
        BY <2>2, <2>4 DEF Range
    <2>8. ASSUME NEW d \in Range(list), Link[d.posting] # Link[e.posting] PROVE d \in Range(new)
        <3>1. PICK i \in 1..N : d = list[i]
            BY <1>0
        <3>2. new[i] = d
            BY <2>2, <2>8, <3>1
        <3> QED BY <2>2, <3>2 DEF Range
    <2> QED BY <2>1, <2>3, <2>5, <2>6, <2>7, <2>8
<1> QED BY <1>1, <1>2

\* The removal of doubles is a walk along the list.
LEMMA UniqueIs ==
    ASSUME NEW entries \in Seq(Entries), NEW N \in Nat, N = Len(entries)
    PROVE  \E f : UniquesTo(entries, f, N) /\ Unique(entries) = f[N]
<1>0. \A n \in 1..N : entries[n] \in Entries
    BY MembersAre
<1>00. 0 \in 0..N /\ N \in 0..N /\ \A n \in 1..N : n \in 0..N /\ n - 1 \in 0..N /\ n # 0
    OBVIOUS
<1> DEFINE Step(s, n) == Put(s, entries[n])
           G == [x \in Seq(Entries) \X (1..N) |-> Step(x[1], x[2])]
           Is(f) == f = [n \in 0..N |-> IF n = 0 THEN <<>> ELSE Step(f[n - 1], n)]
<1>1. <<>> \in Seq(Entries) /\ \A s \in Seq(Entries), n \in 1..N : Step(s, n) \in Seq(Entries)
    BY <1>0, EmptySeq, PutIs
<1>2. Unique(entries) = (CHOOSE f : Is(f))[N]
    BY DEF Unique
<1> HIDE DEF Step
<1>3. G \in [Seq(Entries) \X (1..N) -> Seq(Entries)]
    BY <1>1
<1> HIDE DEF G
<1>4. PICK f : StepsTo(f, Seq(Entries), <<>>, G, N)
    BY <1>1, <1>3, StepsExist
<1>5. \A n \in 1..N : f[n] = Step(f[n - 1], n)
    BY <1>00, <1>4 DEF G, StepsTo
<1>6. Is(f)
    <2>1. \A n \in 0..N : n = 0 \/ n \in 1..N
        OBVIOUS
    <2> QED BY <1>4, <1>5, <2>1 DEF StepsTo
<1> PICK c : c = CHOOSE g : Is(g)
    OBVIOUS
<1>7. Is(c)
    BY <1>6
<1>8. c[0] = <<>> /\ \A n \in 1..N : c[n] = Step(c[n - 1], n)
    BY <1>00, <1>7
<1>9. \A n \in 0..N : c[n] \in Seq(Entries)
    <2> DEFINE S == {n \in 0..N : c[n] \in Seq(Entries)}
    <2>1. 0 \in S
        BY <1>00, <1>1, <1>8
    <2>2. \A n \in 1..N : n - 1 \in S => n \in S
        BY <1>00, <1>1, <1>8
    <2> HIDE DEF S
    <2>3. \A n \in 0..N : n \in S
        BY <2>1, <2>2, UpTo
    <2> QED BY <2>3 DEF S
<1>10. c \in [0..N -> Seq(Entries)]
    BY <1>7, <1>9
<1>11. UniquesTo(entries, c, N)
    BY <1>8, <1>10 DEF Step, UniquesTo
<1> QED BY <1>2, <1>11

\* The positions up to n that are the last of their link.
Lasts(entries, n) ==
    {i \in 1..n : \A j \in 1..n : Link[entries[j].posting] = Link[entries[i].posting] => j <= i}

\* A link that is in a list is there a last time.
LEMMA LastExists ==
    ASSUME NEW entries, NEW N \in Nat, NEW i \in 1..N
    PROVE  \E k \in Lasts(entries, N) : i <= k /\ Link[entries[k].posting] = Link[entries[i].posting]
<1> DEFINE Later(n) == {k \in 1..N : Link[entries[k].posting] = Link[entries[i].posting] /\ N - k = n}
           S == {n \in 0..N : Later(n) # {}}
<1>1. N - i \in S
    BY DEF Later
<1>2. PICK n \in S : \A m \in S : ~(m < n)
    <2>1. S \subseteq Nat
        OBVIOUS
    <2>2. PICK n \in S : \A m \in S : ~(<<m, n>> \in OpToRel(<, Nat))
        BY <1>1, <2>1, WFMin, NatLessThanWellFounded
    <2> QED BY <2>1, <2>2 DEF OpToRel
<1>3. PICK k \in 1..N : Link[entries[k].posting] = Link[entries[i].posting] /\ N - k = n
    BY <1>2
<1>4. ASSUME NEW j \in 1..N, Link[entries[j].posting] = Link[entries[i].posting]
      PROVE  j <= k
    <2>1. N - j \in S
        BY <1>4
    <2>2. ~(N - j < n) /\ n \in Nat
        BY <1>2, <2>1
    <2> QED BY <1>3, <2>2
<1>5. i <= k
    BY <1>4
<1>6. k \in Lasts(entries, N)
    BY <1>3, <1>4 DEF Lasts
<1> QED BY <1>3, <1>5, <1>6

\* What the removal of doubles leaves: of each link the last row, and no other.
LEMMA UniqueAre ==
    ASSUME NEW entries \in Seq(Entries)
    PROVE  /\ Unique(entries) \in Seq(Entries)
           /\ Range(Unique(entries)) = {entries[i] : i \in Lasts(entries, Len(entries))}
           /\ LinksApart(Unique(entries))
<1>0. /\ Len(entries) \in Nat /\ DOMAIN entries = 1..Len(entries)
      /\ \A i \in 1..Len(entries) : entries[i] \in Entries
    BY MembersAre
<1> PICK N \in Nat : N = Len(entries)
    BY <1>0
<1>00. 0 \in 0..N /\ N \in 0..N /\ \A n \in 1..N : n \in 0..N /\ n - 1 \in 0..N /\ n # 0
    OBVIOUS
<1>a. PICK f : UniquesTo(entries, f, N) /\ Unique(entries) = f[N]
    BY UniqueIs
<1>1. /\ f \in [0..N -> Seq(Entries)] /\ f[0] = <<>> /\ Unique(entries) = f[N]
      /\ \A n \in 1..N : f[n] = Put(f[n - 1], entries[n])
    BY <1>a DEF UniquesTo
<1> DEFINE From(n) == {entries[i] : i \in Lasts(entries, n)}
           Good(n) == Range(f[n]) = From(n) /\ LinksApart(f[n])
           S == {n \in 0..N : Good(n)}
<1>2. 0 \in S
    BY <1>00, <1>1 DEF Range, LinksApart, Lasts
<1>3. ASSUME NEW n \in 1..N, n - 1 \in S PROVE n \in S
    <2>1. n \in 0..N /\ n - 1 \in 0..N /\ f[n - 1] \in Seq(Entries) /\ entries[n] \in Entries
        BY <1>0, <1>00, <1>1
    <2>2. Range(f[n - 1]) = From(n - 1) /\ LinksApart(f[n - 1])
        BY <1>3
    <2>3. /\ LinksApart(f[n])
          /\ Range(f[n]) = {d \in Range(f[n - 1]) : Link[d.posting] # Link[entries[n].posting]}
                              \cup {entries[n]}
        BY <1>1, <2>1, <2>2, PutIs
    <2>4. Lasts(entries, n) =
            {i \in Lasts(entries, n - 1) : Link[entries[i].posting] # Link[entries[n].posting]} \cup {n}
        <3>1. \A i \in 1..n : i \in 1..(n - 1) \/ i = n
            OBVIOUS
        <3>2. \A i \in 1..(n - 1) : i \in 1..n /\ ~(n <= i) /\ i <= n
            OBVIOUS
        <3>3. n \in 1..n /\ n <= n
            OBVIOUS
        <3> QED BY <3>1, <3>2, <3>3 DEF Lasts
    <2>5. From(n) = {d \in From(n - 1) : Link[d.posting] # Link[entries[n].posting]} \cup {entries[n]}
        BY <2>4
    <2> QED BY <2>1, <2>2, <2>3, <2>5
<1> HIDE DEF S
<1>4. N \in S
    <2>1. \A n \in 1..N : n - 1 \in S => n \in S
        BY <1>3
    <2>2. \A n \in 0..N : n \in S
        BY <1>2, <2>1, UpTo
    <2> QED BY <1>00, <2>2
<1>5. Good(N)
    BY <1>4 DEF S
<1> QED BY <1>00, <1>1, <1>5

-----------------------------------------------------------------------------
(* What becomes of a list of rows in the table.                            *)

\* An id its posting may have.
Agree(id, p) == id = <<Id[p]>> \/ id = <<Id[p], p>>

\* Rows under ids of their postings.
Named == {e \in Entries : Agree(e.id, e.posting)}

\* The values of a row.
JobRows == [posting : Openings, status : Statuses]

\* Tables of jobs.
Tables == UNION {[D -> JobRows] : D \in SUBSET RowIds}

\* The id under which a row is stored.
NewId(table, e) == IF e.id \in DOMAIN table THEN <<e.id[1], e.posting>> ELSE e.id

\* f is the table of the list up to each position.
PreparesTo(entries, f, N) ==
    /\ f \in [0..N -> Tables] /\ f[0] = <<>>
    /\ \A n \in 1..N : f[n] = Prepared(f[n - 1], entries[n])

\* The empty table is a table.
LEMMA EmptyTable == <<>> \in Tables /\ DOMAIN <<>> = {}
<1>1. <<>> \in [{} -> JobRows]
    OBVIOUS
<1> QED BY <1>1 DEF Tables

\* A row that is added to a prepared table gets an id of its posting.
LEMMA PreparedIs ==
    ASSUME NEW table \in Tables, NEW e \in Named
    PROVE  /\ Prepared(table, e) \in Tables
           /\ NewId(table, e) \in RowIds /\ Agree(NewId(table, e), e.posting)
           /\ DOMAIN Prepared(table, e) = DOMAIN table \cup {NewId(table, e)}
           /\ Prepared(table, e)[NewId(table, e)] = Job(e.posting, e.status)
           /\ \A i \in DOMAIN table : i # NewId(table, e) => Prepared(table, e)[i] = table[i]
<1>1. e \in Entries /\ Agree(e.id, e.posting) /\ e.id \in RowIds /\ e.posting \in Openings
      /\ e.status \in Statuses
    BY DEF Named, Entries
<1>2. e.id[1] = Id[e.posting]
    BY <1>1 DEF Agree
<1> PICK new : new = NewId(table, e)
    OBVIOUS
<1>3. new \in RowIds /\ Agree(new, e.posting)
    BY <1>1, <1>2 DEF NewId, Agree, RowIds
<1> PICK job : job = Job(e.posting, e.status)
    OBVIOUS
<1>4. job \in JobRows
    BY <1>1 DEF Job, JobRows
<1>5. PICK D \in SUBSET RowIds : table \in [D -> JobRows]
    BY DEF Tables
<1>6. Prepared(table, e) = [i \in D \cup {new} |-> IF i = new THEN job ELSE table[i]]
    BY <1>5 DEF Prepared, With, NewId
<1>7. Prepared(table, e) \in [D \cup {new} -> JobRows]
    BY <1>4, <1>5, <1>6
<1>8. D \cup {new} \in SUBSET RowIds
    BY <1>3
<1>9. Prepared(table, e) \in Tables
    BY <1>7, <1>8 DEF Tables
<1> QED BY <1>3, <1>5, <1>6, <1>9

\* _prepare_jobs is a walk along the list.
LEMMA PrepareIs ==
    ASSUME NEW entries \in Seq(Named), NEW N \in Nat, N = Len(entries)
    PROVE  \E f : PreparesTo(entries, f, N) /\ Prepare(entries) = f[N]
<1>0. \A n \in 1..N : entries[n] \in Named
    BY MembersAre
<1>00. 0 \in 0..N /\ N \in 0..N /\ \A n \in 1..N : n \in 0..N /\ n - 1 \in 0..N /\ n # 0
    OBVIOUS
<1> DEFINE Step(s, n) == Prepared(s, entries[n])
           G == [x \in Tables \X (1..N) |-> Step(x[1], x[2])]
           Is(f) == f = [n \in 0..N |-> IF n = 0 THEN <<>> ELSE Step(f[n - 1], n)]
<1>1. <<>> \in Tables /\ \A s \in Tables, n \in 1..N : Step(s, n) \in Tables
    BY <1>0, EmptyTable, PreparedIs
<1>2. Prepare(entries) = (CHOOSE f : Is(f))[N]
    BY DEF Prepare
<1> HIDE DEF Step
<1>3. G \in [Tables \X (1..N) -> Tables]
    BY <1>1
<1> HIDE DEF G
<1>4. PICK f : StepsTo(f, Tables, <<>>, G, N)
    BY <1>1, <1>3, StepsExist
<1>5. \A n \in 1..N : f[n] = Step(f[n - 1], n)
    BY <1>00, <1>4 DEF G, StepsTo
<1>6. Is(f)
    <2>1. \A n \in 0..N : n = 0 \/ n \in 1..N
        OBVIOUS
    <2> QED BY <1>4, <1>5, <2>1 DEF StepsTo
<1> PICK c : c = CHOOSE g : Is(g)
    OBVIOUS
<1>7. Is(c)
    BY <1>6
<1>8. c[0] = <<>> /\ \A n \in 1..N : c[n] = Step(c[n - 1], n)
    BY <1>00, <1>7
<1>9. \A n \in 0..N : c[n] \in Tables
    <2> DEFINE S == {n \in 0..N : c[n] \in Tables}
    <2>1. 0 \in S
        BY <1>00, <1>1, <1>8
    <2>2. \A n \in 1..N : n - 1 \in S => n \in S
        BY <1>00, <1>1, <1>8
    <2> HIDE DEF S
    <2>3. \A n \in 0..N : n \in S
        BY <2>1, <2>2, UpTo
    <2> QED BY <2>3 DEF S
<1>10. c \in [0..N -> Tables]
    BY <1>7, <1>9
<1>11. PreparesTo(entries, c, N)
    BY <1>8, <1>10 DEF Step, PreparesTo
<1> QED BY <1>2, <1>11

\* Each member has a row, under an id of its posting, and there are no others.
LEMMA PrepareAre ==
    ASSUME NEW entries \in Seq(Named), LinksApart(entries)
    PROVE  /\ Prepare(entries) \in Tables
           /\ \A id \in DOMAIN Prepare(entries) :
                 /\ Agree(id, Prepare(entries)[id].posting)
                 /\ \E e \in Range(entries) : Prepare(entries)[id] = Job(e.posting, e.status)
           /\ \A e \in Range(entries) :
                 \E id \in DOMAIN Prepare(entries) : Prepare(entries)[id] = Job(e.posting, e.status)
<1>0. /\ Len(entries) \in Nat /\ DOMAIN entries = 1..Len(entries)
      /\ \A i \in 1..Len(entries) : entries[i] \in Named /\ entries[i] \in Range(entries)
      /\ \A e \in Range(entries) : \E i \in 1..Len(entries) : e = entries[i]
    BY MembersAre
<1> PICK N \in Nat : N = Len(entries)
    BY <1>0
<1>00. 0 \in 0..N /\ N \in 0..N /\ \A n \in 1..N : n \in 0..N /\ n - 1 \in 0..N /\ n # 0
    OBVIOUS
<1>a. PICK f : PreparesTo(entries, f, N) /\ Prepare(entries) = f[N]
    BY PrepareIs
<1>1. /\ f \in [0..N -> Tables] /\ f[0] = <<>> /\ Prepare(entries) = f[N]
      /\ \A n \in 1..N : f[n] = Prepared(f[n - 1], entries[n])
    BY <1>a DEF PreparesTo
<1> DEFINE Is(job, k) == job = Job(entries[k].posting, entries[k].status)
           Right(n) == \A id \in DOMAIN f[n] : /\ Agree(id, f[n][id].posting)
                                              /\ \E k \in 1..n : Is(f[n][id], k)
           All(n) == \A k \in 1..n : \E id \in DOMAIN f[n] : Is(f[n][id], k)
           S == {n \in 0..N : Right(n) /\ All(n)}
<1>2. 0 \in S
    BY <1>00, <1>1, EmptyTable
<1>3. ASSUME NEW n \in 1..N, n - 1 \in S PROVE n \in S
    <2>1. /\ n \in 0..N /\ n - 1 \in 0..N /\ f[n - 1] \in Tables /\ entries[n] \in Named
          /\ f[n] = Prepared(f[n - 1], entries[n])
        BY <1>0, <1>00, <1>1
    <2>2. Right(n - 1) /\ All(n - 1)
        BY <1>3
    <2>3. \A i \in 1..n : i \in 1..(n - 1) \/ i = n
        OBVIOUS
    <2>4. n \in 1..n /\ \A i \in 1..(n - 1) : i \in 1..n /\ i # n /\ i \in 1..N
        OBVIOUS
    <2> PICK e : e = entries[n]
        OBVIOUS
    <2> PICK new : new = NewId(f[n - 1], e)
        OBVIOUS
    <2>5. /\ Agree(new, e.posting) /\ DOMAIN f[n] = DOMAIN f[n - 1] \cup {new}
          /\ f[n][new] = Job(e.posting, e.status)
          /\ \A i \in DOMAIN f[n - 1] : i # new => f[n][i] = f[n - 1][i]
        <3> PICK t \in Tables : t = f[n - 1]
            BY <2>1
        <3>1. e \in Named /\ f[n] = Prepared(t, e) /\ new = NewId(t, e)
            BY <2>1
        <3> HIDE DEF Right, All
        <3>2. /\ Agree(NewId(t, e), e.posting)
              /\ DOMAIN Prepared(t, e) = DOMAIN t \cup {NewId(t, e)}
              /\ Prepared(t, e)[NewId(t, e)] = Job(e.posting, e.status)
              /\ \A i \in DOMAIN t : i # NewId(t, e) => Prepared(t, e)[i] = t[i]
            BY <3>1, PreparedIs
        <3> QED BY <3>1, <3>2
    <2>6. new \notin DOMAIN f[n - 1]
        <3> SUFFICES ASSUME new \in DOMAIN f[n - 1] PROVE FALSE
            OBVIOUS
        <3>1. new = <<e.id[1], e.posting>>
            BY DEF NewId
        <3>2. PICK k \in 1..(n - 1) : Is(f[n - 1][new], k)
            BY <2>2
        <3>3. Agree(new, entries[k].posting)
            BY <2>2, <3>2 DEF Job
        <3>4. e.posting = entries[k].posting
            BY <3>1, <3>3 DEF Agree
        <3>5. k = n
            BY <1>0, <2>4, <3>4 DEF LinksApart
        <3> QED BY <2>4, <3>5
    <2>7. Right(n)
        <3> SUFFICES ASSUME NEW id \in DOMAIN f[n]
                     PROVE  Agree(id, f[n][id].posting) /\ \E k \in 1..n : Is(f[n][id], k)
            OBVIOUS
        <3>1. CASE id = new
            <4>1. f[n][id].posting = e.posting
                BY <2>5, <3>1 DEF Job
            <4> QED BY <2>4, <2>5, <3>1, <4>1
        <3>2. CASE id # new
            <4>1. id \in DOMAIN f[n - 1] /\ f[n][id] = f[n - 1][id]
                BY <2>5, <3>2
            <4> QED BY <2>2, <2>4, <4>1
        <3> QED BY <3>1, <3>2
    <2>8. All(n)
        <3> SUFFICES ASSUME NEW k \in 1..n PROVE \E id \in DOMAIN f[n] : Is(f[n][id], k)
            OBVIOUS
        <3>1. CASE k = n
            BY <2>5, <3>1
        <3>2. CASE k # n
            <4>1. PICK id \in DOMAIN f[n - 1] : Is(f[n - 1][id], k)
                BY <2>2, <2>3, <3>2
            <4>2. id \in DOMAIN f[n] /\ f[n][id] = f[n - 1][id]
                BY <2>5, <2>6
            <4> QED BY <4>1, <4>2
        <3> QED BY <3>1, <3>2
    <2> QED BY <2>1, <2>7, <2>8
<1> HIDE DEF S
<1>4. N \in S
    <2>1. \A n \in 1..N : n - 1 \in S => n \in S
        BY <1>3
    <2>2. \A n \in 0..N : n \in S
        BY <1>2, <2>1, UpTo
    <2> QED BY <1>00, <2>2
<1>5. Right(N) /\ All(N)
    BY <1>4 DEF S
<1> PICK t : t = f[N]
    OBVIOUS
<1>6. t \in Tables /\ Prepare(entries) = t
    BY <1>00, <1>1
<1>7. \A id \in DOMAIN t : /\ Agree(id, t[id].posting)
                          /\ \E e \in Range(entries) : t[id] = Job(e.posting, e.status)
    BY <1>0, <1>5
<1>8. \A e \in Range(entries) : \E id \in DOMAIN t : t[id] = Job(e.posting, e.status)
    BY <1>0, <1>5
<1> QED BY <1>6, <1>7, <1>8

-----------------------------------------------------------------------------
(* Snapshots.                                                              *)

\* An enumeration of a set is a list of its members.
LEMMA EnumeratedAre ==
    ASSUME NEW S, IsFiniteSet(S), NEW list \in SetToSeqs(S)
    PROVE  list \in Seq(S) /\ Range(list) = S
<1>1. PICK N \in Nat : N = Cardinality(S)
    BY FS_CardinalityType
<1>2. list \in [1..N -> S] /\ \A i, j \in 1..N : i # j => list[i] # list[j]
    BY <1>1 DEF SetToSeqs
<1>3. list \in Injection(1..N, S)
    BY <1>2 DEF Injection, IsInjective
<1>4. IsFiniteSet(1..N) /\ Cardinality(1..N) = N
    BY FS_Interval
<1>5. list \in Surjection(1..N, S)
    BY <1>1, <1>3, <1>4, FS_Injection
<1>6. \A e \in S : \E i \in 1..N : list[i] = e
    BY <1>5 DEF Surjection
<1> QED BY <1>2, <1>6, SeqDef DEF Range

\* There are finitely many ids.
LEMMA RowIdsFinite == IsFiniteSet(RowIds)
<1>1. IsFiniteSet(Openings)
    BY RefreshAssumption
<1>2. IsFiniteSet({<<Id[p]>> : p \in Openings})
    <2> DEFINE f == [p \in Openings |-> <<Id[p]>>]
    <2>1. f \in Surjection(Openings, {<<Id[p]>> : p \in Openings})
        BY DEF Surjection
    <2> QED BY <1>1, <2>1, FS_Surjection
<1>3. IsFiniteSet({<<Id[p], p>> : p \in Openings})
    <2> DEFINE f == [p \in Openings |-> <<Id[p], p>>]
    <2>1. f \in Surjection(Openings, {<<Id[p], p>> : p \in Openings})
        BY DEF Surjection
    <2> QED BY <1>1, <2>1, FS_Surjection
<1> QED BY <1>2, <1>3, FS_Union DEF RowIds

\* Rows under ids of their postings.
Fits(table) ==
    /\ DOMAIN table \subseteq RowIds
    /\ \A id \in DOMAIN table : table[id] \in JobRows /\ Agree(id, table[id].posting)

\* list_jobs returns the rows that are there, each once.
LEMMA ListingsAre ==
    ASSUME NEW table, Fits(table), NEW list \in Listings(table)
    PROVE  list \in Seq(Entries) /\ Range(list) = EntriesOf(table) /\ Range(list) \subseteq Named
<1> PICK S : S = EntriesOf(table)
    OBVIOUS
<1>1. IsFiniteSet(DOMAIN table)
    BY RowIdsFinite, FS_Subset DEF Fits
<1>2. IsFiniteSet(S)
    <2> DEFINE f == [id \in DOMAIN table |-> Entry(id, table[id])]
    <2>1. f \in Surjection(DOMAIN table, S)
        BY DEF Surjection, EntriesOf
    <2> QED BY <1>1, <2>1, FS_Surjection
<1>3. S \subseteq Named
    <2> SUFFICES ASSUME NEW id \in DOMAIN table PROVE Entry(id, table[id]) \in Named
        BY DEF EntriesOf
    <2>1. id \in RowIds /\ table[id] \in JobRows /\ Agree(id, table[id].posting)
        BY DEF Fits
    <2> PICK job \in JobRows : job = table[id]
        BY <2>1
    <2>2. job.posting \in Openings /\ job.status \in Statuses
        BY DEF JobRows
    <2> QED BY <2>1, <2>2 DEF Entry, Named, Entries
<1>4. list \in Seq(S) /\ Range(list) = S
    BY <1>2, EnumeratedAre DEF Listings
<1>5. S \subseteq Entries
    BY <1>3 DEF Named
<1>6. list \in Seq(Entries)
    BY <1>4, <1>5, SeqMonotonic
<1> QED BY <1>3, <1>4, <1>6

\* A merge: each link has one row, which was found or kept, and one that was found if
\* any was.  No link of a kept row goes, but with a row that is refused.
LEMMA MergeIs ==
    ASSUME NEW before \in Seq(Entries), NEW new \in Seq(Entries),
           \A e \in Range(new) : e.posting \in Valid,
           NEW merged, merged = Picked(Unique(before \o new), Valid)
    PROVE  /\ merged \in Seq(Entries) /\ LinksApart(merged)
           /\ Range(merged) \subseteq Range(before) \cup Range(new)
           /\ \A e \in Range(new) :
                 \E d \in Range(new) \cap Range(merged) : Link[d.posting] = Link[e.posting]
           /\ \A e \in Range(before) :
                 \/ \E d \in Range(merged) : Link[d.posting] = Link[e.posting]
                 \/ \E d \in Range(before) : d.posting \notin Valid /\ Link[d.posting] = Link[e.posting]
<1> PICK K, F : K = Len(before) /\ F = Len(new)
    OBVIOUS
<1>1. /\ K \in Nat /\ F \in Nat
      /\ \A i \in 1..K : before[i] \in Range(before)
      /\ \A i \in 1..F : new[i] \in Range(new)
      /\ \A e \in Range(before) : \E i \in 1..K : e = before[i]
      /\ \A e \in Range(new) : \E i \in 1..F : e = new[i]
    BY MembersAre
<1> PICK all : all = before \o new
    OBVIOUS
<1>2. /\ all \in Seq(Entries) /\ Len(all) = K + F
      /\ \A i \in 1..(K + F) : all[i] = IF i <= K THEN before[i] ELSE new[i - K]
    <2>1. /\ before \o new \in Seq(Entries)
          /\ Len(before \o new) = Len(before) + Len(new)
          /\ \A i \in 1..(Len(before) + Len(new)) :
                (before \o new)[i] = IF i <= Len(before) THEN before[i] ELSE new[i - Len(before)]
        BY ConcatProperties
    <2> QED BY <2>1
<1>3. \A i \in 1..(K + F) : \/ i \in 1..K /\ all[i] = before[i] /\ all[i] \in Range(before)
                            \/ i > K /\ all[i] \in Range(new)
    <2> SUFFICES ASSUME NEW i \in 1..(K + F)
                 PROVE  \/ i \in 1..K /\ all[i] = before[i] /\ all[i] \in Range(before)
                        \/ i > K /\ all[i] \in Range(new)
        OBVIOUS
    <2>1. CASE i <= K
        BY <1>1, <1>2, <2>1
    <2>2. CASE i > K
        <3>1. i - K \in 1..F
            BY <1>1, <2>2
        <3>2. all[i] = new[i - K]
            BY <1>1, <1>2, <2>2
        <3> QED BY <1>1, <2>2, <3>1, <3>2
    <2> QED BY <1>1, <2>1, <2>2
<1>4. \A i \in 1..K : i \in 1..(K + F) /\ all[i] = before[i]
    BY <1>1, <1>2
<1>5. \A i \in 1..F : K + i \in 1..(K + F) /\ all[K + i] = new[i] /\ K + i > K
    <2> SUFFICES ASSUME NEW i \in 1..F
                 PROVE  K + i \in 1..(K + F) /\ all[K + i] = new[i] /\ K + i > K
        OBVIOUS
    <2>1. K + i \in 1..(K + F) /\ K + i > K /\ (K + i) - K = i
        BY <1>1
    <2> QED BY <1>1, <1>2, <2>1
<1> PICK unique : unique = Unique(all)
    OBVIOUS
<1>6. /\ unique \in Seq(Entries) /\ LinksApart(unique)
      /\ Range(unique) = {all[i] : i \in Lasts(all, K + F)}
    BY <1>2, UniqueAre
<1>7. /\ merged \in Seq(Entries) /\ LinksApart(merged)
      /\ Range(merged) = {e \in Range(unique) : e.posting \in Valid}
    BY <1>6, PickedAre
<1>8. \A i \in Lasts(all, K + F) : i \in 1..(K + F)
    BY DEF Lasts
<1>9. Range(merged) \subseteq Range(before) \cup Range(new)
    BY <1>3, <1>6, <1>7, <1>8
<1>10. ASSUME NEW e \in Range(new)
       PROVE  \E d \in Range(new) \cap Range(merged) : Link[d.posting] = Link[e.posting]
    <2>1. PICK i \in 1..F : e = new[i]
        BY <1>1
    <2>2. PICK k \in Lasts(all, K + F) : K + i <= k /\ Link[all[k].posting] = Link[e.posting]
        <3>1. K + F \in Nat /\ K + i \in 1..(K + F) /\ all[K + i] = e
            BY <1>1, <1>5, <2>1
        <3>2. \E k \in Lasts(all, K + F) : K + i <= k /\ Link[all[k].posting] = Link[all[K + i].posting]
            BY <3>1, LastExists
        <3> QED BY <3>1, <3>2
    <2>3. k \in 1..(K + F) /\ ~(k <= K)
        BY <1>1, <1>8, <2>2
    <2>4. all[k] \in Range(new)
        BY <1>1, <1>3, <2>3
    <2> QED BY <1>6, <1>7, <2>2, <2>4
<1>11. ASSUME NEW e \in Range(before)
       PROVE  \/ \E d \in Range(merged) : Link[d.posting] = Link[e.posting]
              \/ \E d \in Range(before) : d.posting \notin Valid /\ Link[d.posting] = Link[e.posting]
    <2>1. PICK i \in 1..K : e = before[i]
        BY <1>1
    <2>2. PICK k \in Lasts(all, K + F) : Link[all[k].posting] = Link[e.posting]
        <3>1. K + F \in Nat /\ i \in 1..(K + F) /\ all[i] = e
            BY <1>1, <1>4, <2>1
        <3>2. \E k \in Lasts(all, K + F) : i <= k /\ Link[all[k].posting] = Link[all[i].posting]
            BY <3>1, LastExists
        <3> QED BY <3>1, <3>2
    <2>3. all[k] \in Range(unique) /\ (all[k] \in Range(before) \/ all[k] \in Range(new))
        BY <1>3, <1>6, <1>8
    <2>4. CASE all[k].posting \in Valid
        BY <1>7, <2>2, <2>3, <2>4
    <2>5. CASE all[k].posting \notin Valid
        BY <2>2, <2>3, <2>5
    <2> QED BY <2>4, <2>5
<1> QED BY <1>7, <1>9, <1>10, <1>11

-----------------------------------------------------------------------------
(* The inductive invariant.                                                *)

\* Rows of the table and of the snapshot are under ids of their postings.
WellNamed ==
    /\ \A id \in DOMAIN rows : Agree(id, rows[id].posting)
    /\ Range(json) \subseteq Named

\* While a run collects, and after one that ended well, the snapshot is the table.
Told ==
    At("collecting") \/ (Free /\ outcome \in {"done", "dry", "cancelled"}) =>
        Range(json) = EntriesOf(rows)

\* A run works on companies that are there and in its scope, and so is what it found.
Collected ==
    ~Free =>
        /\ run.kind = "full" => run.scope = Companies \cup {Nobody}
        /\ run.todo \cup run.complete \subseteq companies \cap run.scope
        /\ \A e \in Range(run.found) :
              /\ e \in Named /\ e.status = "Open" /\ e.posting \in Valid
              /\ Owner[e.posting] \in companies \cap run.scope

\* What was merged: a row of each link, found or kept from the table, one that was found
\* if there was any; and no link of a row to be kept is missing, but for refused ones.
MergedRight ==
    At("merged") =>
        /\ LinksApart(json)
        /\ \A e \in Range(run.found) :
              \E d \in Range(run.found) \cap Range(json) : Link[d.posting] = Link[e.posting]
        /\ \A d \in Range(json) \ Range(run.found) :
              d \in EntriesOf(rows) /\ OwnerOf(d.posting) \notin run.complete
        /\ \A id \in DOMAIN rows :
              OwnerOf(rows[id].posting) \notin run.complete /\ ~Shadowed(id) =>
                  \E d \in Range(json) : Link[d.posting] = Link[rows[id].posting]

\* The inductive invariant.
RefreshInv ==
    RefreshTypeOK /\ WellNamed /\ Told /\ Collected /\ MergedRight /\ BoardIsShown

\* The table is made of rows under ids of their postings.
LEMMA RowsFit == RefreshInv => Fits(rows)
BY DEF RefreshInv, RefreshTypeOK, WellNamed, Fits, JobRows

-----------------------------------------------------------------------------
(* Steps after which no run is in progress.                                *)

\* A step that leaves no run in progress keeps the invariant if it keeps the tables and
\* the snapshot well formed.
LEMMA RestKeeps ==
    ASSUME RefreshInv, companies' \subseteq Companies, Fits(rows'),
           DOMAIN apps' \subseteq DOMAIN rows', Range(apps') \subseteq Openings,
           json' \in Seq(Entries), Range(json') \subseteq Named, run' = Idle,
           outcome' \in {"none", "done", "dry", "cancelled", "failed", "crashed"},
           outcome' \in {"done", "dry", "cancelled"} => Range(json') = EntriesOf(rows'),
           runs' \in 0..MaxRuns, failures' \in 0..MaxFailures
    PROVE  RefreshInv'
<1>1. Free' /\ ~At("collecting")' /\ ~At("merged")' /\ ~At("stored")'
    BY DEF Free, At
<1>2. RefreshTypeOK'
    BY DEF RefreshTypeOK, Fits, JobRows
<1>3. WellNamed'
    BY DEF WellNamed, Fits
<1>4. Told' /\ Collected' /\ MergedRight' /\ BoardIsShown'
    BY <1>1 DEF Told, Collected, MergedRight, BoardIsShown
<1> QED BY <1>2, <1>3, <1>4 DEF RefreshInv

\* A row under an id of its posting can be added.
LEMMA WithFits ==
    ASSUME NEW table, Fits(table), NEW id \in RowIds, NEW job \in JobRows, Agree(id, job.posting)
    PROVE  Fits(With(table, id, job)) /\ DOMAIN With(table, id, job) = DOMAIN table \cup {id}
BY DEF Fits, With

\* Rows can be removed.
LEMMA WithoutFits ==
    ASSUME NEW table, Fits(table), NEW gone
    PROVE  Fits(Without(table, gone)) /\ DOMAIN Without(table, gone) = DOMAIN table \ gone
BY DEF Fits, Without

\* Application tracking keeps the invariant.
LEMMA ApplyKeeps == ASSUME RefreshInv, NEW id \in RowIds, Apply(id) PROVE RefreshInv'
<1>1. /\ run = Idle /\ id \in DOMAIN rows /\ apps' = With(apps, id, rows[id].posting)
      /\ companies' = companies /\ rows' = rows /\ json' = json /\ run' = run
      /\ outcome' = outcome /\ runs' = runs /\ failures' = failures
    BY DEF Apply, Free, bounds
<1>2. Fits(rows) /\ rows[id].posting \in Openings
    BY <1>1, RowsFit DEF Fits, JobRows
<1>3. DOMAIN apps' \subseteq DOMAIN rows' /\ Range(apps') \subseteq Openings
    BY <1>1, <1>2 DEF With, RefreshInv, RefreshTypeOK, Range
<1>4. outcome' \in {"done", "dry", "cancelled"} => Range(json') = EntriesOf(rows')
    BY <1>1 DEF RefreshInv, Told, Free
<1> QED BY <1>1, <1>2, <1>3, <1>4, RestKeeps DEF RefreshInv, RefreshTypeOK, WellNamed

\* An import keeps the invariant.
LEMMA ImportKeeps ==
    ASSUME RefreshInv, NEW p \in Openings, NEW cancelled \in BOOLEAN, Import(p, cancelled)
    PROVE  RefreshInv'
<1>1. /\ run = Idle /\ rows' = With(rows, <<Id[p]>>, Job(p, "Open"))
      /\ \/ outcome' = "failed" /\ json' = json
         \/ outcome' = "none" /\ json' \in Listings(rows')
      /\ companies' = companies /\ apps' = apps /\ run' = run
      /\ runs' = runs /\ failures' = failures
    BY DEF Import, Free, bounds
<1>2. Fits(rows') /\ DOMAIN rows' = DOMAIN rows \cup {<<Id[p]>>}
    <2>1. <<Id[p]>> \in RowIds
        BY DEF RowIds
    <2>2. Job(p, "Open") \in JobRows /\ Agree(<<Id[p]>>, Job(p, "Open").posting)
        BY DEF Job, JobRows, Statuses, Agree
    <2> QED BY <1>1, <2>1, <2>2, RowsFit, WithFits
<1>3. json' \in Seq(Entries) /\ Range(json') \subseteq Named
    BY <1>1, <1>2, ListingsAre DEF RefreshInv, RefreshTypeOK, WellNamed
<1> QED BY <1>1, <1>2, <1>3, RestKeeps DEF RefreshInv, RefreshTypeOK

\* The removal of a company keeps the invariant.
LEMMA DeleteCompanyKeeps ==
    ASSUME RefreshInv, NEW c \in Companies, DeleteCompany(c)
    PROVE  RefreshInv'
<1> PICK gone : gone = {id \in DOMAIN rows : OwnerOf(rows[id].posting) = c}
    OBVIOUS
<1>1. /\ run = Idle /\ companies' = companies \ {c} /\ rows' = Without(rows, gone)
      /\ apps' = Without(apps, gone) /\ json' \in Listings(rows') /\ outcome' = "none"
      /\ run' = run /\ runs' = runs /\ failures' = failures
    BY DEF DeleteCompany, Free, bounds
<1>2. Fits(rows') /\ DOMAIN rows' = DOMAIN rows \ gone
    BY <1>1, RowsFit, WithoutFits
<1>3. DOMAIN apps' \subseteq DOMAIN rows' /\ Range(apps') \subseteq Openings
    BY <1>1, <1>2 DEF Without, RefreshInv, RefreshTypeOK, Range
<1>4. json' \in Seq(Entries) /\ Range(json') \subseteq Named
    BY <1>1, <1>2, ListingsAre
<1> QED BY <1>1, <1>2, <1>3, <1>4, RestKeeps DEF RefreshInv, RefreshTypeOK

\* The snapshot after an export, or as it was.
LEMMA ExportIs ==
    ASSUME RefreshInv, rows' = rows, Export \/ json' = json
    PROVE  /\ json' \in Seq(Entries) /\ Range(json') \subseteq Named /\ Fits(rows')
           /\ Export => Range(json') = EntriesOf(rows')
BY RowsFit, ListingsAre DEF Export, RefreshInv, RefreshTypeOK, WellNamed

\* A run that ends, and a dry one, keep the invariant.
LEMMA EndsKeep ==
    ASSUME RefreshInv, DryRun \/ CancelSeen \/ Finish \/ Fail \/ Crash
    PROVE  RefreshInv'
<1>1. /\ companies' = companies /\ rows' = rows /\ apps' = apps /\ run' = Idle
      /\ Export \/ json' = json
      /\ outcome' \in {"none", "done", "dry", "cancelled", "failed", "crashed"}
      /\ outcome' \in {"done", "dry", "cancelled"} => Export \/ (At("collecting") /\ json' = json)
    BY DEF DryRun, CancelSeen, Finish, Fail, Crash, End, Free, tables, bounds
<1>2. runs' \in 0..MaxRuns /\ failures' \in 0..MaxFailures
    <2>1. runs \in 0..MaxRuns /\ failures \in 0..MaxFailures /\ MaxRuns \in Nat /\ MaxFailures \in Nat
        BY RefreshAssumption DEF RefreshInv, RefreshTypeOK
    <2>2. /\ runs' = runs \/ (runs < MaxRuns /\ runs' = runs + 1)
          /\ failures' = failures \/ (failures < MaxFailures /\ failures' = failures + 1)
        BY DEF DryRun, CancelSeen, Finish, Fail, Crash, tables, bounds
    <2> QED BY <2>1, <2>2
<1>3. /\ json' \in Seq(Entries) /\ Range(json') \subseteq Named /\ Fits(rows')
      /\ Export => Range(json') = EntriesOf(rows')
    BY <1>1, ExportIs
<1>4. outcome' \in {"done", "dry", "cancelled"} => Range(json') = EntriesOf(rows')
    BY <1>1, <1>3 DEF RefreshInv, Told
<1> QED BY <1>1, <1>2, <1>3, <1>4, RestKeeps DEF RefreshInv, RefreshTypeOK

-----------------------------------------------------------------------------
(* The steps of a run.                                                     *)

\* A run begins with a snapshot that says what the table says, and with nothing found.
LEMMA BeginKeeps ==
    ASSUME RefreshInv, BeginFull \/ BeginSingle
    PROVE  RefreshInv'
<1>1. PICK kind \in {"full", "single"}, scope \in SUBSET (Companies \cup {Nobody}),
           some \in SUBSET companies :
          /\ Begin(kind, scope, some) /\ some \subseteq scope
          /\ kind = "full" => scope = Companies \cup {Nobody}
    <2>1. companies \subseteq Companies
        BY DEF RefreshInv, RefreshTypeOK
    <2>2. CASE BeginFull
        <3>1. PICK some \in SUBSET companies : Begin("full", Companies \cup {Nobody}, some)
            BY <2>2 DEF BeginFull
        <3>2. some \subseteq Companies \cup {Nobody}
            BY <2>1
        <3> QED BY <3>1, <3>2
    <2>3. CASE BeginSingle
        <3>1. PICK c \in companies, some \in SUBSET companies :
                  some \subseteq {c} /\ Begin("single", {c}, some)
            BY <2>3 DEF BeginSingle
        <3>2. {c} \in SUBSET (Companies \cup {Nobody})
            BY <2>1
        <3> QED BY <3>1, <3>2
    <2> QED BY <2>2, <2>3
<1> PICK new : new = [kind |-> kind, scope |-> scope, todo |-> some, complete |-> {},
                      found |-> <<>>, cancelled |-> FALSE, step |-> "collecting"]
    OBVIOUS
<1>2. /\ runs < MaxRuns /\ runs' = runs + 1 /\ run' = new /\ outcome' = "none"
      /\ companies' = companies /\ rows' = rows /\ apps' = apps /\ failures' = failures
      /\ Export
    BY <1>1 DEF Begin, Started, tables
<1>3. new \in Runs
    BY EmptySeq DEF Runs, RefreshInv, RefreshTypeOK
<1>4. /\ new.kind = kind /\ new.scope = scope /\ new.todo = some /\ new.complete = {}
      /\ new.found = <<>> /\ new.step = "collecting"
    OBVIOUS
<1>5. /\ json' \in Seq(Entries) /\ Range(json') \subseteq Named /\ Range(json') = EntriesOf(rows')
    BY <1>2, ExportIs
<1>6. runs' \in 0..MaxRuns
    BY <1>2, RefreshAssumption DEF RefreshInv, RefreshTypeOK
<1>7. RefreshTypeOK'
    BY <1>2, <1>3, <1>5, <1>6 DEF RefreshInv, RefreshTypeOK
<1>8. WellNamed' /\ Told'
    BY <1>2, <1>5 DEF RefreshInv, WellNamed, Told
<1>9. Collected'
    BY <1>1, <1>2, <1>4 DEF Collected, Range
<1>10. MergedRight' /\ BoardIsShown'
    BY <1>2, <1>4 DEF MergedRight, BoardIsShown, At
<1> QED BY <1>7, <1>8, <1>9, <1>10 DEF RefreshInv

\* Only the step at which a run is tells a cancelled one from another.
LEMMA CancelKeeps ==
    ASSUME RefreshInv, Cancel
    PROVE  RefreshInv'
<1> PICK new : new = [run EXCEPT !.cancelled = TRUE]
    OBVIOUS
<1>1. /\ run # Idle /\ run' = new /\ companies' = companies /\ rows' = rows /\ apps' = apps
      /\ json' = json /\ outcome' = outcome /\ runs' = runs /\ failures' = failures
    BY DEF Cancel, Free, tables, bounds
<1>2. run \in Runs
    BY <1>1 DEF RefreshInv, RefreshTypeOK
<1>3. /\ new \in Runs /\ new.kind = run.kind /\ new.scope = run.scope /\ new.todo = run.todo
      /\ new.complete = run.complete /\ new.found = run.found /\ new.step = run.step
    BY <1>2 DEF Runs
<1>4. RefreshTypeOK'
    BY <1>1, <1>3 DEF RefreshInv, RefreshTypeOK
<1>5. \A step : At(step)' => At(step)
    BY <1>1, <1>3 DEF At, Free
<1>6. new # Idle
    BY <1>3 DEF Runs, Idle
<1>7. WellNamed' /\ Told'
    BY <1>1, <1>5, <1>6 DEF RefreshInv, WellNamed, Told, Free
<1>8. Collected'
    BY <1>1, <1>3 DEF RefreshInv, Collected, Free
<1>9. \A p : OwnerOf(p)' = OwnerOf(p) /\ (Open(p)' <=> Open(p))
    BY <1>1 DEF OwnerOf, Open
<1>10. MergedRight'
    BY <1>1, <1>3, <1>5 DEF RefreshInv, MergedRight, OwnerOf, Shadowed
<1>11. BoardIsShown'
    BY <1>1, <1>3, <1>5, <1>9 DEF RefreshInv, BoardIsShown
<1> QED BY <1>4, <1>7, <1>8, <1>10, <1>11 DEF RefreshInv

\* What a collector returned, as rows.
LEMMA ListsAre ==
    ASSUME NEW c, NEW list \in Lists(c), NEW new,
           new = [n \in DOMAIN list |-> Entry(<<Id[list[n]]>>, Job(list[n], "Open"))]
    PROVE  /\ new \in Seq(Entries)
           /\ \A e \in Range(new) : /\ e \in Named /\ e.status = "Open" /\ e.posting \in Valid
                                    /\ Owner[e.posting] = c
<1>1. PICK T \in SUBSET {p \in Valid : Owner[p] = c} : list \in SetToSeqs(T)
    BY DEF Lists
<1>2. T \subseteq Openings /\ Valid \subseteq Openings /\ IsFiniteSet(T)
    <2>1. Valid \subseteq Openings /\ IsFiniteSet(Openings)
        BY RefreshAssumption
    <2>2. T \subseteq Openings
        BY <2>1
    <2> QED BY <2>1, <2>2, FS_Subset
<1>3. list \in Seq(T) /\ Range(list) = T
    BY <1>1, <1>2, EnumeratedAre
<1> PICK N \in Nat : N = Len(list)
    BY <1>3, MembersAre
<1>4. DOMAIN list = 1..N /\ \A n \in 1..N : list[n] \in T
    BY <1>3, MembersAre
<1>5. ASSUME NEW n \in 1..N
      PROVE  /\ new[n] \in Named /\ new[n].status = "Open" /\ new[n].posting \in Valid
             /\ Owner[new[n].posting] = c
    <2>1. list[n] \in Openings /\ list[n] \in Valid /\ Owner[list[n]] = c
        BY <1>2, <1>4
    <2>2. new[n] = [id |-> <<Id[list[n]]>>, posting |-> list[n], status |-> "Open"]
        BY <1>4 DEF Entry, Job
    <2>3. <<Id[list[n]]>> \in RowIds
        BY <2>1 DEF RowIds
    <2>4. new[n] \in Entries
        BY <2>1, <2>2, <2>3 DEF Entries, Statuses
    <2> QED BY <2>1, <2>2, <2>4 DEF Named, Agree
<1>6. DOMAIN new = 1..N /\ \A n \in 1..N : new[n] \in Entries
    BY <1>4, <1>5 DEF Named
<1>7. new \in [1..N -> Entries]
    <2>1. new = [n \in 1..N |-> new[n]]
        BY <1>4
    <2> HIDE DEF Named
    <2> QED BY <1>6, <2>1
<1>8. new \in Seq(Entries)
    BY <1>7, SeqDef
<1>9. \A e \in Range(new) : \E n \in 1..N : e = new[n]
    BY <1>6 DEF Range
<1>10. ASSUME NEW e \in Range(new)
       PROVE  /\ e \in Named /\ e.status = "Open" /\ e.posting \in Valid
              /\ Owner[e.posting] = c
    <2>1. PICK n \in 1..N : e = new[n]
        BY <1>9
    <2> QED BY <1>5, <2>1, Zenon
<1> QED BY <1>8, <1>10

\* The members of two lists joined.
LEMMA JoinedAre ==
    ASSUME NEW S, NEW s \in Seq(S), NEW t \in Seq(S)
    PROVE  s \o t \in Seq(S) /\ Range(s \o t) = Range(s) \cup Range(t)
<1> PICK u : u = s \o t
    OBVIOUS
<1> PICK K, F : K = Len(s) /\ F = Len(t)
    OBVIOUS
<1>1. /\ K \in Nat /\ F \in Nat /\ DOMAIN s = 1..K /\ DOMAIN t = 1..F
    BY MembersAre
<1>2. /\ s \o t \in Seq(S)
      /\ Len(s \o t) = Len(s) + Len(t)
      /\ \A i \in 1..Len(s) + Len(t) : (s \o t)[i] = IF i <= Len(s) THEN s[i] ELSE t[i - Len(s)]
    BY ConcatProperties
<1>3. /\ u \in Seq(S) /\ Len(u) = K + F
      /\ \A i \in 1..(K + F) : u[i] = IF i <= K THEN s[i] ELSE t[i - K]
    BY <1>2
<1>4. DOMAIN u = 1..(K + F)
    BY <1>3, MembersAre
<1>5. \A i \in 1..(K + F) : \/ i \in 1..K /\ u[i] = s[i]
                            \/ i - K \in 1..F /\ u[i] = t[i - K]
    BY <1>1, <1>3
<1>6. \A i \in 1..K : i \in 1..(K + F) /\ u[i] = s[i]
    BY <1>1, <1>3
<1>7. \A i \in 1..F : i + K \in 1..(K + F) /\ u[i + K] = t[i]
    <2> TAKE i \in 1..F
    <2>1. i + K \in 1..(K + F) /\ ~(i + K <= K) /\ (i + K) - K = i
        BY <1>1
    <2> QED BY <1>3, <2>1
<1>8. Range(u) \subseteq Range(s) \cup Range(t)
    BY <1>1, <1>4, <1>5 DEF Range
<1>9. Range(s) \subseteq Range(u)
    BY <1>1, <1>4, <1>6 DEF Range
<1>10. Range(t) \subseteq Range(u)
    BY <1>1, <1>4, <1>7 DEF Range
<1> QED BY <1>3, <1>8, <1>9, <1>10

\* What one more collector returned is of its company, and nothing else changes.
LEMMA CollectKeeps ==
    ASSUME RefreshInv, NEW c \in Companies, NEW complete \in BOOLEAN, NEW list \in Lists(c),
           Collect(c, list, complete)
    PROVE  RefreshInv'
<1> PICK added : added = [n \in DOMAIN list |-> Entry(<<Id[list[n]]>>, Job(list[n], "Open"))]
    OBVIOUS
<1> PICK new : new = [run EXCEPT !.todo = @ \ {c},
                                 !.complete = IF complete THEN @ \cup {c} ELSE @,
                                 !.found = @ \o added]
    OBVIOUS
<1>1. /\ run # Idle /\ run.step = "collecting" /\ c \in run.todo /\ run' = new
      /\ companies' = companies /\ rows' = rows /\ apps' = apps
      /\ json' = json /\ outcome' = outcome /\ runs' = runs /\ failures' = failures
    BY DEF Collect, At, Free, tables, bounds
<1>2. run \in Runs
    BY <1>1 DEF RefreshInv, RefreshTypeOK
<1>3. /\ added \in Seq(Entries)
      /\ \A e \in Range(added) : /\ e \in Named /\ e.status = "Open" /\ e.posting \in Valid
                                 /\ Owner[e.posting] = c
    BY ListsAre
<1>4. run.found \in Seq(Entries)
    BY <1>2 DEF Runs
<1> PICK joined : joined = run.found \o added
    OBVIOUS
<1>5. joined \in Seq(Entries) /\ Range(joined) = Range(run.found) \cup Range(added)
    <2> PICK before \in Seq(Entries) : before = run.found
        BY <1>4
    <2>0. added \in Seq(Entries)
        BY <1>3
    <2>1. /\ before \o added \in Seq(Entries)
          /\ Range(before \o added) = Range(before) \cup Range(added)
        BY <2>0, JoinedAre
    <2> QED BY <2>1
<1> PICK left, all : /\ left = run.todo \ {c}
                     /\ all = IF complete THEN run.complete \cup {c} ELSE run.complete
    OBVIOUS
<1>6. new = [run EXCEPT !.todo = left, !.complete = all, !.found = joined]
    OBVIOUS
<1>60. left \in SUBSET Companies /\ all \in SUBSET Companies
    BY <1>2 DEF Runs
<1>7. /\ new \in Runs /\ new.kind = run.kind /\ new.scope = run.scope
      /\ new.todo = run.todo \ {c} /\ new.step = run.step /\ new.found = joined
      /\ new.complete = IF complete THEN run.complete \cup {c} ELSE run.complete
    <2> PICK r \in Runs : r = run
        BY <1>2
    <2>1. joined \in Seq(Entries) /\ left \in SUBSET Companies /\ all \in SUBSET Companies
        BY <1>5, <1>60
    <2>2. new = [r EXCEPT !.todo = left, !.complete = all, !.found = joined]
        BY <1>6
    <2>3. /\ new \in Runs /\ new.kind = r.kind /\ new.scope = r.scope /\ new.todo = left
          /\ new.complete = all /\ new.found = joined /\ new.step = r.step
        BY ONLY <2>1, <2>2 DEF Runs
    <2> QED BY <2>3
<1>8. RefreshTypeOK'
    BY <1>1, <1>7 DEF RefreshInv, RefreshTypeOK
<1>9. At("collecting") /\ ~At("merged")' /\ ~At("stored")' /\ ~Free /\ ~Free'
    BY <1>1, <1>7 DEF At, Free, Idle, Runs
<1>10. WellNamed' /\ Told'
    BY <1>1, <1>9 DEF RefreshInv, WellNamed, Told
<1>11. MergedRight' /\ BoardIsShown'
    BY <1>9 DEF MergedRight, BoardIsShown
<1>12. Collected'
    <2>1. /\ run.kind = "full" => run.scope = Companies \cup {Nobody}
          /\ run.todo \cup run.complete \subseteq companies \cap run.scope
          /\ \A e \in Range(run.found) :
                /\ e \in Named /\ e.status = "Open" /\ e.posting \in Valid
                /\ Owner[e.posting] \in companies \cap run.scope
        BY <1>9 DEF RefreshInv, Collected
    <2>2. /\ new.kind = "full" => new.scope = Companies \cup {Nobody}
          /\ new.todo \cup new.complete \subseteq companies \cap new.scope
        BY <1>1, <1>7, <2>1
    <2>3. ASSUME NEW e \in Range(new.found)
          PROVE  /\ e \in Named /\ e.status = "Open" /\ e.posting \in Valid
                 /\ Owner[e.posting] \in companies \cap new.scope
        BY <1>1, <1>3, <1>5, <1>7, <2>1, <2>3
    <2>4. \A e \in Range(new.found) : /\ e \in Named /\ e.status = "Open" /\ e.posting \in Valid
                                      /\ Owner[e.posting] \in companies \cap new.scope
        BY <2>3
    <2> QED BY <1>1, <2>2, <2>4 DEF Collected, Range
<1> QED BY <1>8, <1>10, <1>11, <1>12 DEF RefreshInv

\* The merge keeps the invariant: what it kept is from the table, by way of the snapshot.
LEMMA MergeKeeps ==
    ASSUME RefreshInv, Merge
    PROVE  RefreshInv'
<1> PICK new : new = [run EXCEPT !.step = "merged"]
    OBVIOUS
<1> PICK old : old = Kept
    OBVIOUS
<1> PICK merged : merged = Merged
    OBVIOUS
<1>1. /\ run # Idle /\ run.step = "collecting" /\ run' = new /\ json' = merged
      /\ companies' = companies /\ rows' = rows /\ apps' = apps
      /\ outcome' = outcome /\ runs' = runs /\ failures' = failures
    BY DEF Merge, At, Free, tables, bounds
<1>2. run \in Runs
    BY <1>1 DEF RefreshInv, RefreshTypeOK
<1>3. /\ new \in Runs /\ new.kind = run.kind /\ new.scope = run.scope /\ new.todo = run.todo
      /\ new.complete = run.complete /\ new.found = run.found /\ new.step = "merged"
    BY <1>2 DEF Runs
<1>4. /\ Range(json) = EntriesOf(rows) /\ Range(json) \subseteq Named /\ json \in Seq(Entries)
    BY <1>1 DEF RefreshInv, Told, At, Free, WellNamed, RefreshTypeOK
<1>5. /\ run.found \in Seq(Entries)
      /\ \A e \in Range(run.found) : e \in Named /\ e.posting \in Valid
    BY <1>1, <1>2 DEF RefreshInv, Collected, Free, Runs
<1> PICK rest : rest = Openings \ OwnedBy(run.complete)
    OBVIOUS
<1>6. old \in Seq(Entries) /\ Range(old) = {e \in Range(json) : e.posting \in rest}
    <2>1. old = Picked(json, rest)
        BY DEF Kept
    <2> QED BY <1>4, <2>1, PickedAre
<1>7. merged = Picked(Unique(old \o run.found), Valid)
    BY DEF Merged
<1> PICK new0 \in Seq(Entries) : new0 = run.found
    BY <1>5
<1>8. /\ merged \in Seq(Entries) /\ LinksApart(merged)
      /\ Range(merged) \subseteq Range(old) \cup Range(new0)
      /\ \A e \in Range(new0) :
            \E d \in Range(new0) \cap Range(merged) : Link[d.posting] = Link[e.posting]
      /\ \A e \in Range(old) :
            \/ \E d \in Range(merged) : Link[d.posting] = Link[e.posting]
            \/ \E d \in Range(old) : d.posting \notin Valid /\ Link[d.posting] = Link[e.posting]
    BY <1>5, <1>6, <1>7, MergeIs
<1>9. \A e \in Range(old) : e \in EntriesOf(rows) /\ OwnerOf(e.posting) \notin run.complete
    <2> TAKE e \in Range(old)
    <2>1. e \in Range(json) /\ e \in Named /\ e.posting \in rest
        BY <1>4, <1>6
    <2> QED BY <1>4, <2>1 DEF OwnedBy
<1>10. ASSUME NEW id \in DOMAIN rows, OwnerOf(rows[id].posting) \notin run.complete,
              ~ Shadowed(id)
       PROVE  \E d \in Range(merged) : Link[d.posting] = Link[rows[id].posting]
    <2> PICK e : e = Entry(id, rows[id])
        OBVIOUS
    <2>1. e \in Range(json) /\ e.posting = rows[id].posting
        BY <1>4 DEF EntriesOf, Entry
    <2>2. e.posting \in rest
        BY <1>4, <1>10, <2>1 DEF OwnedBy, Named, Entries
    <2>3. e \in Range(old)
        BY <1>6, <2>1, <2>2
    <2>4. CASE \E d \in Range(merged) : Link[d.posting] = Link[e.posting]
        BY <2>1, <2>4
    <2>5. CASE \E d \in Range(old) : d.posting \notin Valid /\ Link[d.posting] = Link[e.posting]
        <3>1. PICK d \in Range(old) : d.posting \notin Valid /\ Link[d.posting] = Link[e.posting]
            BY <2>5
        <3>2. PICK i \in DOMAIN rows : d = Entry(i, rows[i])
            BY <1>9, <3>1 DEF EntriesOf
        <3>3. d.posting = rows[i].posting
            BY <3>2 DEF Entry
        <3> QED BY <1>10, <2>1, <3>1, <3>3 DEF Shadowed
    <2> QED BY <1>8, <2>3, <2>4, <2>5
<1>11. RefreshTypeOK'
    BY <1>1, <1>3, <1>8 DEF RefreshInv, RefreshTypeOK
<1>12. WellNamed'
    <2>1. Range(merged) \subseteq Named
        BY <1>4, <1>5, <1>6, <1>8
    <2> QED BY <1>1, <2>1 DEF RefreshInv, WellNamed, Range
<1>13. ~At("collecting")' /\ ~At("stored")' /\ ~Free /\ ~Free'
    BY <1>1, <1>3 DEF At, Free, Idle, Runs
<1>14. Told' /\ BoardIsShown'
    BY <1>13 DEF Told, BoardIsShown
<1>15. Collected'
    BY <1>1, <1>3, <1>13 DEF RefreshInv, Collected
<1>16. MergedRight'
    <2>1. \A p : OwnerOf(p)' = OwnerOf(p)
        BY <1>1 DEF OwnerOf
    <2>2. \A id : Shadowed(id)' <=> Shadowed(id)
        BY <1>1 DEF Shadowed
    <2>3. EntriesOf(rows)' = EntriesOf(rows)
        BY <1>1 DEF EntriesOf
    <2>4. \A e \in Range(run.found) :
            \E d \in Range(run.found) \cap Range(merged) : Link[d.posting] = Link[e.posting]
        BY <1>8
    <2>5. \A d \in Range(merged) \ Range(run.found) :
            d \in EntriesOf(rows) /\ OwnerOf(d.posting) \notin run.complete
        BY <1>8, <1>9
    <2>6. /\ json' = merged /\ rows' = rows /\ (run.found)' = run.found
          /\ (run.complete)' = run.complete
        BY <1>1, <1>3
    <2>7. LinksApart(json)'
        BY <1>8, <2>6 DEF LinksApart
    <2>8. (\A e \in Range(run.found) :
              \E d \in Range(run.found) \cap Range(json) : Link[d.posting] = Link[e.posting])'
        BY <2>4, <2>6 DEF Range
    <2>9. (\A d \in Range(json) \ Range(run.found) :
              d \in EntriesOf(rows) /\ OwnerOf(d.posting) \notin run.complete)'
        BY <2>1, <2>3, <2>5, <2>6 DEF Range
    <2>10. (\A id \in DOMAIN rows :
              OwnerOf(rows[id].posting) \notin run.complete /\ ~Shadowed(id) =>
                  \E d \in Range(json) : Link[d.posting] = Link[rows[id].posting])'
        BY <1>10, <2>1, <2>2, <2>6 DEF Range
    <2> QED BY <2>7, <2>8, <2>9, <2>10 DEF MergedRight
<1> QED BY <1>11, <1>12, <1>14, <1>15, <1>16 DEF RefreshInv

\* The table when it was made equal to a list.
LEMMA StoreIs ==
    ASSUME Fits(rows), NEW list \in Seq(Named), LinksApart(list), NEW scope, Store(list, scope)
    PROVE  /\ Fits(rows')
           /\ \A id \in DOMAIN rows :
                 id \in DOMAIN apps \/ OwnerOf(rows[id].posting) \notin scope => id \in DOMAIN rows'
           /\ \A id \in DOMAIN rows' :
                 \/ \E e \in Range(list) : rows'[id] = Job(e.posting, e.status)
                 \/ /\ id \in DOMAIN rows /\ OwnerOf(rows[id].posting) \in scope
                    /\ rows'[id] = Job(rows[id].posting, "Archived")
                 \/ /\ id \in DOMAIN rows /\ OwnerOf(rows[id].posting) \notin scope
                    /\ rows'[id] = rows[id]
           /\ \A e \in Range(list) :
                 \E id \in DOMAIN rows' : rows'[id] = Job(e.posting, e.status)
<1> PICK new : new = Prepare(list)
    OBVIOUS
<1>1. /\ new \in Tables
      /\ \A id \in DOMAIN new :
            /\ Agree(id, new[id].posting)
            /\ \E e \in Range(list) : new[id] = Job(e.posting, e.status)
      /\ \A e \in Range(list) : \E id \in DOMAIN new : new[id] = Job(e.posting, e.status)
    BY PrepareAre
<1>2. DOMAIN new \subseteq RowIds /\ \A id \in DOMAIN new : new[id] \in JobRows
    BY <1>1 DEF Tables
<1> PICK old : old = {id \in DOMAIN rows : OwnerOf(rows[id].posting) \in scope => id \in DOMAIN apps}
    OBVIOUS
<1> PICK rest : rest = Pruned(scope)
    OBVIOUS
<1>3. /\ rows' = [id \in DOMAIN new \cup DOMAIN rest |->
                     IF id \in DOMAIN new THEN new[id] ELSE rest[id]]
      /\ DOMAIN rest = old
      /\ \A id \in old :
            rest[id] = IF OwnerOf(rows[id].posting) \in scope THEN Job(rows[id].posting, "Archived")
                                                              ELSE rows[id]
    BY DEF Store, Pruned
<1>4. /\ DOMAIN rows' = DOMAIN new \cup old
      /\ \A id \in DOMAIN new : rows'[id] = new[id]
      /\ \A id \in old \ DOMAIN new :
            rows'[id] = IF OwnerOf(rows[id].posting) \in scope THEN Job(rows[id].posting, "Archived")
                                                               ELSE rows[id]
    BY <1>3
<1>5. \A id \in DOMAIN rows : /\ id \in RowIds /\ rows[id] \in JobRows
                              /\ Agree(id, rows[id].posting)
    BY DEF Fits
<1>6. \A job \in JobRows : /\ Job(job.posting, "Archived") \in JobRows
                           /\ Job(job.posting, "Archived").posting = job.posting
    BY DEF JobRows, Job, Statuses
<1>7. ASSUME NEW id \in DOMAIN rows'
      PROVE  id \in RowIds /\ rows'[id] \in JobRows /\ Agree(id, rows'[id].posting)
    <2>1. CASE id \in DOMAIN new
        BY <1>1, <1>2, <1>4, <2>1
    <2>2. CASE id \in old \ DOMAIN new
        <3>1. id \in DOMAIN rows
            BY <2>2
        <3> QED BY <1>4, <1>5, <1>6, <2>2, <3>1
    <2> QED BY <1>4, <2>1, <2>2
<1>8. Fits(rows')
    BY <1>7 DEF Fits
<1>9. \A id \in DOMAIN rows :
         id \in DOMAIN apps \/ OwnerOf(rows[id].posting) \notin scope => id \in DOMAIN rows'
    BY <1>4
<1>10. ASSUME NEW id \in DOMAIN rows'
       PROVE  \/ \E e \in Range(list) : rows'[id] = Job(e.posting, e.status)
              \/ /\ id \in DOMAIN rows /\ OwnerOf(rows[id].posting) \in scope
                 /\ rows'[id] = Job(rows[id].posting, "Archived")
              \/ /\ id \in DOMAIN rows /\ OwnerOf(rows[id].posting) \notin scope
                 /\ rows'[id] = rows[id]
    <2>1. CASE id \in DOMAIN new
        BY <1>1, <1>4, <2>1
    <2>2. CASE id \in old \ DOMAIN new
        BY <1>4, <2>2
    <2> QED BY <1>4, <2>1, <2>2
<1>11. \A e \in Range(list) : \E id \in DOMAIN rows' : rows'[id] = Job(e.posting, e.status)
    <2> TAKE e \in Range(list)
    <2>1. PICK id \in DOMAIN new : new[id] = Job(e.posting, e.status)
        BY <1>1
    <2>2. id \in DOMAIN rows' /\ rows'[id] = Job(e.posting, e.status)
        BY <1>4, <2>1
    <2> QED BY <2>2
<1> QED BY <1>8, <1>9, <1>10, <1>11

\* What a refresh stores: of the snapshot, the rows in its scope.
Scoped == Picked(json, OwnedBy(run.scope))

\* It has one row a link.
LEMMA ScopedIs ==
    ASSUME RefreshInv, At("merged")
    PROVE  /\ run \in Runs
           /\ Scoped \in Seq(Named) /\ LinksApart(Scoped)
           /\ Range(Scoped) = {e \in Range(json) : e.posting \in OwnedBy(run.scope)}
<1>1. /\ run \in Runs /\ json \in Seq(Entries) /\ Range(json) \subseteq Named /\ LinksApart(json)
    BY DEF At, Free, RefreshInv, RefreshTypeOK, WellNamed, MergedRight
<1> PICK list, some : list = Scoped /\ some = OwnedBy(run.scope)
    OBVIOUS
<1>2. /\ list \in Seq(Entries) /\ LinksApart(list)
      /\ Range(list) = {e \in Range(json) : e.posting \in some}
    <2>1. list = Picked(json, some)
        BY DEF Scoped
    <2> QED BY <1>1, <2>1, PickedAre
<1>3. list \in Seq(Named)
    <2> PICK N \in Nat : N = Len(list)
        BY <1>2, MembersAre
    <2>1. DOMAIN list = 1..N /\ \A i \in 1..N : list[i] \in Range(list)
        BY <1>2, MembersAre
    <2>2. \A i \in 1..N : list[i] \in Named
        BY <1>1, <1>2, <2>1
    <2>3. list = [i \in 1..N |-> list[i]]
        <3>1. list \in [1..Len(list) -> Entries]
            BY <1>2, LenProperties
        <3> QED BY <3>1
    <2>4. list \in [1..N -> Named]
        BY ONLY <2>2, <2>3
    <2> QED BY <2>4, SeqDef
<1> QED BY <1>1, <1>2, <1>3

\* The table after a refresh was stored.
LEMMA ReplaceIs ==
    ASSUME RefreshInv, Replace
    PROVE  /\ Fits(rows')
           /\ \A id \in DOMAIN rows :
                 id \in DOMAIN apps \/ OwnerOf(rows[id].posting) \notin run.scope
                    => id \in DOMAIN rows'
           /\ \A id \in DOMAIN rows' :
                 \/ \E e \in Range(Scoped) : rows'[id] = Job(e.posting, e.status)
                 \/ /\ id \in DOMAIN rows /\ OwnerOf(rows[id].posting) \in run.scope
                    /\ rows'[id] = Job(rows[id].posting, "Archived")
                 \/ /\ id \in DOMAIN rows /\ OwnerOf(rows[id].posting) \notin run.scope
                    /\ rows'[id] = rows[id]
           /\ \A e \in Range(Scoped) :
                 \E id \in DOMAIN rows' : rows'[id] = Job(e.posting, e.status)
<1> PICK list, scope : list = Scoped /\ scope = run.scope
    OBVIOUS
<1>1. Fits(rows) /\ list \in Seq(Named) /\ LinksApart(list) /\ Store(list, scope)
    BY ScopedIs, RowsFit DEF Replace, Scoped
<1>2. /\ Fits(rows')
      /\ \A id \in DOMAIN rows :
            id \in DOMAIN apps \/ OwnerOf(rows[id].posting) \notin scope => id \in DOMAIN rows'
      /\ \A id \in DOMAIN rows' :
            \/ \E e \in Range(list) : rows'[id] = Job(e.posting, e.status)
            \/ /\ id \in DOMAIN rows /\ OwnerOf(rows[id].posting) \in scope
               /\ rows'[id] = Job(rows[id].posting, "Archived")
            \/ /\ id \in DOMAIN rows /\ OwnerOf(rows[id].posting) \notin scope
               /\ rows'[id] = rows[id]
      /\ \A e \in Range(list) :
            \E id \in DOMAIN rows' : rows'[id] = Job(e.posting, e.status)
    BY <1>1, StoreIs
<1> QED BY <1>2

\* After the table was replaced the boards are shown.
LEMMA ReplaceKeeps ==
    ASSUME RefreshInv, Replace
    PROVE  RefreshInv'
<1> PICK new : new = [run EXCEPT !.step = "stored"]
    OBVIOUS
<1>1. /\ At("merged") /\ run # Idle /\ run.step = "merged" /\ run' = new /\ json' = json
      /\ companies' = companies /\ apps' = apps
      /\ outcome' = outcome /\ runs' = runs /\ failures' = failures
    BY DEF Replace, At, Free, bounds
<1>2. run \in Runs
    BY <1>1 DEF RefreshInv, RefreshTypeOK
<1>3. /\ new \in Runs /\ new.kind = run.kind /\ new.scope = run.scope /\ new.todo = run.todo
      /\ new.complete = run.complete /\ new.found = run.found /\ new.step = "stored"
    BY <1>2 DEF Runs
<1>4. /\ ~At("collecting")' /\ ~At("merged")' /\ ~Free /\ ~Free'
    BY <1>1, <1>3 DEF At, Free, Idle, Runs
<1>5. RefreshTypeOK'
    <2>1. Fits(rows')
        BY ReplaceIs
    <2>2. DOMAIN apps \subseteq DOMAIN rows'
        BY ReplaceIs DEF RefreshInv, RefreshTypeOK
    <2> QED BY <1>1, <1>3, <2>1, <2>2 DEF RefreshInv, RefreshTypeOK, Fits, JobRows
<1>6. WellNamed'
    BY <1>1, ReplaceIs DEF RefreshInv, WellNamed, Fits, Range
<1>7. Told' /\ MergedRight'
    BY <1>4 DEF Told, MergedRight
<1>8. Collected'
    BY <1>1, <1>3, <1>4 DEF RefreshInv, Collected
<1>9. ASSUME run.kind = "full"
      PROVE  /\ \A e \in Range(run.found) :
                   \E p \in Openings : /\ Link[p] = Link[e.posting]
                                       /\ \E id \in DOMAIN rows' : rows'[id] = Job(p, "Open")
             /\ \A p \in Openings :
                   OwnerOf(p) \in run.complete /\ (\E id \in DOMAIN rows' : rows'[id] = Job(p, "Open"))
                      => \E e \in Range(run.found) : e.posting = p
    <2>1. run.scope = Companies \cup {Nobody} /\ companies \subseteq Companies
        BY <1>4, <1>9 DEF RefreshInv, Collected, RefreshTypeOK
    <2>2. \A p : OwnerOf(p) \in run.scope
        BY <2>1 DEF OwnerOf
    <2>3. \A e \in Range(json) : e \in Named /\ e.posting \in Openings
        BY DEF RefreshInv, WellNamed, Named, Entries
    <2>4. \A e : e \in Range(Scoped) <=> e \in Range(json)
        BY <1>1, <2>2, <2>3, ScopedIs DEF OwnedBy
    <2>5. ASSUME NEW e \in Range(run.found)
          PROVE  \E p \in Openings : /\ Link[p] = Link[e.posting]
                                     /\ \E id \in DOMAIN rows' : rows'[id] = Job(p, "Open")
        <3>1. PICK d \in Range(run.found) \cap Range(json) : Link[d.posting] = Link[e.posting]
            BY <1>1 DEF RefreshInv, MergedRight
        <3>2. d.status = "Open" /\ d.posting \in Openings /\ d \in Range(Scoped)
            BY <1>4, <2>3, <2>4, <3>1 DEF RefreshInv, Collected
        <3>3. \E id \in DOMAIN rows' : rows'[id] = Job(d.posting, "Open")
            BY <3>2, ReplaceIs
        <3> QED BY <3>1, <3>2, <3>3
    <2>6. ASSUME NEW p \in Openings, OwnerOf(p) \in run.complete,
                 NEW id \in DOMAIN rows', rows'[id] = Job(p, "Open")
          PROVE  \E e \in Range(run.found) : e.posting = p
        <3>1. \/ \E e \in Range(Scoped) : rows'[id] = Job(e.posting, e.status)
              \/ \E q : rows'[id] = Job(q, "Archived")
            BY <2>2, ReplaceIs
        <3>2. PICK e \in Range(Scoped) : rows'[id] = Job(e.posting, e.status)
            <4>1. ASSUME NEW q PROVE Job(p, "Open") # Job(q, "Archived")
                <5>1. Job(p, "Open").status = "Open" /\ Job(q, "Archived").status = "Archived"
                    BY DEF Job
                <5> QED BY <5>1
            <4> QED BY <2>6, <3>1, <4>1
        <3>3. e.posting = p /\ e \in Range(json)
            BY <2>4, <2>6, <3>2 DEF Job
        <3>4. e \in Range(run.found)
            BY <1>1, <2>6, <3>3 DEF RefreshInv, MergedRight
        <3> QED BY <3>3, <3>4
    <2> QED BY <2>5, <2>6
<1>10. BoardIsShown'
    <2>1. \A p : OwnerOf(p)' = OwnerOf(p)
        BY <1>1 DEF OwnerOf
    <2>2. \A p : Open(p)' <=> \E id \in DOMAIN rows' : rows'[id] = Job(p, "Open")
        BY DEF Open
    <2>3. (run.kind)' = run.kind /\ (run.found)' = run.found /\ (run.complete)' = run.complete
        BY <1>1, <1>3
    <2>4. Range(run.found)' = Range(run.found)
        BY <2>3 DEF Range
    <2> QED BY <1>9, <2>1, <2>2, <2>3, <2>4 DEF BoardIsShown
<1> QED BY <1>5, <1>6, <1>7, <1>8, <1>10 DEF RefreshInv

-----------------------------------------------------------------------------
(* The invariant and what it gives.                                        *)

\* The invariant holds at the start.
LEMMA RefreshInitEstablishes == RefreshInit => RefreshInv
<1> SUFFICES ASSUME RefreshInit PROVE RefreshInv
    OBVIOUS
<1>1. Free /\ \A step : ~At(step)
    BY DEF RefreshInit, Free, At
<1>2. /\ rows = <<>> /\ apps = <<>> /\ json = <<>> /\ companies = Companies /\ run = Idle
      /\ outcome = "none" /\ runs = 0 /\ failures = 0
    BY DEF RefreshInit
<1>3. DOMAIN rows = {} /\ DOMAIN apps = {} /\ Range(apps) = {} /\ Range(json) = {}
    BY <1>2 DEF Range
<1>4. json \in Seq(Entries)
    BY <1>2, EmptySeq
<1>5. 0 \in 0..MaxRuns /\ 0 \in 0..MaxFailures
    BY RefreshAssumption
<1>6. RefreshTypeOK
    BY <1>2, <1>3, <1>4, <1>5 DEF RefreshTypeOK
<1>7. WellNamed /\ Told /\ Collected /\ MergedRight /\ BoardIsShown
    BY <1>1, <1>2, <1>3 DEF WellNamed, Told, Collected, MergedRight, BoardIsShown
<1> QED BY <1>6, <1>7 DEF RefreshInv

\* Every step keeps the invariant.
LEMMA RefreshStepKeeps == RefreshInv /\ [RefreshNext]_refreshVars => RefreshInv'
<1> SUFFICES ASSUME RefreshInv, [RefreshNext]_refreshVars PROVE RefreshInv'
    OBVIOUS
<1>1. CASE \E id \in RowIds : Apply(id)
    BY <1>1, ApplyKeeps
<1>2. CASE \E p \in Openings, cancelled \in BOOLEAN : Import(p, cancelled)
    BY <1>2, ImportKeeps
<1>3. CASE \E c \in Companies : DeleteCompany(c)
    BY <1>3, DeleteCompanyKeeps
<1>4. CASE BeginFull \/ BeginSingle
    BY <1>4, BeginKeeps
<1>5. CASE DryRun \/ CancelSeen \/ Finish \/ Fail \/ Crash
    BY <1>5, EndsKeep
<1>6. CASE Cancel
    BY <1>6, CancelKeeps
<1>7. CASE \E c \in Companies, complete \in BOOLEAN : \E list \in Lists(c) :
               Collect(c, list, complete)
    BY <1>7, CollectKeeps
<1>8. CASE Merge
    BY <1>8, MergeKeeps
<1>9. CASE Replace
    BY <1>9, ReplaceKeeps
<1>10. CASE UNCHANGED refreshVars
    <2>1. /\ companies' = companies /\ rows' = rows /\ apps' = apps /\ json' = json
          /\ run' = run /\ outcome' = outcome /\ runs' = runs /\ failures' = failures
        BY <1>10 DEF refreshVars
    <2>2. Free' = Free /\ \A step : At(step)' = At(step)
        BY <2>1 DEF Free, At
    <2>3. EntriesOf(rows)' = EntriesOf(rows)
        BY <2>1 DEF EntriesOf
    <2>4. \A p : OwnerOf(p)' = OwnerOf(p) /\ Shadowed(p)' = Shadowed(p) /\ Open(p)' = Open(p)
        BY <2>1 DEF OwnerOf, Shadowed, Open
    <2>5. RefreshTypeOK'
        BY <2>1 DEF RefreshInv, RefreshTypeOK
    <2>6. WellNamed' /\ Told' /\ Collected'
        BY <2>1, <2>2, <2>3 DEF RefreshInv, WellNamed, Told, Collected
    <2>7. MergedRight' /\ BoardIsShown'
        BY <2>1, <2>2, <2>3, <2>4 DEF RefreshInv, MergedRight, BoardIsShown
    <2> QED BY <2>5, <2>6, <2>7 DEF RefreshInv
<1> QED BY <1>1, <1>2, <1>3, <1>4, <1>5, <1>6, <1>7, <1>8, <1>9, <1>10 DEF RefreshNext

\* Every state a refresh, an edit, a failure or a crash can reach satisfies the
\* invariant.
THEOREM RefreshInvariance == RefreshSpec => []RefreshInv
BY RefreshInitEstablishes, RefreshStepKeeps, PTL DEF RefreshSpec

\* Tables, snapshot and run keep their types (job_tools.py, server.py).
THEOREM RefreshTypeCorrect == RefreshSpec => []RefreshTypeOK
<1>1. RefreshInv => RefreshTypeOK
    BY DEF RefreshInv
<1> QED BY <1>1, RefreshInvariance, PTL

\* After a full refresh, for any boards, links and ids, the table shows of a company that
\* was read completely exactly the postings that were found (replace_jobs).
THEOREM BoardShown == RefreshSpec => []BoardIsShown
<1>1. RefreshInv => BoardIsShown
    BY DEF RefreshInv
<1> QED BY <1>1, RefreshInvariance, PTL

\* After a run that ended well, was cancelled or only tried, jobs.json says what the
\* table says (export_jobs).
THEOREM SnapshotIsTrue == RefreshSpec => []SnapshotAgrees
<1>1. RefreshInv => SnapshotAgrees
    BY DEF RefreshInv, Told, SnapshotAgrees, EntriesOf
<1> QED BY <1>1, RefreshInvariance, PTL

\* What a refresh stores leaves out nothing it must keep.
LEMMA ReplaceLosesNothing ==
    ASSUME RefreshInv, Replace, NEW id \in DOMAIN rows
    PROVE  /\ id \in DOMAIN apps => id \in DOMAIN rows'
           /\ OwnerOf(rows[id].posting) \notin run.complete /\ ~Shadowed(id) /\ ~Displaced(id) =>
                 \E i \in DOMAIN rows' : Link[rows'[i].posting] = Link[rows[id].posting]
<1>1. id \in DOMAIN apps => id \in DOMAIN rows'
    BY ReplaceIs
<1> SUFFICES ASSUME OwnerOf(rows[id].posting) \notin run.complete, ~Shadowed(id), ~Displaced(id)
             PROVE  \E i \in DOMAIN rows' : Link[rows'[i].posting] = Link[rows[id].posting]
    BY <1>1
<1>2. At("merged") /\ ~Free
    BY DEF Replace, At
\* The row of a company out of scope is there still, with another job at most.
<1>3. ASSUME NEW i \in DOMAIN rows, OwnerOf(rows[i].posting) \notin run.scope,
             Link[rows[i].posting] = Link[rows[id].posting]
      PROVE  \E k \in DOMAIN rows' : Link[rows'[k].posting] = Link[rows[id].posting]
    <2>1. i \in DOMAIN rows'
        BY <1>3, ReplaceIs
    <2>2. rows'[i].posting = rows[i].posting
        BY <1>3, <2>1 DEF Displaced
    <2> QED BY <1>3, <2>1, <2>2
<1>4. CASE OwnerOf(rows[id].posting) \notin run.scope
    BY <1>3, <1>4
<1>5. CASE OwnerOf(rows[id].posting) \in run.scope
    <2>1. PICK d \in Range(json) : Link[d.posting] = Link[rows[id].posting]
        BY <1>2 DEF RefreshInv, MergedRight
    <2>2. d.posting \in Openings
        BY DEF RefreshInv, WellNamed, Named, Entries
    <2>3. CASE OwnerOf(d.posting) \in run.scope
        <3>1. d \in Range(Scoped)
            BY <1>2, <2>2, <2>3, ScopedIs DEF OwnedBy
        <3>2. PICK k \in DOMAIN rows' : rows'[k] = Job(d.posting, d.status)
            BY <3>1, ReplaceIs
        <3>3. rows'[k].posting = d.posting
            BY <3>2 DEF Job
        <3> QED BY <2>1, <3>3
    <2>4. CASE OwnerOf(d.posting) \notin run.scope
        <3>1. d \notin Range(run.found)
            BY <1>2, <2>4 DEF RefreshInv, Collected, OwnerOf
        <3>2. PICK i \in DOMAIN rows : d = Entry(i, rows[i])
            BY <1>2, <3>1 DEF RefreshInv, MergedRight, EntriesOf
        <3>3. d.posting = rows[i].posting
            BY <3>2 DEF Entry
        <3> QED BY <1>3, <2>1, <2>4, <3>3
    <2> QED BY <2>3, <2>4
<1> QED BY <1>4, <1>5

\* When the table is replaced, no row with an application goes, and no link of a company
\* that was not read completely, but for the exceptions NothingLost names
\* (merge_with_existing_jobs, prune_missing_jobs).
THEOREM NothingIsLost == RefreshSpec => NothingLost
<1>1. RefreshInv /\ [RefreshNext]_refreshVars =>
         [Replace => \A id \in DOMAIN rows :
             /\ id \in DOMAIN apps => id \in DOMAIN rows'
             /\ OwnerOf(rows[id].posting) \notin run.complete /\ ~Shadowed(id) /\ ~Displaced(id) =>
                   \E i \in DOMAIN rows' : Link[rows'[i].posting] = Link[rows[id].posting]]_refreshVars
    BY ReplaceLosesNothing
<1> QED BY <1>1, RefreshInvariance, PTL DEF RefreshSpec, NothingLost
==============================================================================
