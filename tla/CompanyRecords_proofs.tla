------------------------ MODULE CompanyRecords_proofs ------------------------
(***************************************************************************)
(* Proofs about CompanyRecords: names and keys stay apart, a review fills  *)
(* no row from another company's website, and what its lookups found is    *)
(* saved, for every legacy table and any numbers of names, websites,       *)
(* workers, edits, reviews and faults.                                     *)
(***************************************************************************)
EXTENDS CompanyRecords, FiniteSetTheorems, TLAPS

-----------------------------------------------------------------------------
(* The inductive invariant.                                                *)

\* Of the table.
RowsTyped ==
    /\ DOMAIN rows \subseteq Ids /\ IsFiniteSet(DOMAIN rows)
    /\ rows \in [DOMAIN rows -> Row]

Ordered(order, ids) == order \in Seq(Ids) /\ Range(order) = ids /\ IsInjective(order)

Aged == Ordered(born, DOMAIN rows)

\* A key is a name of its row, and no other row's.
Owned(table) ==
    /\ \A id \in DOMAIN table : table[id].key \in {table[id].name, None}
    /\ \A a, b \in DOMAIN table : a # b /\ table[a].key # None => table[a].key # table[b].key

TableInv == RowsTyped /\ Aged /\ Owned(rows)

\* Of the review.
Lookups == [members : SUBSET Ids, selected : SUBSET Ids,
            lead : [Fields -> Sites \cup Infos \cup {Bad, None}], asked : SUBSET Fields]
Answers == [state : {"found"}, site : Sites \cup {None}, info : Infos \cup {None}]
Results == {Looking, Interrupted} \cup Answers
Flights == UNION {[D -> Results] : D \in SUBSET Lookups}
Pool == [main : {"filling", "waiting", "leaving"}, queue : SUBSET Lookups, flying : Flights,
         cancelled : BOOLEAN, finished : SUBSET Lookups, saved : SUBSET Lookups]

PoolTyped == Free \/ pool \in Pool

Crew == ~Free => IsFiniteSet(DOMAIN pool.flying) /\ Cardinality(DOMAIN pool.flying) <= Workers

\* A company is in one lookup at a time.
Apart ==
    /\ ~Free => pool.queue \cap DOMAIN pool.flying = {}
    /\ \A g, h \in Waiting : g # h => g.members \cap h.members = {}

\* Rows that share a lookup have one domain between them.
Kindred(members) ==
    \A a, b \in members :
        a # b => \E site \in Sites : \A id \in members : Plausible(rows[id]) \subseteq {site}

Kin ==
    \A g \in Waiting :
        /\ g.selected # {} /\ g.selected \subseteq g.members /\ g.members \subseteq DOMAIN rows
        /\ Kindred(g.members)

\* What is not saved yet is at hand, and a review that was not cancelled goes on as long
\* as there is something to look up.
Unsaved == {g \in DOMAIN pool.flying : pool.flying[g].state = "found"}
AtHand ==
    ~Free => /\ pool.finished \ pool.saved \subseteq Unsaved
             /\ ~pool.cancelled => \A g \in DOMAIN pool.flying : pool.flying[g] # Interrupted
             /\ pool.main = "waiting" /\ ~pool.cancelled
                    => pool.queue = {} \/ DOMAIN pool.flying # {}

ReviewInv == PoolTyped /\ Crew /\ Apart /\ Kin /\ AtHand

ReportInv ==
    /\ report.outcome \in {"none", "done", "cancelled", "failed", "crashed"}
    /\ edits \in Nat /\ reviews \in Nat /\ faults \in Nat
    /\ FinishedIsSaved

CompaniesInv == TableInv /\ ReviewInv /\ ReportInv

-----------------------------------------------------------------------------
(* The order of the rows and the owner of a name.                          *)

LEMMA NoneIsNothing ==
    /\ None \notin Ids /\ None \notin Names /\ None \notin Sites /\ None \notin Infos
    /\ None # Bad /\ Bad \notin Sites
BY CompanyAssumption

\* Every row has its place.
LEMMA PlaceFound ==
    ASSUME NEW ids, NEW order, Ordered(order, ids), NEW id \in ids
    PROVE  /\ PlaceIn(order, id) \in 1..Len(order) /\ order[PlaceIn(order, id)] = id
           /\ PlaceIn(order, id) \in Nat
<1>1. \E k \in DOMAIN order : order[k] = id
    BY DEF Ordered, Range
<1>2. DOMAIN order = 1..Len(order)
    BY DEF Ordered
<1>3. PlaceIn(order, id) \in DOMAIN order /\ order[PlaceIn(order, id)] = id
    BY <1>1 DEF PlaceIn
<1> QED BY <1>2, <1>3

\* Some rows have an oldest one.
LEMMA OldestExists ==
    ASSUME Aged, NEW S \in SUBSET DOMAIN rows, S # {}
    PROVE  \E id \in S : \A other \in S \ {id} : Older(id, other)
<1> DEFINE Places == {Position(id) : id \in S}
<1>1. \A id \in S : Position(id) \in Nat /\ born[Position(id)] = id
    BY PlaceFound DEF Aged, Position
<1>2. Places \subseteq Nat /\ Places # {}
    BY <1>1
<1>3. PICK x \in Places : \A y \in Places : ~(<<y, x>> \in OpToRel(<, Nat))
  <2> HIDE DEF Places
  <2> QED BY <1>2, WFMin, NatLessThanWellFounded
<1>4. \A y \in Places : ~(y < x)
    BY <1>2, <1>3 DEF OpToRel
<1>5. PICK id \in S : x = Position(id)
    OBVIOUS
<1>6. ASSUME NEW other \in S \ {id} PROVE Older(id, other)
  <2>1. ~(Position(other) < Position(id)) /\ Position(other) # Position(id)
      BY <1>1, <1>4, <1>5
  <2> QED BY <1>1, <2>1 DEF Older
<1> QED BY <1>6

\* find_company_by_normalized_name finds a row of the name if there is one, and else none.
LEMMA DuplicateIs ==
    ASSUME RowsTyped, Aged, NEW name, NEW except
    PROVE  /\ Namesakes(name, except) = {} => Duplicate(name, except) = None
           /\ Namesakes(name, except) # {} =>
                 Duplicate(name, except) \in Namesakes(name, except) /\ Duplicate(name, except) # None
<1>1. CASE Namesakes(name, except) = {}
    BY <1>1 DEF Duplicate
<1>2. CASE Namesakes(name, except) # {}
  <2> DEFINE same   == Namesakes(name, except)
             owners == {id \in same : rows[id].key # None}
             prefer == IF owners # {} THEN owners ELSE same
  <2>1. prefer # {} /\ prefer \subseteq same /\ same \subseteq DOMAIN rows
      BY <1>2 DEF Namesakes
  <2>2. Duplicate(name, except) =
            CHOOSE id \in prefer : \A other \in prefer \ {id} : Older(id, other)
      BY <1>2 DEF Duplicate
  <2> HIDE DEF prefer
  <2>3. \E id \in prefer : \A other \in prefer \ {id} : Older(id, other)
      BY <2>1, OldestExists
  <2>4. Duplicate(name, except) \in prefer
      BY <2>2, <2>3
  <2> QED BY <2>1, <2>4, NoneIsNothing DEF RowsTyped
<1> QED BY <1>1, <1>2

\* Which means that nobody but the rows in except has the name.
LEMMA NoDuplicate ==
    ASSUME RowsTyped, Aged, NEW name, NEW except, Duplicate(name, except) = None
    PROVE  \A other \in DOMAIN rows \ except : rows[other].name # name
BY DuplicateIs DEF Namesakes

LEMMA SomeDuplicate ==
    ASSUME RowsTyped, Aged, NEW name, NEW except, Duplicate(name, except) # None
    PROVE  /\ Duplicate(name, except) \in DOMAIN rows \ except
           /\ rows[Duplicate(name, except)].name = name
BY DuplicateIs DEF Namesakes

-----------------------------------------------------------------------------
(* The table through writes, inserts, deletions and restarts.              *)

NameApart(id, name) == \A other \in DOMAIN rows \ {id} : rows[other].name # name

\* A row is written: it owns the key it has, and its name is its old one or new to the table.
LEMMA WriteKeeps ==
    ASSUME TableInv, NEW id \in DOMAIN rows, NEW row \in Row, Write(id, row),
           row.key \in {row.name, None},
           row.key # None => \A other \in DOMAIN rows \ {id} : rows[other].key # row.key
    PROVE  TableInv'
<1>1. DOMAIN rows' = DOMAIN rows /\ born' = born /\ rows' \in [DOMAIN rows -> Row]
    BY DEF Write, TableInv, RowsTyped
<1>2. \A other \in DOMAIN rows : rows'[other] = IF other = id THEN row ELSE rows[other]
    BY DEF Write, TableInv, RowsTyped
<1>3. RowsTyped' /\ Aged'
    BY <1>1 DEF TableInv, RowsTyped, Aged
<1>4. \A a \in DOMAIN rows : rows'[a].key \in {rows'[a].name, None}
    BY <1>2 DEF TableInv, Owned
<1>5. ASSUME NEW a \in DOMAIN rows, NEW b \in DOMAIN rows, a # b, rows'[a].key # None
      PROVE  rows'[a].key # rows'[b].key
    BY <1>2, <1>5 DEF TableInv, Owned
<1> QED BY <1>1, <1>3, <1>4, <1>5 DEF TableInv, Owned

LEMMA WriteShares ==
    ASSUME TableInv, NEW id \in DOMAIN rows, NEW row \in Row, Write(id, row),
           row.name = rows[id].name \/ NameApart(id, row.name)
    PROVE  Sharing(rows') \subseteq Sharing(rows)
<1>1. DOMAIN rows' = DOMAIN rows
    BY DEF Write, TableInv, RowsTyped
<1>2. \A other \in DOMAIN rows : rows'[other] = IF other = id THEN row ELSE rows[other]
    BY DEF Write, TableInv, RowsTyped
<1>3. ASSUME NEW a \in DOMAIN rows, NEW b \in DOMAIN rows, a < b, rows'[a].name = rows'[b].name
      PROVE  rows[a].name = rows[b].name
  <2>0. a # b
      BY <1>3, CompanyAssumption DEF TableInv, RowsTyped
  <2>1. CASE a # id /\ b # id
      BY <1>2, <1>3, <2>1
  <2>2. CASE row.name = rows[id].name
      BY <1>2, <1>3, <2>2
  <2>3. CASE NameApart(id, row.name)
      BY <1>2, <1>3, <2>0, <2>3 DEF NameApart
  <2> QED BY <2>1, <2>2, <2>3
<1> QED BY <1>1, <1>3 DEF Sharing

\* A row comes in under a name that is new to the table, and owns it.
LEMMA InsertKeeps ==
    ASSUME TableInv, NEW id \in Ids \ DOMAIN rows, NEW row \in Row, Insert(id, row),
           row.key = row.name, \A other \in DOMAIN rows : rows[other].name # row.name
    PROVE  TableInv' /\ Sharing(rows') \subseteq Sharing(rows)
<1>1. DOMAIN rows' = DOMAIN rows \cup {id} /\ rows' \in [DOMAIN rows \cup {id} -> Row]
    BY DEF Insert, With, TableInv, RowsTyped
<1>2. rows'[id] = row /\ \A other \in DOMAIN rows : rows'[other] = rows[other]
    BY DEF Insert, With
<1>3. RowsTyped'
    BY <1>1, FS_AddElement DEF TableInv, RowsTyped
<1>4. Aged'
  <2>1. born \in Seq(Ids) /\ Range(born) = DOMAIN rows /\ IsInjective(born)
      BY DEF TableInv, Aged, Ordered
  <2>2. /\ born' \in Seq(Ids) /\ Len(born') = Len(born) + 1 /\ Len(born) \in Nat
        /\ \A n \in 1..Len(born) : born'[n] = born[n]
        /\ born'[Len(born) + 1] = id
      BY <2>1 DEF Insert
  <2>3. \A n \in 1..Len(born) : born[n] \in DOMAIN rows
      BY <2>1 DEF Range
  <2>4. IsInjective(born')
      BY <2>1, <2>2, <2>3 DEF IsInjective
  <2>5. Range(born') = DOMAIN rows \cup {id}
    <3>1. ASSUME NEW k \in DOMAIN born' PROVE born'[k] \in DOMAIN rows \cup {id}
        BY <2>2, <2>3, <3>1
    <3>2. ASSUME NEW other \in DOMAIN rows PROVE \E k \in DOMAIN born' : born'[k] = other
      <4>1. PICK k \in DOMAIN born : born[k] = other
          BY <2>1 DEF Range
      <4>2. k \in 1..Len(born) /\ k \in DOMAIN born'
          BY <2>1, <2>2, <4>1
      <4> QED BY <2>2, <4>1, <4>2
    <3>3. \E k \in DOMAIN born' : born'[k] = id
      <4>1. Len(born) + 1 \in DOMAIN born'
          BY <2>2
      <4> QED BY <2>2, <4>1
    <3> QED BY <3>1, <3>2, <3>3 DEF Range
  <2> QED BY <1>1, <2>2, <2>4, <2>5 DEF Aged, Ordered
<1>5. Owned(rows')
    BY <1>1, <1>2, NoneIsNothing DEF TableInv, Owned, RowsTyped, Row
<1>6. Sharing(rows') \subseteq Sharing(rows)
  <2>1. ASSUME NEW a \in DOMAIN rows', NEW b \in DOMAIN rows', a < b, rows'[a].name = rows'[b].name
        PROVE  a \in DOMAIN rows /\ b \in DOMAIN rows /\ rows[a].name = rows[b].name
    <3>1. a # b
        BY <1>1, <2>1, CompanyAssumption DEF TableInv, RowsTyped
    <3> QED BY <1>1, <1>2, <2>1, <3>1
  <2> QED BY <2>1 DEF Sharing
<1> QED BY <1>3, <1>4, <1>5, <1>6 DEF TableInv

LEMMA Catenated ==
    ASSUME NEW S, NEW s \in Seq(S), NEW t \in Seq(S)
    PROVE  /\ s \o t \in Seq(S) /\ Len(s \o t) = Len(s) + Len(t)
           /\ \A n \in 1..(Len(s) + Len(t)) :
                 (s \o t)[n] = IF n <= Len(s) THEN s[n] ELSE t[n - Len(s)]
OBVIOUS

LEMMA DeleteKeeps ==
    ASSUME TableInv, NEW id \in DOMAIN rows, Delete(id)
    PROVE  TableInv' /\ Sharing(rows') \subseteq Sharing(rows)
<1>1. /\ DOMAIN rows' = DOMAIN rows \ {id} /\ rows' \in [DOMAIN rows \ {id} -> Row]
      /\ \A other \in DOMAIN rows \ {id} : rows'[other] = rows[other]
    BY DEF Delete, Restrict, TableInv, RowsTyped
<1>2. RowsTyped'
    BY <1>1, FS_RemoveElement DEF TableInv, RowsTyped
<1>3. Aged'
  <2> DEFINE p == Position(id)
             len == Len(born)
  <2>1. born \in Seq(Ids) /\ Range(born) = DOMAIN rows /\ IsInjective(born)
      BY DEF TableInv, Aged, Ordered
  <2>2. p \in 1..len /\ born[p] = id /\ len \in Nat
      BY <2>1, PlaceFound DEF Position, TableInv, Aged
  <2>3. born' = SubSeq(born, 1, p - 1) \o SubSeq(born, p + 1, len)
      BY DEF Delete, RemoveAt
  <2> HIDE DEF p, len
  <2>4. /\ SubSeq(born, 1, p - 1) \in Seq(Ids) /\ Len(SubSeq(born, 1, p - 1)) = p - 1
        /\ \A n \in 1..(p - 1) : SubSeq(born, 1, p - 1)[n] = born[n]
      BY <2>1, <2>2 DEF len
  <2>5. /\ SubSeq(born, p + 1, len) \in Seq(Ids) /\ Len(SubSeq(born, p + 1, len)) = len - p
        /\ \A n \in 1..(len - p) : SubSeq(born, p + 1, len)[n] = born[p + n]
      BY <2>1, <2>2 DEF len
  <2>6. /\ born' \in Seq(Ids) /\ Len(born') = len - 1
        /\ \A n \in 1..(len - 1) : born'[n] = IF n < p THEN born[n] ELSE born[n + 1]
    <3> DEFINE s == SubSeq(born, 1, p - 1)
               t == SubSeq(born, p + 1, len)
    <3>1. /\ s \in Seq(Ids) /\ t \in Seq(Ids) /\ Len(s) = p - 1 /\ Len(t) = len - p
          /\ born' = s \o t
        BY <2>3, <2>4, <2>5
    <3>2. /\ \A n \in 1..(p - 1) : s[n] = born[n]
          /\ \A n \in 1..(len - p) : t[n] = born[p + n]
        BY <2>4, <2>5
    <3> HIDE DEF s, t
    <3>3. /\ born' \in Seq(Ids) /\ Len(born') = Len(s) + Len(t)
          /\ \A n \in 1..(Len(s) + Len(t)) :
                 born'[n] = IF n <= Len(s) THEN s[n] ELSE t[n - Len(s)]
        BY <3>1, Catenated
    <3>5. Len(s) + Len(t) = len - 1
        BY <2>2, <3>1
    <3>4. ASSUME NEW n \in 1..(len - 1)
          PROVE  born'[n] = IF n < p THEN born[n] ELSE born[n + 1]
      <4>1. CASE n < p
          BY <2>2, <3>1, <3>2, <3>3, <3>5, <4>1
      <4>2. CASE ~(n < p)
        <5>1. n - (p - 1) \in 1..(len - p) /\ p + (n - (p - 1)) = n + 1
            BY <2>2, <4>2
        <5>2. born'[n] = t[n - (p - 1)]
            BY <2>2, <3>1, <3>3, <3>5, <4>2
        <5> QED BY <3>2, <4>2, <5>1, <5>2
      <4> QED BY <4>1, <4>2
    <3> QED BY <3>3, <3>4, <3>5
  <2>7. DOMAIN born = 1..len /\ DOMAIN born' = 1..(len - 1)
      BY <2>1, <2>2, <2>6 DEF len
  <2>8. \A a, b \in 1..len : born[a] = born[b] => a = b
      BY <2>1, <2>7 DEF IsInjective
  <2>9. IsInjective(born')
    <3>1. ASSUME NEW a \in 1..(len - 1), NEW b \in 1..(len - 1), born'[a] = born'[b] PROVE a = b
      <4>1. a \in 1..len /\ b \in 1..len /\ a + 1 \in 1..len /\ b + 1 \in 1..len
          BY <2>2
      <4> QED BY <2>2, <2>6, <2>8, <3>1, <4>1
    <3> QED BY <2>7, <3>1 DEF IsInjective
  <2>10. Range(born') = DOMAIN rows \ {id}
    <3>1. ASSUME NEW n \in 1..(len - 1) PROVE born'[n] \in DOMAIN rows \ {id}
      <4>1. n \in 1..len /\ n + 1 \in 1..len
          BY <2>2
      <4>2. \A k \in 1..len : born[k] \in DOMAIN rows
          BY <2>1, <2>7 DEF Range
      <4> QED BY <2>2, <2>6, <2>8, <4>1, <4>2
    <3>2. ASSUME NEW other \in DOMAIN rows \ {id} PROVE \E n \in 1..(len - 1) : born'[n] = other
      <4>1. PICK k \in 1..len : born[k] = other
          BY <2>1, <2>7 DEF Range
      <4>2. k # p
          BY <2>2, <4>1
      <4>3. CASE k < p
          BY <2>2, <2>6, <4>1, <4>3
      <4>4. CASE k > p
        <5>1. k - 1 \in 1..(len - 1) /\ ~(k - 1 < p) /\ (k - 1) + 1 = k
            BY <2>2, <4>1, <4>4
        <5> QED BY <2>6, <4>1, <5>1
      <4> QED BY <2>2, <4>1, <4>2, <4>3, <4>4
    <3> QED BY <2>7, <3>1, <3>2 DEF Range
  <2> QED BY <1>1, <2>6, <2>9, <2>10 DEF Aged, Ordered
<1>4. Owned(rows')
    BY <1>1 DEF TableInv, Owned
<1>5. Sharing(rows') \subseteq Sharing(rows)
    BY <1>1 DEF Sharing
<1> QED BY <1>2, <1>3, <1>4, <1>5 DEF TableInv

\* At a start the oldest row of every name comes to own it, and no other.
LEMMA BackfilledIs ==
    ASSUME NEW D, NEW table \in [D -> Row], NEW order, Ordered(order, D)
    PROVE  /\ Backfilled(table, order) \in [D -> Row]
           /\ \A id \in D : Backfilled(table, order)[id].name = table[id].name
           /\ Owned(Backfilled(table, order))
<1> DEFINE First(id) == \A n \in DOMAIN order :
                           table[order[n]].name = table[id].name => PlaceIn(order, id) <= n
           new == Backfilled(table, order)
<1>1. new = [id \in D |-> [table[id] EXCEPT !.key = IF First(id) THEN table[id].name ELSE None]]
    BY DEF Backfilled
<1>2. \A id \in D : PlaceIn(order, id) \in DOMAIN order /\ order[PlaceIn(order, id)] = id
                    /\ PlaceIn(order, id) \in Nat
  <2>1. DOMAIN order = 1..Len(order)
      BY DEF Ordered
  <2> QED BY <2>1, PlaceFound
<1>3. ASSUME NEW a \in D, NEW b \in D, First(a), First(b), table[a].name = table[b].name
      PROVE  a = b
  <2>1. PlaceIn(order, a) <= PlaceIn(order, b) /\ PlaceIn(order, b) <= PlaceIn(order, a)
      BY <1>2, <1>3
  <2>2. PlaceIn(order, a) = PlaceIn(order, b)
      BY <1>2, <2>1
  <2> QED BY <1>2, <2>2
<1> HIDE DEF First, new
<1>4. \A id \in D : /\ new[id] \in Row /\ new[id].name = table[id].name
                    /\ new[id].key = IF First(id) THEN table[id].name ELSE None
    BY <1>1 DEF Row
<1>5. DOMAIN new = D /\ new \in [D -> Row]
    BY <1>1, <1>4
<1>6. ASSUME NEW a \in D, NEW b \in D, a # b, new[a].key # None PROVE new[a].key # new[b].key
  <2>1. First(a) /\ new[a].key = table[a].name
      BY <1>4, <1>6
  <2>2. table[a].name # None
      BY NoneIsNothing DEF Row
  <2>3. CASE First(b)
      BY <1>3, <1>4, <1>6, <2>1, <2>3
  <2>4. CASE ~First(b)
      BY <1>4, <2>1, <2>2, <2>4
  <2> QED BY <2>3, <2>4
<1>7. Owned(new)
    BY <1>4, <1>5, <1>6 DEF Owned
<1> QED BY <1>4, <1>5, <1>7 DEF new

\* The key that a row which is written gets: its own or a name that nobody else has.
LEMMA StoredKeyIs ==
    ASSUME TableInv, NEW id \in DOMAIN rows, NEW name \in Names
    PROVE  LET key == StoredKey(rows[id].key, name, Duplicate(name, {id}))
           IN  /\ key \in {name, None}
               /\ key # None => \A other \in DOMAIN rows \ {id} : rows[other].key # key
<1> DEFINE key == StoredKey(rows[id].key, name, Duplicate(name, {id}))
<1>1. key \in {name, None}
    BY DEF StoredKey
<1>2. ASSUME key # None, NEW other \in DOMAIN rows \ {id} PROVE rows[other].key # key
  <2>1. CASE rows[id].key = name
    <3>1. key = rows[id].key /\ rows[id].key # None
        BY <2>1, NoneIsNothing DEF StoredKey
    <3> QED BY <3>1 DEF TableInv, Owned
  <2>2. CASE rows[id].key # name
    <3>1. Duplicate(name, {id}) = None /\ key = name
        BY <1>2, <2>2 DEF StoredKey
    <3>2. rows[other].name # name
        BY <3>1, NoDuplicate DEF TableInv
    <3>3. rows[other].key \in {rows[other].name, None} /\ name # None
        BY NoneIsNothing DEF TableInv, Owned
    <3> QED BY <3>1, <3>2, <3>3
  <2> QED BY <2>1, <2>2
<1> HIDE DEF key
<1> QED BY <1>1, <1>2 DEF key

\* What an edit does to the table, and to who shares a name.
TableKept == TableInv' /\ Sharing(rows') \subseteq Sharing(rows)

LEMMA CreateKeeps ==
    ASSUME TableInv, NEW id \in Ids, NEW name \in Names, NEW site \in Sites \cup {Bad, None},
           NEW info \in Infos \cup {None}, Create(id, name, site, info)
    PROVE  TableKept
<1> DEFINE row == [name |-> name, key |-> name, site |-> site, known |-> site,
                   verified |-> FALSE, info |-> info]
<1>1. row \in Row /\ row.key = row.name /\ row.name = name
    BY DEF Row
<1>2. \A other \in DOMAIN rows : rows[other].name # name
    BY NoDuplicate DEF Create, TableInv
<1>3. id \in Ids \ DOMAIN rows /\ Insert(id, row)
    BY DEF Create
<1> HIDE DEF row
<1> QED BY <1>1, <1>2, <1>3, InsertKeeps DEF TableKept

\* Renaming a row to the name it may take leaves no new namesakes.
LEMMA RenamableIs ==
    ASSUME TableInv, NEW id \in DOMAIN rows, NEW name, Renamable(id, name)
    PROVE  name = rows[id].name \/ NameApart(id, name)
BY NoDuplicate DEF Renamable, NameApart, TableInv

LEMMA RewriteKeeps ==
    ASSUME TableInv, NEW id \in DOMAIN rows, NEW name \in Names, Renamable(id, name),
           NEW row \in Row, row.name = name,
           row.key = StoredKey(rows[id].key, name, Duplicate(name, {id})), Write(id, row)
    PROVE  TableKept
<1>1. /\ row.key \in {row.name, None}
      /\ row.key # None => \A other \in DOMAIN rows \ {id} : rows[other].key # row.key
    BY StoredKeyIs
<1>2. TableInv'
    BY <1>1, WriteKeeps
<1>3. Sharing(rows') \subseteq Sharing(rows)
    BY RenamableIs, WriteShares
<1> QED BY <1>2, <1>3 DEF TableKept

LEMMA EditKeeps ==
    ASSUME TableInv, NEW id \in Ids, NEW name \in Names, NEW site \in Sites \cup {Bad, None},
           NEW info \in Infos \cup {None}, Edit(id, name, site, info)
    PROVE  TableKept
<1> DEFINE key == StoredKey(rows[id].key, name, Duplicate(name, {id}))
           row == [name |-> name, key |-> key, site |-> site, known |-> site,
                   verified |-> rows[id].verified /\ site = rows[id].site,
                   info |-> IF info = None THEN rows[id].info ELSE info]
<1>1. id \in DOMAIN rows /\ Renamable(id, name) /\ Write(id, row) /\ rows[id] \in Row
    BY DEF Edit, TableInv, RowsTyped
<1>2. key \in Names \cup {None}
    BY <1>1 DEF StoredKey
<1> HIDE DEF key
<1>3. row \in Row /\ row.name = name /\ row.key = key
    BY <1>1, <1>2 DEF Row
<1> HIDE DEF row
<1> QED BY <1>1, <1>3, RewriteKeeps DEF key

LEMMA ImportSameKeeps ==
    ASSUME TableInv, NEW id \in Ids, NEW name \in Names, NEW site \in Sites \cup {Bad, None},
           NEW known \in Sites \cup {Bad, None}, NEW verified \in {TRUE, FALSE, None},
           NEW info \in Infos \cup {None}, ImportSame(id, name, site, known, verified, info)
    PROVE  TableKept
<1> DEFINE key == StoredKey(rows[id].key, name, Duplicate(name, {id}))
           row == [name |-> name, key |-> key,
                   site |-> Over(site, rows[id].site), known |-> Over(known, rows[id].known),
                   verified |-> Over(verified, rows[id].verified),
                   info |-> Over(info, rows[id].info)]
<1>1. id \in DOMAIN rows /\ Renamable(id, name) /\ Write(id, row) /\ rows[id] \in Row
    BY DEF ImportSame, TableInv, RowsTyped
<1>2. key \in Names \cup {None}
    BY <1>1 DEF StoredKey
<1>3. Over(verified, rows[id].verified) \in BOOLEAN
    BY <1>1 DEF Over, Row
<1>4. /\ Over(site, rows[id].site) \in Sites \cup {Bad, None}
      /\ Over(known, rows[id].known) \in Sites \cup {Bad, None}
      /\ Over(info, rows[id].info) \in Infos \cup {None}
    BY <1>1 DEF Over, Row
<1> HIDE DEF key
<1>5. row \in Row /\ row.name = name /\ row.key = key
    BY <1>1, <1>2, <1>3, <1>4 DEF Row
<1> HIDE DEF row
<1> QED BY <1>1, <1>5, RewriteKeeps DEF key

LEMMA ImportOtherKeeps ==
    ASSUME TableInv, NEW id \in Ids, NEW name \in Names, NEW site \in Sites \cup {Bad, None},
           NEW known \in Sites \cup {Bad, None}, NEW verified \in {TRUE, FALSE, None},
           NEW info \in Infos \cup {None}, ImportOther(id, name, site, known, verified, info)
    PROVE  TableKept
<1> DEFINE target == Duplicate(name, {})
<1>1. CASE target = None
  <2> DEFINE row == [name |-> name, key |-> name, site |-> site, known |-> known,
                     verified |-> Flag(verified), info |-> info]
  <2>1. row \in Row /\ row.key = row.name /\ row.name = name
      BY DEF Row, Flag
  <2>2. \A other \in DOMAIN rows : rows[other].name # name
      BY <1>1, NoDuplicate DEF TableInv
  <2>3. id \in Ids \ DOMAIN rows /\ Insert(id, row)
      BY <1>1 DEF ImportOther
  <2> HIDE DEF row
  <2> QED BY <2>1, <2>2, <2>3, InsertKeeps DEF TableKept
<1>2. CASE target # None
  <2> DEFINE key == StoredKey(rows[target].key, name, Duplicate(name, {target}))
             row == [rows[target] EXCEPT
                        !.key = StoredKey(@, name, Duplicate(name, {target})),
                        !.site = Over(@, site), !.known = Over(@, known), !.info = Over(@, info),
                        !.verified = @ \/ verified = TRUE]
  <2>1. target \in DOMAIN rows /\ rows[target].name = name /\ rows[target] \in Row
      BY <1>2, SomeDuplicate DEF TableInv, RowsTyped
  <2>2. Write(target, row)
      BY <1>2 DEF ImportOther
  <2> HIDE DEF target
  <2>3. key \in Names \cup {None}
      BY DEF StoredKey
  <2>4. /\ Over(rows[target].site, site) \in Sites \cup {Bad, None}
        /\ Over(rows[target].known, known) \in Sites \cup {Bad, None}
        /\ Over(rows[target].info, info) \in Infos \cup {None}
      BY <2>1 DEF Over, Row
  <2>5. row = [rows[target] EXCEPT !.key = key, !.site = Over(rows[target].site, site),
                   !.known = Over(rows[target].known, known),
                   !.info = Over(rows[target].info, info),
                   !.verified = rows[target].verified \/ verified = TRUE]
      OBVIOUS
  <2> HIDE DEF key
  <2>6. row \in Row /\ row.name = name /\ row.key = key
      BY <2>1, <2>3, <2>4, <2>5 DEF Row
  <2>7. Renamable(target, name)
      BY <2>1 DEF Renamable
  <2> HIDE DEF row
  <2> QED BY <2>1, <2>2, <2>6, <2>7, RewriteKeeps DEF key
<1> QED BY <1>1, <1>2

LEMMA RefreshOneKeeps ==
    ASSUME TableInv, NEW id \in Ids, NEW confirmed \in Sites \cup {None},
           NEW final \in Sites \cup {None}, NEW info \in Infos \cup {None},
           RefreshOne(id, confirmed, final, info)
    PROVE  TableKept
<1> DEFINE site == Over(final, Over(confirmed, rows[id].site))
           row  == [rows[id] EXCEPT
                       !.site = Over(final, Over(confirmed, @)),
                       !.info = Over(@, info),
                       !.verified = @ \/ confirmed # None]
<1>1. id \in DOMAIN rows /\ Write(id, row) /\ rows[id] \in Row
    BY DEF RefreshOne, TableInv, RowsTyped
<1>2. site \in Sites \cup {Bad, None} /\ Over(rows[id].info, info) \in Infos \cup {None}
    BY <1>1 DEF Over, Row
<1>3. row = [rows[id] EXCEPT !.site = site, !.info = Over(rows[id].info, info),
                             !.verified = rows[id].verified \/ confirmed # None]
    OBVIOUS
<1> HIDE DEF site
<1>4. row \in Row /\ row.name = rows[id].name /\ row.key = rows[id].key
    BY <1>1, <1>2, <1>3 DEF Row
<1> HIDE DEF row
<1>5. /\ rows[id].key \in {rows[id].name, None}
      /\ rows[id].key # None => \A other \in DOMAIN rows \ {id} : rows[other].key # rows[id].key
    BY <1>1 DEF TableInv, Owned
<1>6. TableInv'
    BY <1>1, <1>4, <1>5, WriteKeeps
<1>7. Sharing(rows') \subseteq Sharing(rows)
    BY <1>1, <1>4, WriteShares
<1> QED BY <1>6, <1>7 DEF TableKept

LEMMA RestartKeeps ==
    ASSUME TableInv, rows' = Backfilled(rows, born), UNCHANGED born
    PROVE  TableKept
<1>1. rows \in [DOMAIN rows -> Row] /\ Ordered(born, DOMAIN rows)
    BY DEF TableInv, RowsTyped, Aged
<1>2. /\ rows' \in [DOMAIN rows -> Row] /\ Owned(rows')
      /\ \A id \in DOMAIN rows : rows'[id].name = rows[id].name
    BY <1>1, BackfilledIs
<1>3. DOMAIN rows' = DOMAIN rows
    BY <1>2
<1>4. TableInv'
    BY <1>2, <1>3 DEF TableInv, RowsTyped, Aged
<1>5. Sharing(rows') \subseteq Sharing(rows)
    BY <1>2, <1>3 DEF Sharing
<1> QED BY <1>4, <1>5 DEF TableKept

\* All that happens to the table between reviews.
LEMMA EditsKeep ==
    ASSUME TableInv,
           \/ Change
           \/ \E id \in Ids : Delete(id)
           \/ \E id \in Ids, confirmed, final \in Sites \cup {None}, info \in Infos \cup {None} :
                  RefreshOne(id, confirmed, final, info)
    PROVE  TableKept /\ Editing
<1>1. CASE Change
  <2>1. PICK id \in Ids, name \in Names, info \in Infos \cup {None} :
            \/ \E site \in Sites \cup {Bad, None} : Create(id, name, site, info) \/ Edit(id, name, site, info)
            \/ \E file \in Brought, verified \in {TRUE, FALSE, None} :
                  \/ ImportSame(id, name, file[1], file[2], verified, info)
                  \/ ImportOther(id, name, file[1], file[2], verified, info)
      BY <1>1 DEF Change
  <2>2. ASSUME NEW site \in Sites \cup {Bad, None}, Create(id, name, site, info)
        PROVE  TableKept /\ Editing
      BY <2>2, CreateKeeps DEF Create
  <2>3. ASSUME NEW site \in Sites \cup {Bad, None}, Edit(id, name, site, info)
        PROVE  TableKept /\ Editing
      BY <2>3, EditKeeps DEF Edit
  <2>4. ASSUME NEW site \in Sites \cup {Bad, None}, NEW known \in Sites \cup {Bad, None},
               NEW verified \in {TRUE, FALSE, None},
               ImportSame(id, name, site, known, verified, info)
        PROVE  TableKept /\ Editing
      <3>1. TableKept
          BY <2>4, ImportSameKeeps
      <3>2. Editing
          BY <2>4 DEF ImportSame
      <3> QED BY <3>1, <3>2
  <2>5. ASSUME NEW site \in Sites \cup {Bad, None}, NEW known \in Sites \cup {Bad, None},
               NEW verified \in {TRUE, FALSE, None},
               ImportOther(id, name, site, known, verified, info)
        PROVE  TableKept /\ Editing
      <3>1. TableKept
          BY <2>5, ImportOtherKeeps
      <3>2. Editing
          BY <2>5 DEF ImportOther
      <3> QED BY <3>1, <3>2
  <2>6. ASSUME NEW file \in Brought
        PROVE  file[1] \in Sites \cup {Bad, None} /\ file[2] \in Sites \cup {Bad, None}
      BY CompanyAssumption
  <2>7. ASSUME NEW file \in Brought, NEW verified \in {TRUE, FALSE, None},
               \/ ImportSame(id, name, file[1], file[2], verified, info)
               \/ ImportOther(id, name, file[1], file[2], verified, info)
        PROVE  TableKept /\ Editing
      BY <2>4, <2>5, <2>6, <2>7
  <2> QED BY <2>1, <2>2, <2>3, <2>7
<1>2. ASSUME NEW id \in Ids, Delete(id) PROVE TableKept /\ Editing
    BY <1>2, DeleteKeeps DEF Delete, TableKept
<1>3. ASSUME NEW id \in Ids, NEW confirmed \in Sites \cup {None}, NEW final \in Sites \cup {None},
             NEW info \in Infos \cup {None}, RefreshOne(id, confirmed, final, info)
      PROVE  TableKept /\ Editing
    BY <1>3, RefreshOneKeeps DEF RefreshOne
<1> QED BY <1>1, <1>2, <1>3

-----------------------------------------------------------------------------
(* What a lookup does to a row it is saved to.                             *)

LEMMA ReviewedIs ==
    ASSUME NEW row \in Row, NEW g, NEW found \in Answers
    PROVE  LET new == Reviewed(row, g, found)
           IN  /\ new \in Row /\ new.name = row.name /\ new.key = row.key /\ new.known = row.known
               /\ \A f \in Fields : row[f] \notin {None, Bad, g.lead[f]} => new[f] = row[f]
               /\ new.verified => row = new \/ row.verified \/ new.site = found.site
<1> DEFINE replaced == Replaceable(row, g, found)
           New(f) == IF found[f] # None /\ (row[f] = None \/ f \in replaced) THEN found[f] ELSE row[f]
           sure == \/ row.verified
                   \/ found.site # None /\ ("site" \in replaced \/ row.site \in {None, found.site})
           new == Reviewed(row, g, found)
<1>1. new = [row EXCEPT !.site = New("site"), !.info = New("info"), !.verified = sure]
    BY DEF Reviewed
<1>2. /\ New("site") = IF found.site # None /\ (row.site = None \/ "site" \in replaced)
                        THEN found.site ELSE row.site
      /\ New("info") = IF found.info # None /\ (row.info = None \/ "info" \in replaced)
                        THEN found.info ELSE row.info
    OBVIOUS
<1>3. New("site") \in Sites \cup {Bad, None} /\ New("info") \in Infos \cup {None}
    BY <1>2 DEF Row, Answers
<1>4. \A f \in Fields : row[f] \notin {None, Bad, g.lead[f]} => f \notin replaced
    BY DEF Replaceable, Invalid, Fields
<1>5. sure \in BOOLEAN
    OBVIOUS
<1> HIDE DEF replaced, New, sure
<1>6. new \in Row /\ new.name = row.name /\ new.key = row.key /\ new.known = row.known
    BY <1>1, <1>3, <1>5 DEF Row
<1>7. new.site = New("site") /\ new.info = New("info") /\ new.verified = sure
    BY <1>1 DEF Row
<1> HIDE DEF new
<1>8. ASSUME NEW f \in Fields, row[f] \notin {None, Bad, g.lead[f]} PROVE new[f] = row[f]
  <2>1. CASE f = "site"
      BY <1>2, <1>4, <1>7, <1>8, <2>1
  <2>2. CASE f = "info"
      BY <1>2, <1>4, <1>7, <1>8, <2>2
  <2> QED BY <2>1, <2>2 DEF Fields
<1>9. ASSUME new.verified, ~row.verified PROVE new.site = found.site
  <2>1. found.site # None /\ ("site" \in replaced \/ row.site \in {None, found.site})
      BY <1>7, <1>9 DEF sure
  <2> QED BY <1>2, <1>7, <2>1
<1> QED BY <1>6, <1>8, <1>9 DEF new

\* The rows of a lookup are saved, but for those whose transaction fails.
LEMMA SaveKeeps ==
    ASSUME TableInv, NEW g \in Lookups, NEW failing, NEW noted, Save(g, failing, noted),
           pool.flying[g] \in Answers
    PROVE  /\ TableKept /\ DOMAIN rows' = DOMAIN rows
           /\ \A id \in DOMAIN rows : /\ id \notin g.selected => rows'[id] = rows[id]
                                      /\ rows'[id] \in {rows[id], Reviewed(rows[id], g, pool.flying[g])}
<1> DEFINE new(id) == Reviewed(rows[id], g, pool.flying[g])
<1>1. \A id \in DOMAIN rows : rows[id] \in Row
    BY DEF TableInv, RowsTyped
<1>2. \A id \in DOMAIN rows : new(id) \in Row /\ new(id).name = rows[id].name /\ new(id).key = rows[id].key
    BY <1>1, ReviewedIs
<1>3. rows' = [id \in DOMAIN rows |-> IF id \in g.selected \ failing THEN new(id) ELSE rows[id]]
      /\ born' = born
    BY DEF Save
<1> HIDE DEF new
<1>4. \A id \in DOMAIN rows : /\ id \notin g.selected => rows'[id] = rows[id]
                              /\ rows'[id] \in {rows[id], new(id)}
    BY <1>3
<1>5. DOMAIN rows' = DOMAIN rows /\ rows' \in [DOMAIN rows -> Row]
    BY <1>1, <1>2, <1>3
<1>6. \A id \in DOMAIN rows : rows'[id].name = rows[id].name /\ rows'[id].key = rows[id].key
    BY <1>2, <1>4
<1>7. TableInv'
    BY <1>3, <1>5, <1>6 DEF TableInv, RowsTyped, Aged, Owned
<1>8. Sharing(rows') \subseteq Sharing(rows)
    BY <1>5, <1>6 DEF Sharing
<1> QED BY <1>4, <1>5, <1>7, <1>8 DEF TableKept, new

-----------------------------------------------------------------------------
(* How rows are grouped for a review.                                      *)

LEMMA FilledIs == \A id \in DOMAIN rows : Filled(id) \in 0..2
<1> TAKE id \in DOMAIN rows
<1> DEFINE S == {f \in Fields : rows[id][f] \notin {None, Bad}}
<1>1. IsFiniteSet({"site"}) /\ Cardinality({"site"}) = 1
    BY FS_Singleton
<1>2. Fields = {"site"} \cup {"info"} /\ "info" \notin {"site"}
    BY DEF Fields
<1>3. IsFiniteSet(Fields) /\ Cardinality(Fields) = 2
    BY <1>1, <1>2, FS_AddElement
<1>4. S \in SUBSET Fields
    OBVIOUS
<1> HIDE DEF S
<1>5. IsFiniteSet(S) /\ Cardinality(S) <= 2
    BY <1>3, <1>4, FS_Subset
<1>6. Cardinality(S) \in Nat
    BY <1>5, FS_CardinalityType
<1> QED BY <1>5, <1>6 DEF Filled, S

\* Some numbers have a least one.
LEMMA LeastExists ==
    ASSUME NEW S \in SUBSET Nat, S # {}
    PROVE  \E x \in S : \A y \in S : x <= y
<1>1. PICK x \in S : \A y \in S : ~(<<y, x>> \in OpToRel(<, Nat))
    BY WFMin, NatLessThanWellFounded
<1>2. \A y \in S : ~(y < x)
    BY <1>1 DEF OpToRel
<1> QED BY <1>2

\* Of some rows there is a best filled one, the first of them by its id.
LEMMA BestExists ==
    ASSUME RowsTyped, NEW S \in SUBSET DOMAIN rows, S # {}
    PROVE  \E id \in S : \A other \in S \ {id} :
              Filled(id) > Filled(other) \/ (Filled(id) = Filled(other) /\ id < other)
<1> DEFINE Blanks == {2 - Filled(id) : id \in S}
<1>1. \A id \in S : Filled(id) \in 0..2 /\ id \in Nat
    BY FilledIs, CompanyAssumption DEF RowsTyped
<1>2. Blanks \in SUBSET Nat /\ Blanks # {}
    BY <1>1
<1>3. PICK least \in Blanks : \A y \in Blanks : least <= y
  <2> HIDE DEF Blanks
  <2> QED BY <1>2, LeastExists
<1>4. PICK one \in S : least = 2 - Filled(one)
    OBVIOUS
<1>5. ASSUME NEW id \in S PROVE Filled(id) <= Filled(one)
  <2>1. 2 - Filled(one) <= 2 - Filled(id)
      BY <1>3, <1>4
  <2>2. Filled(id) \in Nat /\ Filled(one) \in Nat
      BY <1>1
  <2> QED BY <2>1, <2>2
<1> DEFINE T == {id \in S : Filled(id) = Filled(one)}
<1>6. T \in SUBSET Nat /\ T # {}
    BY <1>1
<1>7. PICK id \in T : \A y \in T : id <= y
  <2> HIDE DEF T
  <2> QED BY <1>6, LeastExists
<1>8. ASSUME NEW other \in S \ {id}
      PROVE  Filled(id) > Filled(other) \/ (Filled(id) = Filled(other) /\ id < other)
    BY <1>1, <1>5, <1>7
<1> QED BY <1>7, <1>8

\* What a lookup starts from is a value of one of its rows, or blank.
LEMMA MergedIs ==
    ASSUME RowsTyped, NEW members \in SUBSET DOMAIN rows, NEW f \in Fields
    PROVE  Merged(members, f) \in Sites \cup Infos \cup {Bad, None}
<1> DEFINE having == {id \in members : rows[id][f] # None}
           best   == CHOOSE id \in having : \A other \in having \ {id} :
                        Filled(id) > Filled(other) \/ (Filled(id) = Filled(other) /\ id < other)
<1>1. CASE having = {}
    BY <1>1 DEF Merged
<1>2. CASE having # {}
  <2>1. having \in SUBSET DOMAIN rows
      OBVIOUS
  <2>2. Merged(members, f) = rows[best][f]
      BY <1>2 DEF Merged
  <2> HIDE DEF having
  <2>3. best \in having
      BY <1>2, <2>1, BestExists
  <2>4. rows[best] \in Row
      BY <2>1, <2>3 DEF RowsTyped
  <2>5. rows[best].site \in Sites \cup {Bad, None} /\ rows[best].info \in Infos \cup {None}
      BY <2>4 DEF Row
  <2> HIDE DEF best
  <2>6. CASE f = "site"
      BY <2>2, <2>5, <2>6
  <2>7. CASE f = "info"
      BY <2>2, <2>5, <2>7
  <2> QED BY <2>6, <2>7 DEF Fields
<1> QED BY <1>1, <1>2

LEMMA GroupIs ==
    ASSUME RowsTyped, NEW members \in SUBSET DOMAIN rows
    PROVE  /\ Group(members) \in Lookups /\ Group(members).members = members
           /\ Group(members).selected \subseteq members
<1> DEFINE selected == {id \in members : Missing(rows[id]) # {}}
           lead == [f \in Fields |-> Merged(members, f)]
           asked == UNION {Missing(rows[id]) : id \in selected}
<1>1. Group(members) = [members |-> members, selected |-> selected, lead |-> lead, asked |-> asked]
    BY DEF Group
<1>2. lead \in [Fields -> Sites \cup Infos \cup {Bad, None}]
    BY MergedIs
<1>3. asked \subseteq Fields
    BY DEF Missing
<1>4. members \subseteq Ids /\ selected \subseteq members
    BY DEF RowsTyped
<1> HIDE DEF selected, lead, asked
<1> QED BY <1>1, <1>2, <1>3, <1>4 DEF Lookups

\* A row that is confirmed has just one plausible domain.
LEMMA ConfirmedIs ==
    ASSUME NEW row
    PROVE  \/ Confirmed(row) = {}
           \/ \E site \in Sites : Confirmed(row) = {site} /\ Plausible(row) = {site}
<1>1. IsFiniteSet({row.site, row.known})
  <2>1. IsFiniteSet({row.site})
      BY FS_Singleton
  <2>2. {row.site, row.known} = {row.site} \cup {row.known}
      OBVIOUS
  <2> QED BY <2>1, <2>2, FS_AddElement
<1>2. IsFiniteSet(Plausible(row)) /\ Plausible(row) \subseteq Sites
  <2>1. Plausible(row) \in SUBSET {row.site, row.known} /\ Plausible(row) \subseteq Sites
      BY DEF Plausible
  <2> QED BY <1>1, <2>1, FS_Subset
<1>3. Cardinality(Plausible(row)) = 1 => \E site \in Sites : Plausible(row) = {site}
  <2> SUFFICES ASSUME Cardinality(Plausible(row)) = 1
               PROVE  \E site \in Sites : Plausible(row) = {site}
      OBVIOUS
  <2>1. PICK site : Plausible(row) = {site}
      BY <1>2, FS_Singleton
  <2> QED BY <1>2, <2>1
<1> QED BY <1>3 DEF Confirmed

\* An identity names a domain, which is the only one the row may have, or the row itself.
LEMMA IdentityIs ==
    ASSUME RowsTyped, NEW id \in DOMAIN rows
    PROVE  \/ \E site \in Sites : /\ Identity(id) = <<rows[id].name, {site}>>
                                  /\ Plausible(rows[id]) \subseteq {site}
           \/ Identity(id) = <<rows[id].name, {}, id>>
<1> DEFINE same == Namesakes(rows[id].name, {})
           confirmed == UNION {Confirmed(rows[other]) : other \in same}
           own == Plausible(rows[id])
<1>1. Identity(id) = IF Cardinality(confirmed) = 1 /\ own \subseteq confirmed
                       THEN <<rows[id].name, confirmed>>
                     ELSE IF Confirmed(rows[id]) # {} THEN <<rows[id].name, own>>
                     ELSE <<rows[id].name, {}, id>>
    BY DEF Identity
<1>2. IsFiniteSet(confirmed) /\ confirmed \subseteq Sites
  <2> DEFINE T == {Confirmed(rows[other]) : other \in same}
             f == [other \in same |-> Confirmed(rows[other])]
  <2>1. same \in SUBSET DOMAIN rows
      BY DEF Namesakes
  <2>2. IsFiniteSet(same)
      BY <2>1, FS_Subset DEF RowsTyped
  <2>3. f \in Surjection(same, T)
      BY DEF Surjection
  <2>4. IsFiniteSet(T)
    <3> HIDE DEF T, f, same
    <3> QED BY <2>2, <2>3, FS_Surjection
  <2>5. \A S \in T : IsFiniteSet(S) /\ S \subseteq Sites
    <3> SUFFICES ASSUME NEW other \in same
                 PROVE  IsFiniteSet(Confirmed(rows[other])) /\ Confirmed(rows[other]) \subseteq Sites
        OBVIOUS
    <3>1. CASE Confirmed(rows[other]) = {}
        BY <3>1, FS_EmptySet
    <3>2. ASSUME NEW site \in Sites, Confirmed(rows[other]) = {site}
          PROVE  IsFiniteSet(Confirmed(rows[other])) /\ Confirmed(rows[other]) \subseteq Sites
        BY <3>2, FS_Singleton
    <3> QED BY <3>1, <3>2, ConfirmedIs
  <2>6. confirmed = UNION T
      OBVIOUS
  <2> HIDE DEF T, confirmed
  <2>7. IsFiniteSet(UNION T)
      BY <2>4, <2>5, FS_UNION
  <2> QED BY <2>5, <2>6, <2>7
<1> HIDE DEF confirmed
<1>3. Cardinality(confirmed) = 1 => \E site \in Sites : confirmed = {site}
    BY <1>2, FS_Singleton
<1>4. CASE Cardinality(confirmed) = 1 /\ own \subseteq confirmed
    BY <1>1, <1>3, <1>4
<1>5. CASE ~(Cardinality(confirmed) = 1 /\ own \subseteq confirmed) /\ Confirmed(rows[id]) # {}
    BY <1>1, <1>5, ConfirmedIs
<1>6. CASE ~(Cardinality(confirmed) = 1 /\ own \subseteq confirmed) /\ Confirmed(rows[id]) = {}
    BY <1>1, <1>6
<1> QED BY <1>4, <1>5, <1>6

\* The groups of a review: typed, of rows that have one domain between them, and no row
\* in two of them.
LEMMA GroupsAre ==
    ASSUME RowsTyped
    PROVE  /\ \A g \in Groups : /\ g \in Lookups /\ g.selected # {}
                                /\ g.selected \subseteq g.members /\ g.members \subseteq DOMAIN rows
                                /\ Kindred(g.members)
           /\ \A g, h \in Groups : g # h => g.members \cap h.members = {}
<1> DEFINE Kin1(one) == {id \in DOMAIN rows : Identity(id) = Identity(one)}
<1>1. \A g \in Groups : \E one \in DOMAIN rows : g = Group(Kin1(one))
    BY DEF Groups
<1>2. \A one \in DOMAIN rows : Kin1(one) \in SUBSET DOMAIN rows
    OBVIOUS
<1>3. ASSUME NEW one \in DOMAIN rows PROVE Kindred(Kin1(one))
  <2> SUFFICES ASSUME NEW a \in Kin1(one), NEW b \in Kin1(one), a # b
               PROVE  \E site \in Sites : \A id \in Kin1(one) : Plausible(rows[id]) \subseteq {site}
      BY DEF Kindred
  <2>1. a \in DOMAIN rows /\ b \in DOMAIN rows /\ Identity(a) = Identity(b)
      OBVIOUS
  <2>2. PICK site \in Sites : Identity(a) = <<rows[a].name, {site}>>
    <3>1. CASE Identity(a) = <<rows[a].name, {}, a>>
      <4>1. ~ \E site \in Sites : Identity(b) = <<rows[b].name, {site}>>
          BY <2>1, <3>1
      <4>2. Identity(b) = <<rows[b].name, {}, b>>
          BY <2>1, <4>1, IdentityIs
      <4> QED BY <2>1, <3>1, <4>2
    <3> QED BY <2>1, <3>1, IdentityIs
  <2>3. ASSUME NEW id \in Kin1(one) PROVE Plausible(rows[id]) \subseteq {site}
    <3>1. id \in DOMAIN rows /\ Identity(id) = <<rows[a].name, {site}>>
        BY <2>2
    <3>2. CASE Identity(id) = <<rows[id].name, {}, id>>
        BY <3>1, <3>2
    <3>3. CASE \E other \in Sites : /\ Identity(id) = <<rows[id].name, {other}>>
                                    /\ Plausible(rows[id]) \subseteq {other}
        BY <3>1, <3>3
    <3> QED BY <3>1, <3>2, <3>3, IdentityIs
  <2> QED BY <2>3
<1>4. \A g \in Groups : /\ g \in Lookups /\ g.selected # {}
                        /\ g.selected \subseteq g.members /\ g.members \subseteq DOMAIN rows
                        /\ Kindred(g.members)
  <2> SUFFICES ASSUME NEW g \in Groups
               PROVE  /\ g \in Lookups /\ g.selected # {}
                      /\ g.selected \subseteq g.members /\ g.members \subseteq DOMAIN rows
                      /\ Kindred(g.members)
      OBVIOUS
  <2>1. PICK one \in DOMAIN rows : g = Group(Kin1(one))
      BY <1>1
  <2>2. g.selected # {}
      BY DEF Groups
  <2> HIDE DEF Kin1
  <2>3. g \in Lookups /\ g.members = Kin1(one) /\ g.selected \subseteq Kin1(one)
      BY <1>2, <2>1, GroupIs
  <2> QED BY <1>2, <1>3, <2>2, <2>3
<1>5. ASSUME NEW g \in Groups, NEW h \in Groups, NEW id \in g.members \cap h.members PROVE g = h
  <2>1. PICK one \in DOMAIN rows : g = Group(Kin1(one))
      BY <1>1
  <2>2. PICK two \in DOMAIN rows : h = Group(Kin1(two))
      BY <1>1
  <2>3. g.members = Kin1(one) /\ h.members = Kin1(two)
    <3> HIDE DEF Kin1
    <3> QED BY <1>2, <2>1, <2>2, GroupIs
  <2>4. Identity(one) = Identity(two)
      BY <1>5, <2>3
  <2>5. Kin1(one) = Kin1(two)
      BY <2>4
  <2> QED BY <2>1, <2>2, <2>5
<1> QED BY <1>4, <1>5

-----------------------------------------------------------------------------
(* The pool of a review, field by field.                                   *)

LEMMA ResultsDiffer ==
    /\ Looking # Interrupted /\ Looking.state # "found" /\ Interrupted.state # "found"
    /\ \A r \in Results : r.state = "found" => r \in Answers
    /\ \A r \in Answers : r.state = "found" /\ r # Looking /\ r # Interrupted
    /\ Looking \in Results /\ Interrupted \in Results
<1>1. \A r \in Answers : r.state = "found"
    BY DEF Answers
<1>2. Looking.state = "looking" /\ Interrupted.state = "interrupted"
    BY DEF Looking, Interrupted
<1> QED BY <1>1, <1>2 DEF Results

LEMMA FlightIs ==
    ASSUME NEW f \in Flights
    PROVE  /\ DOMAIN f \in SUBSET Lookups /\ f \in [DOMAIN f -> Results]
           /\ \A g \in DOMAIN f : f[g] \in Results
<1>1. PICK D \in SUBSET Lookups : f \in [D -> Results]
    BY DEF Flights
<1> QED BY <1>1

LEMMA FlightMade ==
    ASSUME NEW D \in SUBSET Lookups, NEW f \in [D -> Results] PROVE f \in Flights
BY DEF Flights

\* A lookup starts, is answered, and is taken out.
LEMMA TakesOff ==
    ASSUME NEW f \in Flights, NEW g \in Lookups
    PROVE  LET new == With(f, g, Looking)
           IN  /\ new \in Flights /\ DOMAIN new = DOMAIN f \cup {g} /\ new[g] = Looking
               /\ \A h \in DOMAIN f : h # g => new[h] = f[h]
<1> DEFINE new == With(f, g, Looking)
<1>1. DOMAIN new = DOMAIN f \cup {g} /\ DOMAIN new \in SUBSET Lookups
    BY FlightIs DEF With
<1>2. new[g] = Looking /\ \A h \in DOMAIN f : h # g => new[h] = f[h]
    BY DEF With
<1>3. new \in [DOMAIN f \cup {g} -> Results]
    BY FlightIs, ResultsDiffer DEF With
<1> HIDE DEF new
<1> QED BY <1>1, <1>2, <1>3, FlightMade DEF new

LEMMA Answered ==
    ASSUME NEW f \in Flights, NEW g \in DOMAIN f, NEW r \in Results
    PROVE  LET new == [f EXCEPT ![g] = r]
           IN  /\ new \in Flights /\ DOMAIN new = DOMAIN f /\ new[g] = r
               /\ \A h \in DOMAIN f : h # g => new[h] = f[h]
<1> DEFINE new == [f EXCEPT ![g] = r]
<1>1. DOMAIN f \in SUBSET Lookups /\ f \in [DOMAIN f -> Results]
    BY FlightIs
<1>2. new \in [DOMAIN f -> Results] /\ new[g] = r /\ \A h \in DOMAIN f : h # g => new[h] = f[h]
    BY <1>1
<1> HIDE DEF new
<1> QED BY <1>1, <1>2, FlightMade DEF new

LEMMA Lands ==
    ASSUME NEW f \in Flights, NEW g
    PROVE  LET new == Restrict(f, DOMAIN f \ {g})
           IN  /\ new \in Flights /\ DOMAIN new = DOMAIN f \ {g}
               /\ \A h \in DOMAIN f \ {g} : new[h] = f[h]
<1> DEFINE new == Restrict(f, DOMAIN f \ {g})
<1>1. DOMAIN f \ {g} \in SUBSET Lookups /\ new \in [DOMAIN f \ {g} -> Results]
    BY FlightIs DEF Restrict
<1>2. \A h \in DOMAIN f \ {g} : new[h] = f[h]
    BY DEF Restrict
<1> HIDE DEF new
<1> QED BY <1>1, <1>2, FlightMade DEF new

Same(p, q, fields) ==
    /\ "main" \in fields => q.main = p.main
    /\ "queue" \in fields => q.queue = p.queue
    /\ "flying" \in fields => q.flying = p.flying
    /\ "cancelled" \in fields => q.cancelled = p.cancelled
    /\ "finished" \in fields => q.finished = p.finished
    /\ "saved" \in fields => q.saved = p.saved

LEMMA PoolTurns ==
    ASSUME NEW p \in Pool, NEW main \in {"filling", "waiting", "leaving"}
    PROVE  LET q == [p EXCEPT !.main = main]
           IN  /\ q \in Pool /\ q.main = main
               /\ Same(p, q, {"queue", "flying", "cancelled", "finished", "saved"})
BY DEF Pool, Same

LEMMA PoolCancels ==
    ASSUME NEW p \in Pool
    PROVE  LET q == [p EXCEPT !.cancelled = TRUE]
           IN  /\ q \in Pool /\ q.cancelled = TRUE
               /\ Same(p, q, {"main", "queue", "flying", "finished", "saved"})
BY DEF Pool, Same

LEMMA PoolSubmits ==
    ASSUME NEW p \in Pool, NEW g \in p.queue
    PROVE  LET q == [p EXCEPT !.queue = @ \ {g}, !.flying = With(@, g, Looking)]
           IN  /\ q \in Pool /\ q.queue = p.queue \ {g} /\ q.flying = With(p.flying, g, Looking)
               /\ Same(p, q, {"main", "cancelled", "finished", "saved"})
<1>1. p.queue \in SUBSET Lookups /\ p.flying \in Flights
    BY DEF Pool
<1>2. With(p.flying, g, Looking) \in Flights
    BY <1>1, TakesOff
<1>3. p.queue \ {g} \in SUBSET Lookups
    BY <1>1
<1> QED BY <1>2, <1>3 DEF Pool, Same

LEMMA PoolAnswers ==
    ASSUME NEW p \in Pool, NEW g \in DOMAIN p.flying, NEW r \in Results
    PROVE  LET q == [p EXCEPT !.flying[g] = r,
                              !.finished = IF r = Interrupted THEN @ ELSE @ \cup {g}]
           IN  /\ q \in Pool /\ q.flying = [p.flying EXCEPT ![g] = r]
               /\ q.finished = IF r = Interrupted THEN p.finished ELSE p.finished \cup {g}
               /\ Same(p, q, {"main", "queue", "cancelled", "saved"})
<1>1. p.finished \in SUBSET Lookups /\ p.flying \in Flights
    BY DEF Pool
<1>2. [p.flying EXCEPT ![g] = r] \in Flights
    BY <1>1, Answered
<1>3. p.finished \cup {g} \in SUBSET Lookups
    BY <1>1, FlightIs
<1> QED BY <1>2, <1>3 DEF Pool, Same

LEMMA PoolPasses ==
    ASSUME NEW p \in Pool, NEW g
    PROVE  LET q == [p EXCEPT !.flying = Restrict(@, DOMAIN @ \ {g})]
           IN  /\ q \in Pool /\ q.flying = Restrict(p.flying, DOMAIN p.flying \ {g})
               /\ Same(p, q, {"main", "queue", "cancelled", "finished", "saved"})
<1>1. p.flying \in Flights
    BY DEF Pool
<1>2. Restrict(p.flying, DOMAIN p.flying \ {g}) \in Flights
    BY <1>1, Lands
<1> QED BY <1>2 DEF Pool, Same

-----------------------------------------------------------------------------
(* The steps of a review.                                                  *)

LEMMA WaitingIs ==
    /\ pool \in Pool => ~Free /\ Waiting = pool.queue \cup DOMAIN pool.flying
    /\ pool' \in Pool => ~Free' /\ Waiting' = pool'.queue \cup DOMAIN pool'.flying
    /\ Free => Waiting = {}
    /\ Free' => Waiting' = {}
<1>1. Idle.main = "none"
    BY DEF Idle
<1>2. pool \in Pool => ~Free
    BY <1>1 DEF Pool, Free
<1>3. pool' \in Pool => ~Free'
    BY <1>1 DEF Pool, Free
<1> QED BY <1>2, <1>3 DEF Waiting

\* Without a review there is nothing to hold of it.
LEMMA FreeKeeps == ASSUME Free' PROVE ReviewInv'
<1>1. Waiting' = {}
    BY WaitingIs
<1> QED BY <1>1 DEF ReviewInv, PoolTyped, Crew, Apart, Kin, AtHand

\* What holds of the rows of a lookup stays so while nothing touches them.
LEMMA FewerKeep ==
    ASSUME ReviewInv, Waiting' \subseteq Waiting, DOMAIN rows' = DOMAIN rows,
           \A g \in Waiting' : \A id \in g.members : rows'[id] = rows[id]
    PROVE  /\ Kin'
           /\ \A g, h \in Waiting' : g # h => g.members \cap h.members = {}
<1>1. \A g, h \in Waiting' : g # h => g.members \cap h.members = {}
    BY DEF ReviewInv, Apart
<1>2. ASSUME NEW g \in Waiting'
      PROVE  /\ g.selected # {} /\ g.selected \subseteq g.members /\ g.members \subseteq DOMAIN rows'
             /\ Kindred(g.members)'
  <2>1. g.selected # {} /\ g.selected \subseteq g.members /\ g.members \subseteq DOMAIN rows'
      BY <1>2 DEF ReviewInv, Kin
  <2>2. Kindred(g.members)
      BY <1>2 DEF ReviewInv, Kin
  <2>3. \A id \in g.members : rows'[id] = rows[id]
      BY <1>2
  <2>4. Kindred(g.members)'
      BY <2>2, <2>3 DEF Kindred
  <2> QED BY <2>1, <2>4
<1> QED BY <1>1, <1>2 DEF Kin

LEMMA BeginKeeps ==
    ASSUME CompaniesInv, ReviewBegins
    PROVE  ReviewInv'
<1>1. \A g \in Groups : /\ g \in Lookups /\ g.selected # {}
                        /\ g.selected \subseteq g.members /\ g.members \subseteq DOMAIN rows
                        /\ Kindred(g.members)
    BY GroupsAre DEF CompaniesInv, TableInv
<1>2. \A g, h \in Groups : g # h => g.members \cap h.members = {}
    BY GroupsAre DEF CompaniesInv, TableInv
<1>3. <<>> \in Flights /\ DOMAIN <<>> = {}
  <2>1. <<>> \in [{} -> Results] /\ {} \in SUBSET Lookups
      OBVIOUS
  <2> QED BY <2>1, FlightMade
<1>4. /\ pool' = [main |-> "filling", queue |-> Groups, flying |-> <<>>, cancelled |-> FALSE,
                  finished |-> {}, saved |-> {}]
      /\ rows' = rows
    BY DEF ReviewBegins
<1>5. pool' \in Pool
    BY <1>1, <1>3, <1>4 DEF Pool
<1>6. Waiting' = Groups /\ ~Free'
    BY <1>3, <1>4, <1>5, WaitingIs
<1>7. Crew'
    BY <1>3, <1>4, FS_EmptySet, CompanyAssumption DEF Crew
<1>8. Apart'
    BY <1>2, <1>3, <1>4, <1>6 DEF Apart
<1>9. Kin'
    BY <1>1, <1>4, <1>6 DEF Kin, Kindred
<1>10. AtHand'
    BY <1>3, <1>4 DEF AtHand, Unsaved
<1> QED BY <1>5, <1>7, <1>8, <1>9, <1>10 DEF ReviewInv, PoolTyped

\* The pool is left with nobody new in it, and nothing saved.
LEMMA PoolMoves ==
    ASSUME ReviewInv, pool \in Pool, pool' \in Pool, UNCHANGED rows,
           Same(pool, pool', {"queue", "flying", "finished", "saved"}), AtHand'
    PROVE  ReviewInv'
<1> USE DEF Same
<1>1. /\ pool'.queue = pool.queue /\ pool'.flying = pool.flying
      /\ pool'.finished = pool.finished /\ pool'.saved = pool.saved
    OBVIOUS
<1>2. Waiting' = Waiting /\ ~Free /\ ~Free'
    BY <1>1, WaitingIs
<1>3. Kin' /\ \A g, h \in Waiting' : g # h => g.members \cap h.members = {}
    BY <1>2, FewerKeep
<1>4. Crew' /\ Apart'
    BY <1>1, <1>2, <1>3 DEF ReviewInv, Crew, Apart
<1> QED BY <1>3, <1>4 DEF ReviewInv, PoolTyped

LEMMA SubmitKeeps ==
    ASSUME CompaniesInv, NEW g, Submit(g)
    PROVE  ReviewInv'
<1>1. /\ pool \in Pool /\ ~Free /\ g \in pool.queue /\ pool.main = "filling" /\ ~pool.cancelled
      /\ Cardinality(DOMAIN pool.flying) < Workers /\ rows' = rows /\ ReviewInv
    BY DEF Submit, CompaniesInv, ReviewInv, PoolTyped
<1>2. CASE pool' = [pool EXCEPT !.main = "leaving"]
  <2> DEFINE q == [pool EXCEPT !.main = "leaving"]
  <2>1. q \in Pool /\ q.main = "leaving"
        /\ Same(pool, q, {"queue", "flying", "cancelled", "finished", "saved"})
      BY <1>1, PoolTurns
  <2>2. pool' = q
      BY <1>2
  <2> HIDE DEF q
  <2>3. AtHand'
      BY <1>1, <2>1, <2>2 DEF ReviewInv, AtHand, Unsaved, Same
  <2> QED BY <1>1, <2>1, <2>2, <2>3, PoolMoves DEF Same
<1>3. CASE pool' = [pool EXCEPT !.queue = @ \ {g}, !.flying = With(@, g, Looking)]
  <2> DEFINE q == [pool EXCEPT !.queue = @ \ {g}, !.flying = With(@, g, Looking)]
             f == pool.flying
             new == With(f, g, Looking)
  <2>1. /\ q \in Pool /\ q.queue = pool.queue \ {g} /\ q.flying = new
        /\ Same(pool, q, {"main", "cancelled", "finished", "saved"})
      BY <1>1, PoolSubmits
  <2>2. pool' = q
      BY <1>3
  <2>3. /\ DOMAIN new = DOMAIN f \cup {g} /\ new[g] = Looking
        /\ \A h \in DOMAIN f : h # g => new[h] = f[h]
    <3>1. f \in Flights /\ g \in Lookups
        BY <1>1 DEF Pool
    <3> QED BY <3>1, TakesOff
  <2> HIDE DEF q, new
  <2>4. pool' \in Pool /\ ~Free' /\ pool'.queue = pool.queue \ {g} /\ pool'.flying = new
      BY <2>1, <2>2, WaitingIs
  <2>5. /\ pool'.main = pool.main /\ pool'.cancelled = pool.cancelled
        /\ pool'.finished = pool.finished /\ pool'.saved = pool.saved
      BY <2>1, <2>2 DEF Same
  <2>6. Waiting' = Waiting /\ g \notin DOMAIN f
      BY <1>1, <2>3, <2>4, WaitingIs DEF ReviewInv, Apart
  <2>7. Kin' /\ \A a, b \in Waiting' : a # b => a.members \cap b.members = {}
      BY <1>1, <2>6, FewerKeep
  <2>8. Crew'
    <3>1. IsFiniteSet(DOMAIN f)
        BY <1>1 DEF ReviewInv, Crew
    <3>2. IsFiniteSet(DOMAIN new) /\ Cardinality(DOMAIN new) = Cardinality(DOMAIN f) + 1
        BY <2>3, <2>6, <3>1, FS_AddElement
    <3>3. Cardinality(DOMAIN f) \in Nat
        BY <3>1, FS_CardinalityType
    <3> QED BY <1>1, <2>4, <3>2, <3>3, CompanyAssumption DEF Crew
  <2>9. Apart'
      BY <1>1, <2>3, <2>4, <2>7 DEF ReviewInv, Apart
  <2>10. AtHand'
    <3>1. Unsaved \subseteq Unsaved'
        BY <2>3, <2>4, <2>6 DEF Unsaved
    <3>2. \A h \in DOMAIN new : new[h] # Interrupted
        BY <1>1, <2>3, ResultsDiffer DEF ReviewInv, AtHand
    <3> QED BY <1>1, <2>4, <2>5, <3>1, <3>2 DEF ReviewInv, AtHand
  <2> QED BY <2>4, <2>7, <2>8, <2>9, <2>10 DEF ReviewInv, PoolTyped
<1> QED BY <1>2, <1>3 DEF Submit

LEMMA StopSubmittingKeeps ==
    ASSUME CompaniesInv, StopSubmitting
    PROVE  ReviewInv'
<1>1. pool \in Pool /\ ~Free /\ rows' = rows /\ ReviewInv
    BY DEF StopSubmitting, CompaniesInv, ReviewInv, PoolTyped
<1> DEFINE q == [pool EXCEPT !.main = "waiting"]
<1>2. q \in Pool /\ q.main = "waiting"
      /\ Same(pool, q, {"queue", "flying", "cancelled", "finished", "saved"})
    BY <1>1, PoolTurns
<1>3. pool' = q
    BY DEF StopSubmitting
<1> HIDE DEF q
<1>4. Cardinality(DOMAIN pool.flying) = Workers => DOMAIN pool.flying # {}
    BY FS_EmptySet, CompanyAssumption
<1>5. AtHand'
    BY <1>1, <1>2, <1>3, <1>4 DEF StopSubmitting, ReviewInv, AtHand, Unsaved, Same
<1> QED BY <1>1, <1>2, <1>3, <1>5, PoolMoves DEF Same

LEMMA CancelKeeps ==
    ASSUME CompaniesInv, CancelReview
    PROVE  ReviewInv'
<1>1. pool \in Pool /\ ~Free /\ rows' = rows /\ ReviewInv
    BY DEF CancelReview, CompaniesInv, ReviewInv, PoolTyped
<1> DEFINE q == [pool EXCEPT !.cancelled = TRUE]
<1>2. q \in Pool /\ q.cancelled = TRUE
      /\ Same(pool, q, {"main", "queue", "flying", "finished", "saved"})
    BY <1>1, PoolCancels
<1>3. pool' = q
    BY DEF CancelReview
<1> HIDE DEF q
<1>4. AtHand'
    BY <1>1, <1>2, <1>3 DEF ReviewInv, AtHand, Unsaved, Same
<1> QED BY <1>1, <1>2, <1>3, <1>4, PoolMoves DEF Same

LEMMA FindingsAre ==
    \A g : \A r \in Findings(g) \cup {Interrupted} : r \in Answers \cup {Interrupted}
<1> TAKE g
<1>1. Found(None, None) \in Answers
    BY DEF Found, Answers
<1>2. ASSUME NEW site \in Sites, NEW info \in Infos \cup {None} PROVE Found(site, info) \in Answers
    BY DEF Found, Answers
<1>3. (IF "info" \in g.asked THEN Infos \cup {None} ELSE {None}) \subseteq Infos \cup {None}
    OBVIOUS
<1> QED BY <1>1, <1>2, <1>3 DEF Findings

LEMMA LookupEndsKeeps ==
    ASSUME CompaniesInv, NEW g, NEW r \in Answers \cup {Interrupted}, LookupEnds(g, r)
    PROVE  ReviewInv'
<1> DEFINE f == pool.flying
           new == [f EXCEPT ![g] = r]
           q == [pool EXCEPT !.flying[g] = r,
                             !.finished = IF r = Interrupted THEN @ ELSE @ \cup {g}]
<1>1. /\ pool \in Pool /\ ~Free /\ g \in DOMAIN f /\ f[g] = Looking /\ rows' = rows /\ ReviewInv
      /\ r = Interrupted => pool.cancelled
    BY DEF LookupEnds, CompaniesInv, ReviewInv, PoolTyped
<1>2. f \in Flights /\ r \in Results
    BY <1>1 DEF Pool, Results
<1>3. DOMAIN new = DOMAIN f /\ new[g] = r /\ \A h \in DOMAIN f : h # g => new[h] = f[h]
    BY <1>1, <1>2, Answered
<1>4. /\ q \in Pool /\ q.flying = new
      /\ q.finished = IF r = Interrupted THEN pool.finished ELSE pool.finished \cup {g}
      /\ Same(pool, q, {"main", "queue", "cancelled", "saved"})
    BY <1>1, <1>2, PoolAnswers
<1>5. pool' = q
    BY DEF LookupEnds
<1> HIDE DEF q, new
<1>6. /\ pool' \in Pool /\ ~Free' /\ pool'.flying = new /\ pool'.main = pool.main
      /\ pool'.queue = pool.queue /\ pool'.cancelled = pool.cancelled /\ pool'.saved = pool.saved
      /\ pool'.finished = IF r = Interrupted THEN pool.finished ELSE pool.finished \cup {g}
    BY <1>4, <1>5, WaitingIs DEF Same
<1>7. Waiting' = Waiting
    BY <1>1, <1>3, <1>6, WaitingIs
<1>8. Kin' /\ \A a, b \in Waiting' : a # b => a.members \cap b.members = {}
    BY <1>1, <1>7, FewerKeep
<1>9. Crew' /\ Apart'
    BY <1>1, <1>3, <1>6, <1>8 DEF ReviewInv, Crew, Apart
<1>10. AtHand'
  <2>1. pool'.finished \ pool'.saved \subseteq Unsaved'
    <3>1. Unsaved \subseteq Unsaved'
        BY <1>1, <1>3, <1>6, ResultsDiffer DEF Unsaved
    <3>2. r # Interrupted => g \in Unsaved'
        BY <1>1, <1>3, <1>6, ResultsDiffer DEF Unsaved
    <3>3. pool.finished \ pool.saved \subseteq Unsaved
        BY <1>1 DEF ReviewInv, AtHand
    <3> QED BY <1>6, <3>1, <3>2, <3>3
  <2>2. ~pool.cancelled => \A h \in DOMAIN new : new[h] # Interrupted
      BY <1>1, <1>3 DEF ReviewInv, AtHand
  <2>3. pool.main = "waiting" /\ ~pool.cancelled => pool.queue = {} \/ DOMAIN new # {}
      BY <1>1, <1>3
  <2> QED BY <1>6, <2>1, <2>2, <2>3 DEF AtHand
<1> QED BY <1>6, <1>8, <1>9, <1>10 DEF ReviewInv, PoolTyped

\* A set that something is taken out of stays within the crew.
LEMMA CrewShrinks ==
    ASSUME CompaniesInv, ~Free, NEW g, DOMAIN pool'.flying = DOMAIN pool.flying \ {g}
    PROVE  Crew'
<1>1. IsFiniteSet(DOMAIN pool.flying) /\ Cardinality(DOMAIN pool.flying) <= Workers
    BY DEF CompaniesInv, ReviewInv, Crew
<1>2. DOMAIN pool'.flying \in SUBSET DOMAIN pool.flying
    OBVIOUS
<1>3. /\ IsFiniteSet(DOMAIN pool'.flying)
      /\ Cardinality(DOMAIN pool'.flying) <= Cardinality(DOMAIN pool.flying)
    BY <1>1, <1>2, FS_Subset
<1>4. Cardinality(DOMAIN pool'.flying) \in Nat /\ Cardinality(DOMAIN pool.flying) \in Nat
    BY <1>1, <1>3, FS_CardinalityType
<1> QED BY <1>1, <1>3, <1>4, CompanyAssumption DEF Crew

LEMMA PassOverKeeps ==
    ASSUME CompaniesInv, NEW g, PassOver(g)
    PROVE  ReviewInv'
<1> DEFINE f == pool.flying
           new == Restrict(f, DOMAIN f \ {g})
           q == [pool EXCEPT !.flying = Restrict(@, DOMAIN @ \ {g})]
<1>1. /\ pool \in Pool /\ ~Free /\ g \in DOMAIN f /\ f[g] = Interrupted /\ rows' = rows
      /\ ReviewInv
    BY DEF PassOver, Skipped, CompaniesInv, ReviewInv, PoolTyped
<1>2. f \in Flights
    BY <1>1 DEF Pool
<1>3. DOMAIN new = DOMAIN f \ {g} /\ \A h \in DOMAIN f \ {g} : new[h] = f[h]
    BY <1>2, Lands
<1>4. q \in Pool /\ q.flying = new
      /\ Same(pool, q, {"main", "queue", "cancelled", "finished", "saved"})
    BY <1>1, PoolPasses
<1>5. pool' = q
    BY DEF PassOver
<1> HIDE DEF q, new
<1>6. /\ pool' \in Pool /\ ~Free' /\ pool'.flying = new /\ pool'.main = pool.main
      /\ pool'.queue = pool.queue /\ pool'.cancelled = pool.cancelled
      /\ pool'.saved = pool.saved /\ pool'.finished = pool.finished
    BY <1>4, <1>5, WaitingIs DEF Same
<1>7. Waiting' \subseteq Waiting
    BY <1>1, <1>3, <1>6, WaitingIs
<1>8. Kin' /\ \A a, b \in Waiting' : a # b => a.members \cap b.members = {}
    BY <1>1, <1>7, FewerKeep
<1>9. Crew'
    BY <1>1, <1>3, <1>6, CrewShrinks
<1>10. Apart'
    BY <1>1, <1>3, <1>6, <1>8 DEF ReviewInv, Apart
<1>11. AtHand'
  <2>1. Unsaved \subseteq Unsaved'
      BY <1>1, <1>3, <1>6, ResultsDiffer DEF Unsaved
  <2>2. pool.cancelled
      BY <1>1 DEF ReviewInv, AtHand
  <2> QED BY <1>1, <1>6, <2>1, <2>2 DEF ReviewInv, AtHand
<1> QED BY <1>6, <1>8, <1>9, <1>10, <1>11 DEF ReviewInv, PoolTyped

LEMMA SaveReviewKeeps ==
    ASSUME CompaniesInv, NEW g, NEW failing, NEW noted \in BOOLEAN, Save(g, failing, noted)
    PROVE  ReviewInv' /\ TableKept
<1> DEFINE f == pool.flying
           new == Restrict(f, DOMAIN f \ {g})
<1>1. /\ pool \in Pool /\ ~Free /\ g \in DOMAIN f /\ f[g].state = "found"
      /\ ReviewInv /\ TableInv
    BY DEF Save, CompaniesInv, ReviewInv, PoolTyped
<1>2. f \in Flights /\ g \in Lookups /\ f[g] \in Answers
  <2>1. f \in Flights
      BY <1>1 DEF Pool
  <2> QED BY <1>1, <2>1, FlightIs, ResultsDiffer
<1>3. DOMAIN new = DOMAIN f \ {g} /\ \A h \in DOMAIN f \ {g} : new[h] = f[h]
    BY <1>2, Lands
<1>4. PICK main \in {"filling", "leaving"} : main = IF noted THEN "filling" ELSE "leaving"
    OBVIOUS
<1> DEFINE q == [pool EXCEPT !.flying = Restrict(@, DOMAIN @ \ {g}), !.saved = @ \cup {g},
                             !.main = main]
<1>5. pool' = q
    BY <1>4 DEF Save
<1>6. /\ q \in Pool /\ q.flying = new /\ q.saved = pool.saved \cup {g} /\ q.main = main
      /\ Same(pool, q, {"queue", "cancelled", "finished"})
  <2>1. pool.flying \in Flights /\ pool.saved \cup {g} \in SUBSET Lookups
      BY <1>1, <1>2 DEF Pool
  <2>2. Restrict(pool.flying, DOMAIN pool.flying \ {g}) \in Flights
      BY <2>1, Lands
  <2> QED BY <1>1, <2>1, <2>2 DEF Pool, Same
<1> HIDE DEF q, new
<1>7. /\ pool' \in Pool /\ ~Free' /\ pool'.flying = new /\ pool'.main # "waiting"
      /\ pool'.queue = pool.queue /\ pool'.cancelled = pool.cancelled
      /\ pool'.saved = pool.saved \cup {g} /\ pool'.finished = pool.finished
    BY <1>4, <1>5, <1>6, WaitingIs DEF Same
<1>8. Waiting' \subseteq Waiting \ {g} /\ g \in Waiting
    BY <1>1, <1>3, <1>7, WaitingIs DEF ReviewInv, Apart
<1>9. /\ TableKept /\ DOMAIN rows' = DOMAIN rows
      /\ \A id \in DOMAIN rows : id \notin g.selected => rows'[id] = rows[id]
    BY <1>1, <1>2, SaveKeeps
<1>10. \A h \in Waiting' : \A id \in h.members : rows'[id] = rows[id]
  <2> TAKE h \in Waiting'
  <2> TAKE id \in h.members
  <2>1. h \in Waiting /\ h # g /\ h.members \cap g.members = {}
      BY <1>1, <1>8 DEF ReviewInv, Apart
  <2>2. g.selected \subseteq g.members /\ h.members \subseteq DOMAIN rows
      BY <1>1, <1>8, <2>1 DEF ReviewInv, Kin
  <2> QED BY <1>9, <2>1, <2>2
<1>11. Kin' /\ \A a, b \in Waiting' : a # b => a.members \cap b.members = {}
    BY <1>1, <1>8, <1>9, <1>10, FewerKeep
<1>12. Crew'
    BY <1>1, <1>3, <1>7, CrewShrinks
<1>13. Apart'
    BY <1>1, <1>3, <1>7, <1>11 DEF ReviewInv, Apart
<1>14. AtHand'
  <2>1. Unsaved \ {g} \subseteq Unsaved'
      BY <1>3, <1>7 DEF Unsaved
  <2>2. ~pool.cancelled => \A h \in DOMAIN new : new[h] # Interrupted
      BY <1>1, <1>3 DEF ReviewInv, AtHand
  <2> QED BY <1>1, <1>7, <2>1, <2>2 DEF ReviewInv, AtHand
<1> QED BY <1>7, <1>9, <1>11, <1>12, <1>13, <1>14 DEF ReviewInv, PoolTyped

LEMMA EndsKeeps ==
    ASSUME CompaniesInv, ReviewEnds \/ ReviewFails
    PROVE  ReviewInv' /\ ReportInv'
<1>1. pool' = Idle /\ ReviewInv'
    BY FreeKeeps DEF ReviewEnds, ReviewFails, Ends, Free
<1>2. CASE ReviewFails
  <2>1. report'.outcome = "failed"
      BY <1>2 DEF ReviewFails, Ends
  <2>2. edits' \in Nat /\ reviews' \in Nat /\ faults' \in Nat
      BY <1>2 DEF ReviewFails, bounds, CompaniesInv, ReportInv
  <2> QED BY <1>1, <2>1, <2>2 DEF ReportInv, FinishedIsSaved
<1>3. CASE ReviewEnds
  <2>1. ~Free /\ DOMAIN pool.flying = {} /\ pool.main = "waiting" /\ ReviewInv /\ pool \in Pool
      BY <1>3 DEF ReviewEnds, CompaniesInv, ReviewInv, PoolTyped
  <2>2. pool.finished \ pool.saved = {}
      BY <2>1 DEF ReviewInv, AtHand, Unsaved
  <2>3. ~pool.cancelled => pool.queue \cup DOMAIN pool.flying = {}
      BY <2>1 DEF ReviewInv, AtHand
  <2>4. Cardinality({}) = 0
      BY FS_EmptySet
  <2>5. /\ report'.outcome = IF pool.cancelled THEN "cancelled" ELSE "done"
        /\ report'.unsaved = Cardinality(pool.finished \ pool.saved)
        /\ report'.left = Cardinality(pool.queue \cup DOMAIN pool.flying)
      BY <1>3 DEF ReviewEnds, Ends
  <2>6. report'.unsaved = 0 /\ (~pool.cancelled => report'.left = 0)
      BY <2>2, <2>3, <2>4, <2>5
  <2>7. edits' \in Nat /\ reviews' \in Nat /\ faults' \in Nat
      BY <1>3 DEF ReviewEnds, bounds, CompaniesInv, ReportInv
  <2> QED BY <1>1, <2>5, <2>6, <2>7 DEF ReportInv, FinishedIsSaved
<1> QED BY <1>1, <1>2, <1>3

LEMMA CompaniesInvInit == Init => CompaniesInv
<1> SUFFICES ASSUME Init PROVE CompaniesInv
    OBVIOUS
<1>1. PICK s \in Starts :
          /\ born = s.born /\ rows = Backfilled(s.rows, s.born)
          /\ pool = Idle /\ report = NoReport
          /\ edits = s.edits /\ reviews = s.reviews /\ faults = s.faults
    BY DEF Init
<1> DEFINE D == DOMAIN s.rows
<1>2. /\ D \subseteq Ids /\ IsFiniteSet(D) /\ s.rows \in [D -> Row] /\ Ordered(s.born, D)
      /\ {s.edits, s.reviews, s.faults} \subseteq Nat
    BY StartsAssumption DEF Ordered
<1> HIDE DEF D
<1>3. rows \in [D -> Row] /\ Owned(rows)
    BY <1>1, <1>2, BackfilledIs
<1>4. DOMAIN rows = D
    BY <1>3
<1>5. TableInv
    BY <1>1, <1>2, <1>3, <1>4 DEF TableInv, RowsTyped, Aged
<1>6. ReviewInv
  <2>1. Free /\ Waiting = {}
      BY <1>1, WaitingIs DEF Free
  <2> QED BY <2>1 DEF ReviewInv, PoolTyped, Crew, Apart, Kin, AtHand
<1>7. ReportInv
    BY <1>1, <1>2 DEF ReportInv, FinishedIsSaved, NoReport
<1> QED BY <1>5, <1>6, <1>7 DEF CompaniesInv

\* Every step keeps the invariant and lets no two rows come to share a name.
LEMMA CompaniesInvStep ==
    ASSUME CompaniesInv, [Next]_vars
    PROVE  CompaniesInv' /\ Sharing(rows') \subseteq Sharing(rows)
<1> USE DEF CompaniesInv, bounds, Continue, NoFault, Breaks
<1>s. ASSUME UNCHANGED <<rows, born>> PROVE TableKept
    BY <1>s DEF TableKept, TableInv, RowsTyped, Aged, Sharing
<1>r. ASSUME edits' \in Nat, reviews' \in Nat, faults' \in Nat, report' \in {report, NoReport}
      PROVE  ReportInv'
    BY <1>r DEF ReportInv, FinishedIsSaved, NoReport
<1>k. TableKept => TableInv' /\ Sharing(rows') \subseteq Sharing(rows)
    BY DEF TableKept
<1>n. edits \in Nat /\ reviews \in Nat /\ faults \in Nat
    BY DEF ReportInv
<1>1. CASE \/ Change
           \/ \E id \in Ids : Delete(id)
           \/ \E id \in Ids, confirmed, final \in Sites \cup {None}, info \in Infos \cup {None} :
                  RefreshOne(id, confirmed, final, info)
  <2>1. TableKept /\ Editing
      BY <1>1, EditsKeep
  <2>2. Free' /\ ReportInv'
      BY <1>n, <1>r, <2>1 DEF Editing, Free
  <2> QED BY <1>k, <2>1, <2>2, FreeKeeps
<1>2. CASE ReviewBegins
    BY <1>2, <1>k, <1>n, <1>r, <1>s, BeginKeeps DEF ReviewBegins
<1>3. CASE StopSubmitting \/ CancelReview
    BY <1>3, <1>k, <1>n, <1>r, <1>s, StopSubmittingKeeps, CancelKeeps DEF StopSubmitting, CancelReview
<1>4. CASE ReviewEnds \/ ReviewFails
    BY <1>4, <1>k, <1>s, EndsKeeps DEF ReviewEnds, ReviewFails
<1>5. CASE Restart
  <2>1. TableKept
      BY <1>5, RestartKeeps DEF Restart
  <2>2. Free'
      BY <1>5 DEF Restart, Free
  <2>3. ReportInv'
      BY <1>5, <1>n DEF Restart, ReportInv, FinishedIsSaved
  <2> QED BY <1>k, <2>1, <2>2, <2>3, FreeKeeps
<1>6. ASSUME NEW g, Submit(g) PROVE CompaniesInv' /\ Sharing(rows') \subseteq Sharing(rows)
  <2>1. ReviewInv'
      BY <1>6, SubmitKeeps
  <2>2. UNCHANGED <<rows, born>> /\ report' = report
      BY <1>6 DEF Submit
  <2>3. edits' \in Nat /\ reviews' \in Nat /\ faults' \in Nat
      BY <1>6, <1>n DEF Submit
  <2> QED BY <1>k, <1>r, <1>s, <2>1, <2>2, <2>3
<1>7. ASSUME NEW g, PassOver(g) PROVE CompaniesInv' /\ Sharing(rows') \subseteq Sharing(rows)
    BY <1>7, <1>k, <1>n, <1>r, <1>s, PassOverKeeps DEF PassOver
<1>8. ASSUME NEW g, NEW result \in Findings(g) \cup {Interrupted}, LookupEnds(g, result)
      PROVE  CompaniesInv' /\ Sharing(rows') \subseteq Sharing(rows)
  <2>1. result \in Answers \cup {Interrupted}
      BY FindingsAre
  <2>2. ReviewInv'
      BY <1>8, <2>1, LookupEndsKeeps
  <2> QED BY <1>8, <2>2, <1>k, <1>n, <1>r, <1>s DEF LookupEnds
<1>9. ASSUME NEW g, NEW failing, NEW noted \in BOOLEAN, Save(g, failing, noted)
      PROVE  CompaniesInv' /\ Sharing(rows') \subseteq Sharing(rows)
  <2>1. ReviewInv' /\ TableKept
      BY <1>9, SaveReviewKeeps
  <2>2. ReportInv'
      BY <1>9, <1>n, <1>r DEF Save
  <2> QED BY <1>k, <2>1, <2>2
<1>10. CASE UNCHANGED vars
  <2>1. TableInv' /\ Sharing(rows') \subseteq Sharing(rows)
      BY <1>10, <1>k, <1>s DEF vars
  <2>2. ReviewInv'
      BY <1>10 DEF vars, ReviewInv, PoolTyped, Crew, Apart, Kin, Kindred, AtHand, Unsaved, Free, Waiting
  <2>3. ReportInv'
      BY <1>10, <1>n, <1>r DEF vars
  <2> QED BY <2>1, <2>2, <2>3
<1> QED BY <1>1, <1>2, <1>3, <1>4, <1>5, <1>6, <1>7, <1>8, <1>9, <1>10 DEF Next

-----------------------------------------------------------------------------

\* The inductive invariant: the table is typed, its rows have an age and own keys of
\* their own; a company is in one lookup at a time, with rows it shares a domain with;
\* and what was found and not saved is at hand.
THEOREM CompaniesInvariance == Spec => []CompaniesInv
<1>1. CompaniesInv /\ [Next]_vars => CompaniesInv'
    BY CompaniesInvStep
<1> QED BY CompaniesInvInit, <1>1, PTL DEF Spec

\* Every variable keeps its type.
THEOREM CompaniesTypeCorrect == Spec => []TypeOK
<1>1. CompaniesInv => TypeOK
  <2> SUFFICES ASSUME CompaniesInv PROVE TypeOK
      OBVIOUS
  <2>1. ASSUME ~Free
        PROVE  /\ pool.main \in {"filling", "waiting", "leaving"} /\ pool.cancelled \in BOOLEAN
               /\ Cardinality(DOMAIN pool.flying) <= Workers
               /\ \A g \in pool.queue \cup DOMAIN pool.flying :
                     g.selected # {} /\ g.selected \subseteq g.members
    <3>1. pool \in Pool /\ Waiting = pool.queue \cup DOMAIN pool.flying
        BY <2>1, WaitingIs DEF CompaniesInv, ReviewInv, PoolTyped
    <3>2. pool.main \in {"filling", "waiting", "leaving"} /\ pool.cancelled \in BOOLEAN
        BY <3>1 DEF Pool
    <3> QED BY <2>1, <3>1, <3>2 DEF CompaniesInv, ReviewInv, Crew, Kin
  <2>2. /\ DOMAIN rows \subseteq Ids /\ \A id \in DOMAIN rows : rows[id] \in Row
        /\ Range(born) = DOMAIN rows /\ IsInjective(born)
      BY DEF CompaniesInv, TableInv, RowsTyped, Aged, Ordered
  <2> QED BY <2>1, <2>2 DEF TypeOK, CompaniesInv, ReportInv
<1> QED BY CompaniesInvariance, <1>1, PTL

\* No edit, import or restart makes two rows share a name that did not, and no two rows
\* ever own a key, whatever duplicates a legacy table holds.
THEOREM NamesStayApart == Spec => NamesApart
<1>1. CompaniesInv /\ [Next]_vars
        => [/\ Sharing(rows') \subseteq Sharing(rows)
            /\ \A a, b \in DOMAIN rows' :
                  a # b /\ rows'[a].key # None => rows'[a].key # rows'[b].key]_vars
    BY CompaniesInvStep DEF CompaniesInv, TableInv, Owned
<1> QED BY CompaniesInvariance, <1>1, PTL DEF Spec, NamesApart

\* Of rows that share a lookup there is one domain at most.
LEMMA OneDomain ==
    ASSUME CompaniesInv, NEW g \in Waiting, Cardinality(g.members) > 1
    PROVE  Cardinality(UNION {Plausible(rows[id]) : id \in g.members}) <= 1
<1> DEFINE U == UNION {Plausible(rows[id]) : id \in g.members}
<1>1. PICK a \in g.members, b \in g.members : a # b
  <2>1. g.members # {}
      BY FS_EmptySet
  <2>2. PICK a \in g.members : TRUE
      BY <2>1
  <2>3. g.members # {a}
      BY FS_Singleton
  <2> QED BY <2>2, <2>3
<1>2. PICK site \in Sites : \A id \in g.members : Plausible(rows[id]) \subseteq {site}
    BY <1>1 DEF CompaniesInv, ReviewInv, Kin, Kindred
<1>3. U \in SUBSET {site}
    BY <1>2
<1> HIDE DEF U
<1>4. Cardinality(U) <= 1
  <2>1. IsFiniteSet({site}) /\ Cardinality({site}) = 1
      BY FS_Singleton
  <2> QED BY <1>3, <2>1, FS_Subset
<1> QED BY <1>4 DEF U

\* Rows that share a lookup have one domain between them from the grouping until the
\* save; and a save neither replaces a sound value that the lookup did not start from,
\* nor marks a website as verified that was not the one found.
THEOREM NothingIsCrossFilled == Spec => NoCrossFill
<1>1. ASSUME CompaniesInv, NEW g \in Waiting, NEW failing, NEW noted, Save(g, failing, noted),
             NEW id \in g.selected
      PROVE  /\ \A f \in Fields : rows[id][f] \notin {None, Bad, g.lead[f]} =>
                    rows'[id][f] = rows[id][f]
             /\ rows'[id].verified => rows[id] = rows'[id] \/ rows[id].verified
                                      \/ rows'[id].site = pool.flying[g].site
  <2>1. /\ pool \in Pool /\ g \in DOMAIN pool.flying /\ pool.flying[g].state = "found"
        /\ TableInv
      BY <1>1 DEF Save, CompaniesInv, ReviewInv, PoolTyped
  <2>2. g \in Lookups /\ pool.flying[g] \in Answers
    <3>1. pool.flying \in Flights
        BY <2>1 DEF Pool
    <3> QED BY <2>1, <3>1, FlightIs, ResultsDiffer
  <2>3. id \in DOMAIN rows
      BY <1>1 DEF CompaniesInv, ReviewInv, Kin
  <2>4. rows[id] \in Row
      BY <2>1, <2>3 DEF TableInv, RowsTyped
  <2>5. rows'[id] \in {rows[id], Reviewed(rows[id], g, pool.flying[g])}
      BY <1>1, <2>1, <2>2, <2>3, SaveKeeps
  <2> QED BY <2>2, <2>4, <2>5, ReviewedIs
<1>2. CompaniesInv /\ [Next]_vars
        => [\A g \in Waiting :
               /\ Cardinality(g.members) > 1 =>
                     Cardinality(UNION {Plausible(rows[id]) : id \in g.members}) <= 1
               /\ \A failing \in SUBSET g.selected, noted \in BOOLEAN : Save(g, failing, noted) =>
                     \A id \in g.selected :
                         /\ \A f \in Fields : rows[id][f] \notin {None, Bad, g.lead[f]} =>
                               rows'[id][f] = rows[id][f]
                         /\ rows'[id].verified => rows[id] = rows'[id] \/ rows[id].verified
                                                  \/ rows'[id].site = pool.flying[g].site]_vars
    BY <1>1, OneDomain
<1> QED BY CompaniesInvariance, <1>2, PTL DEF Spec, NoCrossFill

\* Every lookup that finished is saved, also when the review was cancelled in the
\* meantime, and a review that reports success leaves no company out.
THEOREM FindingsAreSaved == Spec => []FinishedIsSaved
<1>1. CompaniesInv => FinishedIsSaved
    BY DEF CompaniesInv, ReportInv
<1> QED BY CompaniesInvariance, <1>1, PTL
=============================================================================
