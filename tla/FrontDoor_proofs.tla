--------------------------- MODULE FrontDoor_proofs ---------------------------
(***************************************************************************)
(* Proofs about what a request meets first: ReadinessCache, for all        *)
(* callers and lifetimes of the cache, and Sessions, for all tokens, tabs, *)
(* requests and times.  The two share no state.                            *)
(***************************************************************************)
EXTENDS ReadinessCache, Sessions, FiniteSetTheorems, TLAPS

-----------------------------------------------------------------------------
(* Readiness.                                                              *)
Results == [Components -> BOOLEAN]
Checks  == [at : {"checking"}, seen : Seq(BOOLEAN), spent : 0 .. CheckTime]

Typed ==
    /\ sound \in Results /\ watched \in Components /\ steady \in 0 .. Ttl + CheckTime
    /\ entry \subseteq [left : 0 .. Ttl, result : Results]
    /\ \A one, other \in entry : one = other
    /\ caller = [c \in Everyone |-> caller[c]]
    /\ \A c \in Everyone :
           \/ caller[c] \in {Away, Looking, Waiting} \cup Checks
           \/ caller[c].at = "answered"

\* What a check has seen of the component that changes, if that changed last
\* before the check began.
SeenAsItIs(c) ==
    caller[c] \in Checks /\ steady > caller[c].spent =>
        \A n \in 1..Len(caller[c].seen) : Steps[n] = watched => caller[c].seen[n] = sound[watched]

\* A stored result tells it as it is if it last changed before the check of that
\* result can have begun.
StoredAsItIs ==
    \A kept \in entry :
        steady > Ttl + CheckTime - kept.left => kept.result[watched] = sound[watched]

CacheInv == Typed /\ (\A c \in Everyone : SeenAsItIs(c)) /\ StoredAsItIs

LEMMA TimesAreNat == Ttl \in Nat \ {0} /\ CheckTime \in Nat \ {0}
BY ReadinessAssumption

LEMMA CacheInit == ReadinessInit => CacheInv
<1> SUFFICES ASSUME ReadinessInit PROVE CacheInv
    OBVIOUS
<1>1. \A c \in Everyone : caller[c] \in {Away, Looking} /\ caller[c] \notin Checks
    BY DEF ReadinessInit, Away, Looking, Checks
<1> QED
    BY <1>1, TimesAreNat DEF ReadinessInit, CacheInv, Typed, SeenAsItIs, StoredAsItIs, Results

\* Waking those that wait disturbs no check.
LEMMA NotifiedKeeps ==
    ASSUME CacheInv, NEW c \in Everyone, NEW r, r = Away \/ r = Looking \/ r.at = "answered",
           caller' = [Notified EXCEPT ![c] = r], UNCHANGED <<sound, watched, steady>>
    PROVE  /\ caller' = [d \in Everyone |-> caller'[d]]
           /\ \A d \in Everyone :
                  \/ caller'[d] \in {Away, Looking, Waiting} \cup Checks
                  \/ caller'[d].at = "answered"
           /\ \A d \in Everyone : SeenAsItIs(d)'
<1>1. \A d \in Everyone : d # c => caller'[d] = IF caller[d] = Waiting THEN Looking ELSE caller[d]
    BY DEF Notified
<1>2. caller'[c] = r /\ caller' = [d \in Everyone |-> caller'[d]]
    BY DEF Notified
<1>3. r \notin Checks /\ Looking \notin Checks
    BY DEF Away, Looking, Checks
<1> QED
    BY <1>1, <1>2, <1>3 DEF CacheInv, Typed, SeenAsItIs, Results

\* Nothing a reader of the cache does lets a result or a check grow old.
LEMMA OthersKeep ==
    ASSUME CacheInv, UNCHANGED <<sound, watched, steady>>, entry' \subseteq entry,
           caller' = [c \in Everyone |-> caller'[c]],
           \A c \in Everyone :
               caller'[c] = caller[c] \/ caller'[c] \in {Away, Looking, Waiting, Checking(<<>>, 0)}
                   \/ caller'[c].at = "answered"
    PROVE  CacheInv'
<1>1. ASSUME NEW c \in Everyone, caller'[c] # caller[c]
      PROVE  /\ caller'[c] \in {Away, Looking, Waiting} \cup Checks \/ caller'[c].at = "answered"
             /\ SeenAsItIs(c)'
    <2>1. CASE caller'[c] = Checking(<<>>, 0)
        <3>1. caller'[c] \in Checks /\ caller'[c].seen = <<>>
            BY <2>1, TimesAreNat DEF Checking, Checks
        <3> QED
            BY <3>1 DEF SeenAsItIs
    <2>2. CASE caller'[c] \in {Away, Looking, Waiting} \/ caller'[c].at = "answered"
        <3>1. caller'[c] \notin Checks
            BY <2>2 DEF Away, Looking, Waiting, Checks
        <3> QED
            BY <2>2, <3>1 DEF SeenAsItIs
    <2> QED BY <1>1, <2>1, <2>2
<1>2. \A c \in Everyone : caller'[c] = caller[c] => SeenAsItIs(c)'
    BY DEF CacheInv, SeenAsItIs
<1>3. Typed'
    BY <1>1 DEF CacheInv, Typed, Checks, Results
<1>4. StoredAsItIs'
    BY DEF CacheInv, StoredAsItIs
<1> QED BY <1>1, <1>2, <1>3, <1>4 DEF CacheInv

LEMMA StepsCover ==
    /\ \A n \in 1..4 : Steps[n] \in Components
    /\ \A part \in Components : \E n \in 1..4 : Steps[n] = part
    /\ Len(Steps) = 4
BY DEF Steps, Components

LEMMA CheckingIsCheck ==
    ASSUME CacheInv, NEW c \in Everyone, caller[c].at = "checking"
    PROVE  caller[c] \in Checks
BY DEF CacheInv, Typed, Away, Looking, Waiting

\* A check that began after the last change has seen the component as it is.
LEMMA ResultIsSound ==
    ASSUME CacheInv, NEW c \in Everyone, caller[c].at = "checking",
           Len(caller[c].seen) = Len(Steps)
    PROVE  /\ Result(caller[c].seen) \in Results
           /\ steady > CheckTime => Result(caller[c].seen)[watched] = sound[watched]
<1> DEFINE seen == caller[c].seen
<1>1. caller[c] \in Checks /\ seen \in Seq(BOOLEAN) /\ caller[c].spent \in 0 .. CheckTime
    BY CheckingIsCheck DEF Checks
<1>2. DOMAIN seen = 1..4 /\ \A n \in 1..4 : seen[n] \in BOOLEAN
    BY <1>1, StepsCover
<1>3. Result(seen) \in Results
    BY <1>2 DEF Result, Results
<1>4. ASSUME steady > CheckTime PROVE Result(seen)[watched] = sound[watched]
    <2>1. steady > caller[c].spent
        BY <1>1, <1>4, TimesAreNat DEF CacheInv, Typed
    <2>2. \A n \in 1..4 : Steps[n] = watched => seen[n] = sound[watched]
        BY <1>1, <2>1, StepsCover DEF CacheInv, SeenAsItIs
    <2>3. PICK n \in 1..4 : Steps[n] = watched
        BY StepsCover DEF CacheInv, Typed
    <2>4. watched \in Components /\ sound[watched] \in BOOLEAN
        BY DEF CacheInv, Typed, Results
    <2>5. Result(seen)[watched] = (\A m \in 1..4 : Steps[m] = watched => seen[m])
        BY <1>2, <2>4 DEF Result
    <2>6. CASE sound[watched] = TRUE
        BY <2>2, <2>5, <2>6
    <2>7. CASE sound[watched] = FALSE
        BY <2>2, <2>3, <2>5, <2>7
    <2> QED BY <2>4, <2>6, <2>7
<1> QED BY <1>3, <1>4

\* A check stays one as it goes on for a tick, and as it looks at the next part.
LEMMA ChecksStayChecks ==
    ASSUME NEW check \in Checks, check.spent < CheckTime
    PROVE  /\ [check EXCEPT !.spent = @ + 1] =
                  [at |-> "checking", seen |-> check.seen, spent |-> check.spent + 1]
           /\ [check EXCEPT !.spent = @ + 1] \in Checks
BY TimesAreNat DEF Checks

LEMMA LookingOnStaysCheck ==
    ASSUME NEW check \in Checks, NEW seen \in Seq(BOOLEAN)
    PROVE  /\ [check EXCEPT !.seen = seen] =
                  [at |-> "checking", seen |-> seen, spent |-> check.spent]
           /\ [check EXCEPT !.seen = seen] \in Checks
BY DEF Checks

LEMMA OneMore == \A n \in Nat : n < 4 => n \in 0..3
OBVIOUS

LEMMA NextStep == \A n : n \in 0..3 => n + 1 \in 1..4
OBVIOUS

LEMMA PartKeeps ==
    ASSUME CacheInv, NEW c \in Everyone, CheckPart(c)
    PROVE  CacheInv'
<1> DEFINE saw  == sound[Steps[Len(caller[c].seen) + 1]]
           seen == Append(caller[c].seen, saw)
<1>1. caller[c] \in Checks /\ Len(caller[c].seen) \in 0..3
    <2>1. caller[c] \in Checks
        BY CheckingIsCheck DEF CheckPart
    <2>2. caller[c].seen \in Seq(BOOLEAN)
        BY <2>1 DEF Checks
    <2>3. Len(caller[c].seen) \in Nat /\ Len(caller[c].seen) < 4
        BY <2>2, StepsCover DEF CheckPart
    <2> QED BY <2>1, <2>3, OneMore
<1>2. saw \in BOOLEAN
    <2> DEFINE next == Len(caller[c].seen) + 1
    <2>1. next \in 1..4
        BY <1>1, NextStep
    <2>2. Steps[next] \in Components
        BY <2>1, StepsCover
    <2>3. sound \in [Components -> BOOLEAN]
        BY DEF CacheInv, Typed, Results
    <2> QED BY <2>2, <2>3
<1>3. caller' = [caller EXCEPT ![c].seen = seen]
    BY DEF CheckPart
<1>4. /\ caller'[c] = [caller[c] EXCEPT !.seen = seen]
      /\ \A d \in Everyone : d # c => caller'[d] = caller[d]
      /\ caller' = [d \in Everyone |-> caller'[d]]
    BY <1>3 DEF CacheInv, Typed
<1>5. caller'[c] \in Checks /\ caller'[c].seen = seen /\ caller'[c].spent = caller[c].spent
    <2>1. seen \in Seq(BOOLEAN)
        BY <1>1, <1>2 DEF Checks
    <2>2. caller'[c] = [at |-> "checking", seen |-> seen, spent |-> caller[c].spent]
        BY <1>1, <1>4, <2>1, LookingOnStaysCheck
    <2>3. caller'[c] \in Checks
        BY <1>1, <2>1, <2>2 DEF Checks
    <2> QED BY <2>2, <2>3
<1>6. SeenAsItIs(c)'
    <2>1. \A n \in 1..Len(seen) :
             seen[n] = IF n <= Len(caller[c].seen) THEN caller[c].seen[n] ELSE saw
        BY <1>1, <1>2 DEF Checks
    <2>2. Len(seen) = Len(caller[c].seen) + 1
        BY <1>1, <1>2 DEF Checks
    <2>3. UNCHANGED <<sound, watched, steady>>
        BY DEF CheckPart
    <2>4. SeenAsItIs(c)
        BY DEF CacheInv
    <2> QED
        BY <1>1, <1>5, <2>1, <2>2, <2>3, <2>4 DEF SeenAsItIs
<1>7. \A d \in Everyone : d # c => SeenAsItIs(d)'
    BY <1>4 DEF CacheInv, SeenAsItIs, CheckPart
<1>8. Typed'
    BY <1>4, <1>5 DEF CacheInv, Typed, CheckPart, Checks, Results
<1>9. StoredAsItIs'
    BY DEF CacheInv, StoredAsItIs, CheckPart
<1> QED BY <1>6, <1>7, <1>8, <1>9 DEF CacheInv

LEMMA EndKeeps ==
    ASSUME CacheInv, NEW c \in Everyone, CheckEnds(c)
    PROVE  CacheInv'
<1> DEFINE result == Result(caller[c].seen)
<1>1. result \in Results /\ (steady > CheckTime => result[watched] = sound[watched])
    BY ResultIsSound DEF CheckEnds
<1>2. /\ caller' = [Notified EXCEPT ![c] = Answered(result)]
      /\ entry' = {[left |-> Ttl, result |-> result]}
      /\ UNCHANGED <<sound, watched, steady>>
    BY DEF CheckEnds
<1>3. Answered(result).at = "answered"
    BY DEF Answered
<1>4. /\ caller' = [d \in Everyone |-> caller'[d]]
      /\ \A d \in Everyone :
             \/ caller'[d] \in {Away, Looking, Waiting} \cup Checks
             \/ caller'[d].at = "answered"
      /\ \A d \in Everyone : SeenAsItIs(d)'
    BY <1>2, <1>3, NotifiedKeeps
<1>5. Typed'
    <2>1. [left |-> Ttl, result |-> result] \in [left : 0 .. Ttl, result : Results]
        BY <1>1, TimesAreNat
    <2> QED BY <1>2, <1>4, <2>1 DEF CacheInv, Typed, Checks, Results
<1>6. StoredAsItIs'
    BY <1>1, <1>2, TimesAreNat DEF StoredAsItIs
<1> QED BY <1>4, <1>5, <1>6 DEF CacheInv

LEMMA TickKeeps ==
    ASSUME CacheInv, ReadinessTick
    PROVE  CacheInv'
<1>1. /\ steady \in 0 .. Ttl + CheckTime /\ steady' \in 0 .. Ttl + CheckTime
      /\ steady' <= steady + 1
    BY TimesAreNat DEF CacheInv, Typed, ReadinessTick
<1>2. \A c \in Everyone :
         caller'[c] = IF c \in Checkers THEN [caller[c] EXCEPT !.spent = @ + 1] ELSE caller[c]
    BY DEF ReadinessTick
<1>3. ASSUME NEW c \in Everyone
      PROVE  /\ SeenAsItIs(c)'
             /\ caller'[c] \in {Away, Looking, Waiting} \cup Checks \/ caller'[c].at = "answered"
    <2>1. CASE c \in Checkers
        <3>1. caller[c] \in Checks /\ caller[c].spent < CheckTime
            BY <2>1, CheckingIsCheck DEF Checkers, ReadinessTick
        <3>2. caller'[c] \in Checks /\ caller'[c].seen = caller[c].seen
                  /\ caller'[c].spent = caller[c].spent + 1
            <4>1. caller'[c] = [caller[c] EXCEPT !.spent = @ + 1]
                BY <1>2, <2>1
            <4>2. caller'[c] \in Checks
                BY <3>1, <4>1, ChecksStayChecks
            <4>3. caller'[c] = [at |-> "checking", seen |-> caller[c].seen,
                                spent |-> caller[c].spent + 1]
                BY <3>1, <4>1, ChecksStayChecks
            <4> QED BY <4>2, <4>3
        <3>3. steady' > caller'[c].spent => steady > caller[c].spent
            BY <1>1, <3>1, <3>2, TimesAreNat DEF Checks
        <3>4. UNCHANGED <<sound, watched>> /\ SeenAsItIs(c)
            BY DEF ReadinessTick, CacheInv
        <3> QED BY <3>1, <3>2, <3>3, <3>4 DEF SeenAsItIs
    <2>2. CASE c \notin Checkers
        <3>1. caller'[c] = caller[c] /\ caller[c] \notin Checks
            BY <1>2, <2>2 DEF Checkers, Checks
        <3> QED BY <3>1 DEF CacheInv, Typed, SeenAsItIs, Checks
    <2> QED BY <2>1, <2>2
<1>4. ASSUME NEW kept \in entry'
      PROVE  /\ kept \in [left : 0 .. Ttl, result : Results]
             /\ steady' > Ttl + CheckTime - kept.left => kept.result[watched'] = sound'[watched']
    <2>1. PICK before \in entry : kept = [before EXCEPT !.left = IF @ = 0 THEN 0 ELSE @ - 1]
        BY DEF ReadinessTick
    <2>2. before \in [left : 0 .. Ttl, result : Results]
        BY DEF CacheInv, Typed
    <2>3. /\ kept.left = (IF before.left = 0 THEN 0 ELSE before.left - 1)
          /\ kept.result = before.result
          /\ kept \in [left : 0 .. Ttl, result : Results]
        BY <2>1, <2>2, TimesAreNat
    <2>4. steady' > Ttl + CheckTime - kept.left => steady > Ttl + CheckTime - before.left
        BY <1>1, <2>2, <2>3, TimesAreNat
    <2>5. UNCHANGED <<sound, watched>>
        BY DEF ReadinessTick
    <2> QED BY <2>3, <2>4, <2>5 DEF CacheInv, StoredAsItIs
<1>5. \A one, other \in entry' : one = other
    BY DEF ReadinessTick, CacheInv, Typed
<1>6. caller' = [c \in Everyone |-> caller'[c]]
    BY DEF ReadinessTick
<1>7. Typed'
    BY <1>1, <1>3, <1>4, <1>5, <1>6 DEF CacheInv, Typed, ReadinessTick, Checks, Results
<1>8. StoredAsItIs'
    BY <1>4 DEF StoredAsItIs
<1> QED BY <1>3, <1>7, <1>8 DEF CacheInv

LEMMA ReadersKeep ==
    ASSUME CacheInv, NEW c \in Everyone, AskHealth(c) \/ LookUp(c) \/ Leave(c)
    PROVE  CacheInv'
<1>1. CASE AskHealth(c)
    BY <1>1, OthersKeep DEF AskHealth, CacheInv, Typed
<1>2. CASE LookUp(c)
    <2> DEFINE r == IF Fresh THEN Answered((CHOOSE kept \in entry : TRUE).result)
                    ELSE IF flying THEN Waiting ELSE Checking(<<>>, 0)
    <2>1. r \in {Waiting, Checking(<<>>, 0)} \/ r.at = "answered"
        BY DEF Answered
    <2>2. caller' = [caller EXCEPT ![c] = r]
        BY <1>2 DEF LookUp
    <2>3. UNCHANGED <<sound, watched, steady>> /\ entry' \subseteq entry
        BY <1>2 DEF LookUp
    <2>4. \A d \in Everyone :
              caller'[d] = caller[d] \/ caller'[d] \in {Away, Looking, Waiting, Checking(<<>>, 0)}
                  \/ caller'[d].at = "answered"
        BY <2>1, <2>2 DEF CacheInv, Typed
    <2>5. caller' = [d \in Everyone |-> caller'[d]]
        BY <2>2 DEF CacheInv, Typed
    <2> QED BY <2>3, <2>4, <2>5, OthersKeep
<1>3. CASE Leave(c)
    BY <1>3, OthersKeep DEF Leave, CacheInv, Typed
<1> QED BY <1>1, <1>2, <1>3

LEMMA RaiseKeeps ==
    ASSUME CacheInv, NEW c \in Everyone, CheckRaises(c)
    PROVE  CacheInv'
<1>1. PICK r \in {Away, Looking} : caller' = [Notified EXCEPT ![c] = r]
    BY DEF CheckRaises
<1>2. UNCHANGED <<sound, watched, steady, entry>>
    BY DEF CheckRaises
<1>3. /\ caller' = [d \in Everyone |-> caller'[d]]
      /\ \A d \in Everyone :
             \/ caller'[d] \in {Away, Looking, Waiting} \cup Checks
             \/ caller'[d].at = "answered"
      /\ \A d \in Everyone : SeenAsItIs(d)'
    BY <1>1, <1>2, NotifiedKeeps
<1> QED
    BY <1>2, <1>3 DEF CacheInv, Typed, StoredAsItIs, Checks, Results

LEMMA ProcessKeeps ==
    ASSUME CacheInv, StartupDecides \/ ReadinessRestart
    PROVE  CacheInv'
<1>1. CASE StartupDecides
    <2>1. PICK r \in {Away, Looking} : caller' = [caller EXCEPT ![Startup] = r]
        BY <1>1 DEF StartupDecides
    <2>2. UNCHANGED <<sound, watched, steady>> /\ entry' \subseteq entry
        BY <1>1 DEF StartupDecides
    <2>3. \A d \in Everyone : caller'[d] = caller[d] \/ caller'[d] \in {Away, Looking}
        BY <2>1 DEF CacheInv, Typed
    <2>4. caller' = [d \in Everyone |-> caller'[d]]
        BY <2>1 DEF CacheInv, Typed
    <2> QED BY <2>2, <2>3, <2>4, OthersKeep
<1>2. CASE ReadinessRestart
    BY <1>2, OthersKeep DEF ReadinessRestart
<1> QED BY <1>1, <1>2

\* A change of the component makes everything seen and stored too old to count.
LEMMA ChangeKeeps ==
    ASSUME CacheInv, StorageChanges
    PROVE  CacheInv'
<1>1. UNCHANGED <<watched, entry, caller>> /\ steady' = 0
    BY DEF StorageChanges
<1>2. sound' \in Results
    BY DEF StorageChanges, CacheInv, Typed, Results
<1>3. \A c \in Everyone : SeenAsItIs(c)'
    BY <1>1, TimesAreNat DEF SeenAsItIs, Checks
<1>4. StoredAsItIs'
    BY <1>1, TimesAreNat DEF StoredAsItIs, CacheInv, Typed
<1>5. Typed'
    BY <1>1, <1>2, TimesAreNat DEF CacheInv, Typed, Checks, Results
<1> QED BY <1>3, <1>4, <1>5 DEF CacheInv

LEMMA CacheStep == CacheInv /\ [ReadinessNext]_readinessVars => CacheInv'
<1> SUFFICES ASSUME CacheInv, [ReadinessNext]_readinessVars PROVE CacheInv'
    OBVIOUS
<1>1. ASSUME NEW c \in Everyone,
             AskHealth(c) \/ LookUp(c) \/ CheckPart(c) \/ CheckRaises(c) \/ CheckEnds(c) \/ Leave(c)
      PROVE  CacheInv'
    BY <1>1, ReadersKeep, PartKeeps, RaiseKeeps, EndKeeps
<1>2. CASE UNCHANGED readinessVars
    BY <1>2 DEF readinessVars, CacheInv, Typed, SeenAsItIs, StoredAsItIs, Checks, Results
<1> QED
    BY <1>1, <1>2, ProcessKeeps, ChangeKeeps, TickKeeps DEF ReadinessNext

\* Whatever is stored or being seen of the component that changes is right unless it
\* changed within a lifetime of the cache and a check, for any number of callers.
THEOREM CacheInvariance == ReadinessSpec => []CacheInv
BY CacheInit, CacheStep, PTL DEF ReadinessSpec

\* Only a look at the stored result and the end of a check answer a caller.
LEMMA AnswersComeFromTwo ==
    ASSUME CacheInv, ReadinessNext, NEW c \in Everyone,
           caller'[c].at = "answered", caller[c].at # "answered"
    PROVE  LookUp(c) \/ CheckEnds(c)
<1>1. \A d \in Everyone : Notified[d] = caller[d] \/ Notified[d] = Looking
    BY DEF Notified
<1>2. Looking.at # "answered" /\ Away.at # "answered" /\ Waiting.at # "answered"
    BY DEF Looking, Away, Waiting
<1>3. ASSUME NEW d \in Everyone,
             AskHealth(d) \/ LookUp(d) \/ CheckPart(d) \/ CheckRaises(d) \/ CheckEnds(d) \/ Leave(d)
      PROVE  LookUp(c) \/ CheckEnds(c)
    <2>1. CASE AskHealth(d)
        BY <2>1, <1>2 DEF AskHealth, CacheInv, Typed
    <2>2. CASE LookUp(d)
        <3>1. \A e \in Everyone : e # d => caller'[e] = caller[e]
            BY <2>2 DEF LookUp
        <3>2. c = d
            BY <3>1
        <3> QED BY <2>2, <3>2
    <2>3. CASE CheckPart(d)
        <3>1. \A e \in Everyone : e # d => caller'[e] = caller[e]
            BY <2>3 DEF CheckPart, CacheInv, Typed
        <3>2. caller[d] \in Checks
            BY <2>3, CheckingIsCheck DEF CheckPart
        <3>3. \E seen : caller'[d] = [caller[d] EXCEPT !.seen = seen]
            BY <2>3 DEF CheckPart, CacheInv, Typed
        <3>4. caller'[d].at = "checking"
            BY <3>2, <3>3 DEF Checks
        <3> QED BY <3>1, <3>4
    <2>4. CASE CheckRaises(d)
        BY <2>4, <1>1, <1>2 DEF CheckRaises, Notified
    <2>5. CASE CheckEnds(d)
        BY <2>5, <1>1, <1>2 DEF CheckEnds, Notified
    <2>6. CASE Leave(d)
        BY <2>6, <1>2 DEF Leave, CacheInv, Typed
    <2> QED BY <1>3, <2>1, <2>2, <2>3, <2>4, <2>5, <2>6
<1>4. CASE StorageChanges
    BY <1>4 DEF StorageChanges
<1>5. CASE StartupDecides
    <2>1. PICK r \in {Away, Looking} : caller' = [caller EXCEPT ![Startup] = r]
        BY <1>5 DEF StartupDecides
    <2> QED BY <1>2, <2>1 DEF CacheInv, Typed
<1>6. CASE ReadinessRestart
    BY <1>2, <1>6 DEF ReadinessRestart
<1>7. CASE ReadinessTick
    <2>1. CASE c \in Checkers
        <3>1. caller[c] \in Checks
            BY <2>1, CheckingIsCheck DEF Checkers
        <3>2. caller'[c] = [caller[c] EXCEPT !.spent = @ + 1]
            BY <1>7, <2>1 DEF ReadinessTick
        <3>3. caller'[c].at = caller[c].at
            BY <3>1, <3>2 DEF Checks
        <3> QED BY <3>3
    <2>2. CASE c \notin Checkers
        BY <1>7, <2>2 DEF ReadinessTick
    <2> QED BY <2>1, <2>2
<1> QED BY <1>3, <1>4, <1>5, <1>6, <1>7 DEF ReadinessNext

\* An answer is right of whatever has been as it is for a lifetime of the cache and a
\* check (health.py:163), for any number of callers, lifetimes and checks.
THEOREM AnswersAreCurrent == ReadinessSpec => Current
<1>1. ASSUME CacheInv, [ReadinessNext]_readinessVars
      PROVE  [\A c \in Everyone :
                 caller'[c].at = "answered" /\ caller[c].at # "answered" /\ steady = Ttl + CheckTime =>
                     caller'[c].result[watched] = sound[watched]]_readinessVars
    <2> SUFFICES ASSUME ReadinessNext, NEW c \in Everyone, caller'[c].at = "answered",
                        caller[c].at # "answered", steady = Ttl + CheckTime
                 PROVE  caller'[c].result[watched] = sound[watched]
        BY <1>1
    <2>1. CASE LookUp(c)
        <3>1. caller'[c] = IF Fresh THEN Answered((CHOOSE kept \in entry : TRUE).result)
                           ELSE IF flying THEN Waiting ELSE Checking(<<>>, 0)
            BY <1>1, <2>1 DEF LookUp, CacheInv, Typed
        <3>2. Fresh
            BY <3>1 DEF Waiting, Checking
        <3>3. PICK kept \in entry : kept.left > 0
            BY <3>2 DEF Fresh
        <3>4. (CHOOSE stored \in entry : TRUE) = kept
            BY <1>1, <3>3 DEF CacheInv, Typed
        <3>5. caller'[c].result = kept.result
            <4>1. caller'[c] = Answered(kept.result)
                BY <3>1, <3>2, <3>4
            <4> QED BY <4>1 DEF Answered
        <3>6. kept.left \in 0 .. Ttl
            BY <1>1 DEF CacheInv, Typed
        <3>7. steady > Ttl + CheckTime - kept.left
            BY <3>3, <3>6, TimesAreNat
        <3> QED BY <1>1, <3>5, <3>7 DEF CacheInv, StoredAsItIs
    <2>2. CASE CheckEnds(c)
        <3>1. caller'[c].result = Result(caller[c].seen)
            BY <2>2 DEF CheckEnds, Notified, Answered
        <3>2. steady > CheckTime
            BY TimesAreNat
        <3> QED BY <1>1, <2>2, <3>1, <3>2, ResultIsSound DEF CheckEnds
    <2> QED BY <1>1, <2>1, <2>2, AnswersComeFromTwo
<1> QED BY <1>1, CacheInvariance, PTL DEF ReadinessSpec, Current

\* One check at a time, and the key is in flight as long as it goes on.
Alone ==
    /\ process \in {"starting", "bare", "serving"} /\ flying \in BOOLEAN /\ raises \in 0 .. MaxRaises
    /\ IF flying THEN \E c \in Everyone : Checkers = {c} ELSE Checkers = {}

LEMMA AloneKeeps ==
    ASSUME CacheInv, Alone, [ReadinessNext]_readinessVars
    PROVE  Alone'
<1> USE DEF Alone
<1>1. \A c \in Everyone : /\ Looking.at # "checking" /\ Away.at # "checking" /\ Waiting.at # "checking"
                          /\ Checking(<<>>, 0).at = "checking"
                          /\ \A result : Answered(result).at # "checking"
    BY DEF Looking, Away, Waiting, Checking, Answered
<1>2. \A c \in Everyone : caller'[c].at = "checking" <=> c \in Checkers'
    BY DEF Checkers
<1>3. \A c \in Everyone : caller[c].at = "checking" <=> c \in Checkers
    BY DEF Checkers
<1>4. caller = [c \in Everyone |-> caller[c]] /\ MaxRaises \in Nat
    BY ReadinessAssumption DEF CacheInv, Typed
<1>5. CASE UNCHANGED readinessVars
    BY <1>5 DEF readinessVars, Checkers
<1>6. CASE StorageChanges
    BY <1>6 DEF StorageChanges, Checkers
<1>7. ASSUME NEW c \in Everyone, AskHealth(c) \/ Leave(c) \/ CheckPart(c) PROVE Alone'
    <2>1. \A d \in Everyone : caller'[d].at = "checking" <=> caller[d].at = "checking"
        <3>1. CASE AskHealth(c) \/ Leave(c)
            BY <1>1, <1>4, <3>1 DEF AskHealth, Leave
        <3>2. CASE CheckPart(c)
            <4>1. caller[c] \in Checks
                BY <3>2, CheckingIsCheck DEF CheckPart
            <4>2. caller'[c].at = "checking" /\ \A d \in Everyone : d # c => caller'[d] = caller[d]
                BY <1>4, <3>2, <4>1 DEF CheckPart, Checks
            <4> QED BY <3>2, <4>2 DEF CheckPart
        <3> QED BY <1>7, <3>1, <3>2
    <2>2. Checkers' = Checkers
        BY <2>1 DEF Checkers
    <2> QED BY <1>7, <2>2 DEF AskHealth, Leave, CheckPart
<1>8. ASSUME NEW c \in Everyone, LookUp(c) PROVE Alone'
    <2>1. caller[c].at # "checking" /\ \A d \in Everyone : d # c => caller'[d] = caller[d]
        BY <1>1, <1>4, <1>8 DEF LookUp
    <2>2. CASE Fresh \/ flying
        <3>1. caller'[c].at # "checking" /\ flying' = flying
            <4>1. caller'[c] = IF Fresh THEN Answered((CHOOSE kept \in entry : TRUE).result)
                               ELSE IF flying THEN Waiting ELSE Checking(<<>>, 0)
                BY <1>4, <1>8 DEF LookUp
            <4>2. caller'[c] = Waiting \/ caller'[c] = Answered((CHOOSE kept \in entry : TRUE).result)
                BY <2>2, <4>1
            <4>3. flying' = flying
                BY <1>8, <2>2 DEF LookUp
            <4> QED BY <1>1, <4>2, <4>3
        <3>2. Checkers' = Checkers
            BY <2>1, <3>1 DEF Checkers
        <3> QED BY <1>8, <3>1, <3>2 DEF LookUp
    <2>3. CASE ~Fresh /\ ~flying
        <3>1. caller'[c].at = "checking" /\ flying'
            BY <1>1, <1>4, <1>8, <2>3 DEF LookUp
        <3>2. Checkers' = {c}
            BY <2>1, <2>3, <3>1 DEF Checkers
        <3> QED BY <1>8, <3>1, <3>2 DEF LookUp
    <2> QED BY <2>2, <2>3
<1>9. ASSUME NEW c \in Everyone, CheckRaises(c) \/ CheckEnds(c) PROVE Alone'
    <2>1. Checkers = {c}
        BY <1>3, <1>9 DEF CheckRaises, CheckEnds
    <2>2. \A d \in Everyone : d # c => caller'[d] = Notified[d]
        BY <1>9 DEF CheckRaises, CheckEnds, Notified
    <2>3. caller'[c].at # "checking"
        BY <1>1, <1>9 DEF CheckRaises, CheckEnds, Notified
    <2>4. \A d \in Everyone : d # c => caller'[d].at # "checking"
        BY <1>1, <2>1, <2>2 DEF Notified, Checkers
    <2>5. Checkers' = {}
        BY <2>3, <2>4 DEF Checkers
    <2>6. flying' = FALSE /\ process' = process
        BY <1>9 DEF CheckRaises, CheckEnds
    <2>7. raises' \in 0 .. MaxRaises
        <3>1. CASE CheckRaises(c)
            BY <1>4, <3>1 DEF CheckRaises
        <3>2. CASE CheckEnds(c)
            BY <3>2 DEF CheckEnds
        <3> QED BY <1>9, <3>1, <3>2
    <2> QED BY <2>5, <2>6, <2>7
<1>10. CASE StartupDecides
    <2>1. caller[Startup].at # "checking" /\ caller'[Startup].at # "checking"
          /\ \A d \in Everyone : d # Startup => caller'[d] = caller[d]
        BY <1>1, <1>4, <1>10 DEF StartupDecides, Everyone
    <2>2. Checkers' = Checkers
        BY <2>1 DEF Checkers
    <2> QED BY <1>10, <2>2 DEF StartupDecides
<1>11. CASE ReadinessRestart
    <2>1. Checkers' = {}
        BY <1>1, <1>11 DEF ReadinessRestart, Checkers
    <2> QED BY <1>11, <2>1 DEF ReadinessRestart
<1>12. CASE ReadinessTick
    <2>1. ASSUME NEW c \in Everyone PROVE caller'[c].at = "checking" <=> caller[c].at = "checking"
        <3>1. CASE c \in Checkers
            <4>1. caller[c] \in Checks /\ caller[c].spent < CheckTime
                BY <1>12, <3>1, CheckingIsCheck DEF Checkers, ReadinessTick
            <4>2. caller'[c] \in Checks
                BY <1>12, <3>1, <4>1, ChecksStayChecks DEF ReadinessTick
            <4> QED BY <4>1, <4>2 DEF Checks
        <3>2. CASE c \notin Checkers
            BY <1>12, <3>2 DEF ReadinessTick
        <3> QED BY <3>1, <3>2
    <2>2. Checkers' = Checkers
        BY <2>1 DEF Checkers
    <2> QED BY <1>12, <2>2 DEF ReadinessTick
<1> QED BY <1>5, <1>6, <1>7, <1>8, <1>9, <1>10, <1>11, <1>12 DEF ReadinessNext

\* Every variable of the readiness checks keeps its type, and there is one check at a time
\* exactly while its key is in flight (ReadinessCache.get), for any number of callers.
THEOREM ReadinessTypeCorrect == ReadinessSpec => []ReadinessTypeOK
<1>1. ReadinessInit => Alone
    <2> SUFFICES ASSUME ReadinessInit PROVE Alone
        OBVIOUS
    <2>1. \A c \in Everyone : caller[c].at # "checking"
        BY DEF ReadinessInit, Looking, Away
    <2>2. Checkers = {}
        BY <2>1 DEF Checkers
    <2>3. process = "starting" /\ flying = FALSE /\ raises = 0
        BY DEF ReadinessInit
    <2>4. 0 \in 0 .. MaxRaises
        BY ReadinessAssumption
    <2> QED BY <2>2, <2>3, <2>4 DEF Alone
<1>2. CacheInv /\ Alone /\ [ReadinessNext]_readinessVars => Alone'
    BY AloneKeeps
<1>3. CacheInv /\ Alone => ReadinessTypeOK
    <2> SUFFICES ASSUME CacheInv, Alone PROVE ReadinessTypeOK
        OBVIOUS
    <2>1. Cardinality(Checkers) = IF flying THEN 1 ELSE 0
        BY FS_EmptySet, FS_Singleton DEF Alone
    <2>2. Cardinality(entry) <= 1
        <3>1. CASE entry = {}
            BY <3>1, FS_EmptySet
        <3>2. ASSUME NEW kept \in entry PROVE Cardinality(entry) <= 1
            <4>1. entry = {kept}
                BY DEF CacheInv, Typed
            <4> QED BY <4>1, FS_Singleton
        <3> QED BY <3>1, <3>2
    <2>3. \A kept \in entry : kept.left \in 0 .. Ttl
        BY DEF CacheInv, Typed
    <2>4. DOMAIN caller = Everyone
        BY DEF CacheInv, Typed
    <2> QED BY <2>1, <2>2, <2>3, <2>4 DEF CacheInv, Typed, Alone, Results, ReadinessTypeOK
<1> QED BY <1>1, <1>2, <1>3, CacheInvariance, PTL DEF ReadinessSpec

-----------------------------------------------------------------------------
(* Signing in.                                                             *)

Kinds    == {"api", "logout", "start", "callback"}
Verdicts == {"served", "redirected", "refused", "inactive", "forbidden", "unavailable",
             "failed", "signed in", "signed out"}
Answers  == {"none", "active", "inactive", "forbidden", "lost", "token", "done"}
Handoffs == [attempt : Attempts, expires : Nat]

\* A request at rest, a response on its way, and what goes on in between.
Idles == [at : {"free"}]
Backs == [at : {"back"}, kind : Kinds, result : Verdicts, state : Attempts \cup {None},
          token : Tokens \cup {None, Keep}, handoff : Handoffs \cup {None, Keep}]
Calls == [at : {"come", "introspecting", "exchanging", "revoking"},
          kind : Kinds, state : Attempts \cup {None},
          token : Tokens \cup {None}, handoff : Handoffs \cup {None},
          late : BOOLEAN, begun : Nat, asked : Nat, answer : Answers, expires : Nat]

TabStates == {"new", "started", "portal", "code", "error", "spent"}

SessionTyped ==
    /\ until \in Nat /\ now \in 0 .. until /\ cacheSeconds \in CacheSeconds
    /\ DOMAIN portal \subseteq Tokens /\ portal \in [DOMAIN portal -> Session]
    /\ DOMAIN tab \subseteq Attempts /\ tab \in [DOMAIN tab -> TabStates]
    /\ browser \in [token : DOMAIN portal \cup {None}, handoff : Handoffs \cup {None}]
    /\ DOMAIN cache \subseteq DOMAIN portal /\ cache \in [DOMAIN cache -> Nat]
    /\ request \in [Requests -> Idles \cup Backs \cup Calls]

\* A session at the Portal expires no later than an activity now would let it.
PortalHolds ==
    \A t \in DOMAIN portal :
        /\ portal[t].idle <= portal[t].absolute /\ portal[t].idle <= now + Idle
        /\ portal[t].over # None => portal[t].over <= now

\* A cached identity is no older than cacheSeconds, ends with its session, and outlives
\* one that was ended by cacheSeconds and a round trip at most.
CacheHolds ==
    \A t \in DOMAIN cache :
        /\ cacheSeconds > 0 /\ 0 < cache[t]
        /\ cache[t] <= portal[t].idle /\ cache[t] <= now + cacheSeconds
        /\ portal[t].over # None => cache[t] <= portal[t].over + cacheSeconds + RoundTrip

Knows(token) == token \in DOMAIN portal

\* What a request at hand knows of the session it is about: its token is the Portal's; it
\* has waited for a round trip at most; an answer "active" was right after it was asked; and
\* what the Portal revoked does not live again.
CallHolds(q) ==
    /\ q.token \in DOMAIN portal \cup {None}
    /\ q.late => q.kind = "api" /\ Knows(q.token) /\ portal[q.token].over # None
    /\ q.begun <= now /\ (q.kind \in {"start", "callback"} => q.state \in Attempts)
    /\ q.at = "exchanging" => q.kind = "callback" /\ (q.answer = "token" => Knows(q.token))
    /\ q.at \in {"introspecting", "revoking"} => Knows(q.token)
    /\ q.at \in {"introspecting", "exchanging", "revoking"} =>
          q.asked <= now /\ now <= q.asked + RoundTrip
    /\ q.at = "introspecting" =>
          /\ q.answer \in {"none", "active", "inactive", "forbidden", "lost"}
          /\ q.answer = "active" =>
                /\ ~q.late
                /\ q.expires <= portal[q.token].idle
                /\ portal[q.token].over # None => q.asked <= portal[q.token].over
    /\ q.at = "revoking" => /\ q.answer \in {"none", "done", "lost"}
                            /\ q.answer = "done" => ~Live(q.token)

RequestHolds(q) ==
    /\ q \in Backs => q.token \in DOMAIN portal \cup {None, Keep}
    /\ q \in Calls => CallHolds(q)

SessionInv ==
    /\ SessionTyped /\ PortalHolds /\ CacheHolds
    /\ \A r \in Requests : RequestHolds(request[r])

LEMMA SpansAreNat ==
    /\ Idle \in Nat /\ Absolute \in Nat /\ RoundTrip \in Nat /\ HandoffTtl \in Nat
    /\ 0 < Idle /\ 0 < RoundTrip /\ Idle <= Absolute
    /\ CacheSeconds \subseteq Nat /\ None \notin Nat
    /\ None \notin Tokens /\ Keep \notin Tokens /\ None # Keep
BY SessionAssumption

LEMMA SoonerIs == \A a, b \in Nat : Sooner(a, b) \in Nat /\ Sooner(a, b) <= a /\ Sooner(a, b) <= b
                                    /\ (Sooner(a, b) = a \/ Sooner(a, b) = b)
BY DEF Sooner

\* The Portal goes on: sessions come, live longer and end, and none of those there is
\* revived.
Onward ==
    /\ UNCHANGED <<until, cacheSeconds>>
    /\ DOMAIN portal \subseteq DOMAIN portal' /\ DOMAIN portal' \subseteq Tokens
    /\ portal' \in [DOMAIN portal' -> Session]
    /\ PortalHolds'
    /\ \A t \in DOMAIN portal :
          /\ portal[t].idle <= portal'[t].idle
          /\ portal'[t].over = portal[t].over \/ (portal[t].over = None /\ portal'[t].over = now)
          /\ ~Live(t) => ~Live(t)'

LEMMA CacheStays ==
    ASSUME SessionInv, Onward, now' = now, DOMAIN cache' \subseteq DOMAIN cache,
           cache' = [t \in DOMAIN cache' |-> cache[t]]
    PROVE  CacheHolds' /\ DOMAIN cache' \subseteq DOMAIN portal' /\ cache' \in [DOMAIN cache' -> Nat]
<1>1. now \in Nat /\ cacheSeconds \in Nat
    BY SpansAreNat DEF SessionInv, SessionTyped
<1>2. DOMAIN cache \subseteq DOMAIN portal /\ cache \in [DOMAIN cache -> Nat]
    BY DEF SessionInv, SessionTyped
<1>3. ASSUME NEW t \in DOMAIN cache'
      PROVE  /\ cacheSeconds' > 0 /\ 0 < cache'[t]
             /\ cache'[t] <= portal'[t].idle /\ cache'[t] <= now' + cacheSeconds'
             /\ portal'[t].over # None => cache'[t] <= portal'[t].over + cacheSeconds' + RoundTrip
    <2>1. t \in DOMAIN cache /\ t \in DOMAIN portal /\ t \in DOMAIN portal' /\ cache'[t] = cache[t]
          /\ cacheSeconds' = cacheSeconds
        BY <1>2 DEF Onward
    <2>2. /\ cacheSeconds > 0 /\ 0 < cache[t] /\ cache[t] \in Nat
          /\ cache[t] <= portal[t].idle /\ cache[t] <= now + cacheSeconds
          /\ portal[t].over # None => cache[t] <= portal[t].over + cacheSeconds + RoundTrip
        BY <1>2, <2>1 DEF SessionInv, CacheHolds
    <2>3. portal[t] \in Session /\ portal'[t] \in Session
        BY <2>1 DEF Onward, SessionInv, SessionTyped
    <2>4. portal[t].idle \in Nat /\ portal'[t].idle \in Nat /\ portal[t].idle <= portal'[t].idle
        BY <2>1, <2>3 DEF Onward, Session
    <2>5. cache[t] <= portal'[t].idle
        BY <2>2, <2>4
    <2>6. portal'[t].over # None => cache[t] <= portal'[t].over + cacheSeconds + RoundTrip
        <3>1. CASE portal'[t].over = portal[t].over
            BY <2>2, <3>1
        <3>2. CASE portal'[t].over = now
            BY <1>1, <2>2, <3>2, SpansAreNat
        <3> QED BY <2>1, <3>1, <3>2 DEF Onward
    <2> QED BY <2>1, <2>2, <2>5, <2>6
<1>4. DOMAIN cache' \subseteq DOMAIN portal' /\ cache' \in [DOMAIN cache' -> Nat]
    BY <1>2 DEF Onward
<1> QED BY <1>3, <1>4 DEF CacheHolds

\* What a request knows stays so while it does nothing.
LEMMA RequestStays ==
    ASSUME SessionInv, Onward, now' = now, NEW r \in Requests, request'[r] = request[r]
    PROVE  RequestHolds(request[r])'
<1> DEFINE q == request[r]
<1>1. now \in Nat
    BY DEF SessionInv, SessionTyped
<1>2. CASE q \in Backs
    <2>1. q \notin Calls
        BY <1>2 DEF Backs, Calls
    <2> QED BY <1>2, <2>1 DEF Onward, SessionInv, RequestHolds
<1>3. CASE q \in Calls
    <2>1. q \notin Backs /\ CallHolds(q)
        BY <1>3 DEF Backs, Calls, SessionInv, RequestHolds
    <2>2. Knows(q.token) => /\ Knows(q.token)'
                            /\ portal[q.token].idle <= portal'[q.token].idle
                            /\ portal[q.token].idle \in Nat /\ portal'[q.token].idle \in Nat
                            /\ \/ portal'[q.token].over = portal[q.token].over
                               \/ portal[q.token].over = None /\ portal'[q.token].over = now
                            /\ ~Live(q.token) => ~Live(q.token)'
        BY DEF Knows, Onward, SessionInv, SessionTyped, Session
    <2>3. q.expires \in Nat /\ q.asked \in Nat
        BY <1>3 DEF Calls
    <2>4. q.late => q.kind = "api" /\ Knows(q.token)' /\ portal'[q.token].over # None
        BY <1>1, <2>1, <2>2, SpansAreNat DEF CallHolds
    <2>5. q.at = "introspecting" /\ q.answer = "active" =>
              /\ ~q.late
              /\ q.expires <= portal'[q.token].idle
              /\ portal'[q.token].over # None => q.asked <= portal'[q.token].over
        <3> SUFFICES ASSUME q.at = "introspecting", q.answer = "active"
                     PROVE  /\ ~q.late
                            /\ q.expires <= portal'[q.token].idle
                            /\ portal'[q.token].over # None => q.asked <= portal'[q.token].over
            OBVIOUS
        <3>1. Knows(q.token) /\ ~q.late /\ q.expires <= portal[q.token].idle /\ q.asked <= now
              /\ (portal[q.token].over # None => q.asked <= portal[q.token].over)
            BY <2>1 DEF CallHolds
        <3>2. q.expires <= portal'[q.token].idle
            BY <2>2, <2>3, <3>1
        <3> QED BY <2>2, <3>1, <3>2
    <2>6. q.at = "revoking" => /\ q.answer \in {"none", "done", "lost"}
                               /\ q.answer = "done" => ~Live(q.token)'
        BY <2>1, <2>2 DEF CallHolds
    <2>7. q.token \in DOMAIN portal' \cup {None}
        BY <2>1, <2>2 DEF CallHolds, Knows
    <2>8. CallHolds(q)'
        BY <2>1, <2>2, <2>4, <2>5, <2>6, <2>7 DEF CallHolds
    <2> QED BY <2>1, <2>8 DEF RequestHolds
<1>4. CASE q \notin Backs /\ q \notin Calls
    BY <1>4 DEF RequestHolds
<1> QED BY <1>2, <1>3, <1>4

\* One request goes on.
LEMMA OneRequest ==
    ASSUME SessionInv, Onward, now' = now, NEW r \in Requests, NEW q,
           request' = [request EXCEPT ![r] = q],
           q \in Idles \cup Backs \cup Calls, RequestHolds(q)'
    PROVE  /\ request' \in [Requests -> Idles \cup Backs \cup Calls]
           /\ \A p \in Requests : RequestHolds(request[p])'
<1>1. request \in [Requests -> Idles \cup Backs \cup Calls]
    BY DEF SessionInv, SessionTyped
<1>2. request' \in [Requests -> Idles \cup Backs \cup Calls]
    BY <1>1
<1>3. request'[r] = q /\ \A p \in Requests : p # r => request'[p] = request[p]
    BY <1>1
<1>4. ASSUME NEW p \in Requests PROVE RequestHolds(request[p])'
    <2>1. CASE p = r
        BY <1>3, <2>1
    <2>2. CASE p # r
        BY <1>3, <2>2, RequestStays
    <2> QED BY <2>1, <2>2
<1> QED BY <1>2, <1>4

LEMMA PortalRests ==
    ASSUME SessionInv, UNCHANGED <<now, until, cacheSeconds, portal>>
    PROVE  Onward
<1>1. PortalHolds'
    BY DEF SessionInv, PortalHolds
<1>2. \A t \in DOMAIN portal : portal[t].idle \in Nat
    BY DEF SessionInv, SessionTyped, Session
<1>3. \A t \in Tokens : Live(t)' = Live(t)
    BY DEF Live
<1> QED BY <1>1, <1>2, <1>3 DEF Onward, SessionInv, SessionTyped

\* An activity extends a session.
LEMMA PortalTouched ==
    ASSUME SessionInv, NEW t, Live(t), portal' = Touched(t), UNCHANGED <<now, until, cacheSeconds>>
    PROVE  Onward /\ DOMAIN portal' = DOMAIN portal /\ portal'[t].idle \in Nat
           /\ portal'[t].over = None
<1> DEFINE new == Sooner(now + Idle, portal[t].absolute)
<1>1. t \in DOMAIN portal /\ t \in Tokens /\ portal[t] \in Session /\ now \in Nat /\ portal[t].over = None
    BY DEF Live, SessionInv, SessionTyped
<1>2. portal[t].idle \in Nat /\ portal[t].absolute \in Nat
    BY <1>1 DEF Session
<1>3. new \in Nat /\ new <= portal[t].absolute /\ new <= now + Idle /\ portal[t].idle <= new
    <2>1. now + Idle \in Nat /\ portal[t].idle <= now + Idle /\ portal[t].idle <= portal[t].absolute
        BY <1>1, <1>2, SpansAreNat DEF SessionInv, PortalHolds
    <2> QED BY <1>2, <2>1, SoonerIs
<1> HIDE DEF new
<1>4. portal' = [portal EXCEPT ![t].idle = new] /\ DOMAIN portal' = DOMAIN portal
    BY DEF Touched, new
<1>5. portal'[t] = [portal[t] EXCEPT !.idle = new] /\ \A u \in DOMAIN portal : u # t => portal'[u] = portal[u]
    BY <1>1, <1>4
<1>6. /\ portal'[t] \in Session /\ portal'[t].idle = new
      /\ portal'[t].absolute = portal[t].absolute /\ portal'[t].over = None
    BY <1>1, <1>3, <1>5 DEF Session
<1>7. portal' \in [DOMAIN portal' -> Session]
    BY <1>4, <1>5, <1>6 DEF SessionInv, SessionTyped
<1>8. PortalHolds'
    BY <1>3, <1>4, <1>5, <1>6 DEF SessionInv, PortalHolds
<1>9. \A u \in DOMAIN portal : portal[u].idle \in Nat
    BY DEF SessionInv, SessionTyped, Session
<1>10. \A u \in DOMAIN portal :
          /\ portal[u].idle <= portal'[u].idle
          /\ portal'[u].over = portal[u].over
          /\ ~Live(u) => ~Live(u)'
    BY <1>1, <1>2, <1>3, <1>4, <1>5, <1>6, <1>9 DEF Live
<1> QED
    BY <1>3, <1>4, <1>6, <1>7, <1>8, <1>10 DEF Onward, SessionInv, SessionTyped

LEMMA PortalEnded ==
    ASSUME SessionInv, NEW t, Live(t), portal' = Ended(t), UNCHANGED <<now, until, cacheSeconds>>
    PROVE  Onward /\ DOMAIN portal' = DOMAIN portal /\ ~Live(t)'
<1>1. t \in DOMAIN portal /\ t \in Tokens /\ portal[t] \in Session /\ now \in Nat /\ portal[t].over = None
    BY DEF Live, SessionInv, SessionTyped
<1>2. portal' = [portal EXCEPT ![t].over = now] /\ DOMAIN portal' = DOMAIN portal
    BY DEF Ended
<1>3. portal'[t] = [portal[t] EXCEPT !.over = now] /\ \A u \in DOMAIN portal : u # t => portal'[u] = portal[u]
    BY <1>1, <1>2
<1>4. /\ portal'[t] \in Session /\ portal'[t].idle = portal[t].idle
      /\ portal'[t].absolute = portal[t].absolute /\ portal'[t].over = now
    BY <1>1, <1>3 DEF Session
<1>5. portal' \in [DOMAIN portal' -> Session]
    BY <1>2, <1>3, <1>4 DEF SessionInv, SessionTyped
<1>6. PortalHolds'
    BY <1>1, <1>2, <1>3, <1>4 DEF SessionInv, PortalHolds
<1>7. \A u \in DOMAIN portal : portal[u].idle \in Nat
    BY DEF SessionInv, SessionTyped, Session
<1>8. ~Live(t)'
    BY <1>1, <1>4, SpansAreNat DEF Live
<1>9. \A u \in DOMAIN portal :
          /\ portal[u].idle <= portal'[u].idle
          /\ portal'[u].over = portal[u].over \/ (portal[u].over = None /\ portal'[u].over = now)
          /\ ~Live(u) => ~Live(u)'
    BY <1>1, <1>2, <1>3, <1>4, <1>7, <1>8 DEF Live
<1> QED
    BY <1>2, <1>5, <1>6, <1>8, <1>9 DEF Onward, SessionInv, SessionTyped

\* A sign-in makes a new session.
LEMMA PortalIssues ==
    ASSUME SessionInv, NEW t \in Tokens \ DOMAIN portal, UNCHANGED <<now, until, cacheSeconds>>,
           portal' = With(portal, t, [idle |-> now + Idle, absolute |-> now + Absolute, over |-> None])
    PROVE  Onward /\ t \in DOMAIN portal'
<1> DEFINE new == [idle |-> now + Idle, absolute |-> now + Absolute, over |-> None]
<1>1. now \in Nat
    BY DEF SessionInv, SessionTyped
<1>2. new \in Session /\ new.idle = now + Idle /\ new.absolute = now + Absolute /\ new.over = None
    BY <1>1, SpansAreNat DEF Session
<1> HIDE DEF new
<1>3. /\ DOMAIN portal' = DOMAIN portal \cup {t} /\ portal'[t] = new
      /\ \A u \in DOMAIN portal : portal'[u] = portal[u]
      /\ portal' = [u \in DOMAIN portal' |-> portal'[u]]
    BY DEF With, new
<1>4. \A u \in DOMAIN portal : portal[u] \in Session /\ portal[u].idle \in Nat
    BY DEF SessionInv, SessionTyped, Session
<1>5. portal' \in [DOMAIN portal' -> Session] /\ DOMAIN portal' \subseteq Tokens
    BY <1>2, <1>3, <1>4 DEF SessionInv, SessionTyped
<1>6. PortalHolds'
    BY <1>1, <1>2, <1>3, SpansAreNat DEF SessionInv, PortalHolds
<1>7. \A u \in DOMAIN portal : portal[u].idle <= portal'[u].idle /\ portal'[u].over = portal[u].over
                               /\ (~Live(u) => ~Live(u)')
    BY <1>3, <1>4 DEF Live
<1> QED BY <1>3, <1>5, <1>6, <1>7 DEF Onward

\* A call of the Portal begins.
LEMMA AsksIs ==
    ASSUME SessionInv, NEW r \in Requests, request[r] \in Calls,
           NEW at \in {"introspecting", "exchanging", "revoking"}, Asks(r, at)
    PROVE  \E q \in Calls :
              /\ request' = [request EXCEPT ![r] = q]
              /\ q.at = at /\ q.asked = now /\ q.answer = "none" /\ q.expires = 0
              /\ q.kind = request[r].kind /\ q.state = request[r].state
              /\ q.token = request[r].token /\ q.handoff = request[r].handoff
              /\ q.late = request[r].late /\ q.begun = request[r].begun
<1> DEFINE c == request[r]
           q == [c EXCEPT !.at = at, !.asked = now, !.answer = "none", !.expires = 0]
<1>1. request' = [request EXCEPT ![r] = q]
    BY DEF Asks, SessionInv, SessionTyped
<1>2. now \in Nat
    BY DEF SessionInv, SessionTyped
<1>3. q \in Calls
    BY <1>2 DEF Calls, Answers
<1>4. /\ q.at = at /\ q.asked = now /\ q.answer = "none" /\ q.expires = 0
      /\ q.kind = c.kind /\ q.state = c.state /\ q.token = c.token /\ q.handoff = c.handoff
      /\ q.late = c.late /\ q.begun = c.begun
    BY DEF Calls
<1> QED BY <1>1, <1>3, <1>4

\* A request with an answer.
Told(c, answer)            == [c EXCEPT !.answer = answer]
Assured(c, expires)        == [c EXCEPT !.answer = "active", !.expires = expires]
Issued(c, token, expires)  == [c EXCEPT !.answer = "token", !.token = token, !.expires = expires]

LEMMA ToldIs ==
    ASSUME NEW c \in Calls, NEW answer \in Answers
    PROVE  LET q == Told(c, answer) IN
              /\ q \in Calls /\ q.answer = answer
              /\ q.at = c.at /\ q.asked = c.asked /\ q.kind = c.kind /\ q.state = c.state
              /\ q.token = c.token /\ q.late = c.late /\ q.begun = c.begun
BY DEF Calls, Answers, Told

LEMMA AssuredIs ==
    ASSUME NEW c \in Calls, NEW expires \in Nat
    PROVE  LET q == Assured(c, expires) IN
              /\ q \in Calls /\ q.answer = "active" /\ q.expires = expires
              /\ q.at = c.at /\ q.asked = c.asked /\ q.kind = c.kind /\ q.state = c.state
              /\ q.token = c.token /\ q.late = c.late /\ q.begun = c.begun
BY DEF Calls, Answers, Assured

LEMMA IssuedIs ==
    ASSUME NEW c \in Calls, NEW expires \in Nat, NEW token \in Tokens
    PROVE  LET q == Issued(c, token, expires) IN
              /\ q \in Calls /\ q.answer = "token" /\ q.token = token
              /\ q.at = c.at /\ q.asked = c.asked /\ q.kind = c.kind /\ q.state = c.state
              /\ q.late = c.late /\ q.begun = c.begun
<1> DEFINE q == [c EXCEPT !.answer = "token", !.token = token, !.expires = expires]
<1>1. q \in Calls
    BY DEF Calls, Answers
<1>2. /\ q.answer = "token" /\ q.token = token
      /\ q.at = c.at /\ q.asked = c.asked
      /\ q.kind = c.kind /\ q.state = c.state /\ q.late = c.late /\ q.begun = c.begun
    BY DEF Calls
<1> QED BY <1>1, <1>2 DEF Issued

\* A response: no call is under way then.
LEMMA RespondsIs ==
    ASSUME SessionInv, NEW r \in Requests, request[r] \in Calls, NEW result \in Verdicts,
           NEW token \in DOMAIN portal \cup {None, Keep}, NEW handoff \in Handoffs \cup {None, Keep},
           Responds(r, result, token, handoff)
    PROVE  \E q \in Backs :
              /\ request' = [request EXCEPT ![r] = q]
              /\ q.token = token /\ q.result = result /\ q \notin Calls
<1> DEFINE q == [at |-> "back", kind |-> request[r].kind, result |-> result,
                 state |-> request[r].state, token |-> token, handoff |-> handoff]
<1>1. request' = [request EXCEPT ![r] = q]
    BY DEF Responds
<1>2. DOMAIN portal \subseteq Tokens
    BY DEF SessionInv, SessionTyped
<1>3. request[r].kind \in Kinds /\ request[r].state \in Attempts \cup {None}
    BY DEF Calls, Kinds
<1>4. q \in Backs
    BY <1>2, <1>3 DEF Backs, Kinds, Verdicts
<1>5. q.token = token /\ q.result = result /\ q.at = "back"
    OBVIOUS
<1>6. q \notin Calls
    BY <1>5 DEF Calls
<1> QED BY <1>1, <1>4, <1>5, <1>6

LEMMA RespondsKeeps ==
    ASSUME SessionInv, Onward, now' = now, NEW r \in Requests, request[r] \in Calls,
           NEW result \in Verdicts,
           NEW token \in DOMAIN portal \cup {None, Keep}, NEW handoff \in Handoffs \cup {None, Keep},
           Responds(r, result, token, handoff)
    PROVE  /\ request' \in [Requests -> Idles \cup Backs \cup Calls]
           /\ \A p \in Requests : RequestHolds(request[p])'
<1>1. PICK q \in Backs : /\ request' = [request EXCEPT ![r] = q]
                         /\ q.token = token /\ q.result = result /\ q \notin Calls
    BY RespondsIs
<1>2. RequestHolds(q)'
    BY <1>1 DEF RequestHolds, Onward
<1> QED BY <1>1, <1>2, OneRequest

\* The beginning of a call, for a request that has its token.
LEMMA AsksKeeps ==
    ASSUME SessionInv, Onward, now' = now, NEW r \in Requests, request[r] \in Calls,
           NEW at \in {"introspecting", "exchanging", "revoking"}, Asks(r, at),
           at = "exchanging" => request[r].kind = "callback",
           at # "exchanging" => Knows(request[r].token)
    PROVE  /\ request' \in [Requests -> Idles \cup Backs \cup Calls]
           /\ \A p \in Requests : RequestHolds(request[p])'
<1>1. PICK q \in Calls :
              /\ request' = [request EXCEPT ![r] = q]
              /\ q.at = at /\ q.asked = now /\ q.answer = "none" /\ q.expires = 0
              /\ q.kind = request[r].kind /\ q.state = request[r].state
              /\ q.token = request[r].token /\ q.handoff = request[r].handoff
              /\ q.late = request[r].late /\ q.begun = request[r].begun
    BY AsksIs
<1>2. CallHolds(request[r]) /\ RequestHolds(request[r])
    <2>1. RequestHolds(request[r])
        BY DEF SessionInv
    <2> QED BY <2>1 DEF RequestHolds
<1>3. now \in Nat /\ now <= now + RoundTrip
    BY SpansAreNat DEF SessionInv, SessionTyped
<1>4. q \notin Backs
    BY <1>1 DEF Calls, Backs
<1>5. \A t : Knows(t) => Knows(t)' /\ (portal[t].over # None => portal'[t].over # None)
    BY <1>3, SpansAreNat DEF Knows, Onward
<1>6. CallHolds(q)'
    BY <1>1, <1>2, <1>3, <1>5 DEF CallHolds, Knows
<1>7. RequestHolds(q)'
    BY <1>4, <1>6 DEF RequestHolds
<1> QED BY <1>1, <1>7, OneRequest

LEMMA SendKeeps ==
    ASSUME SessionInv, NEW r \in Requests, NEW kind \in Kinds, NEW state \in Attempts \cup {None},
           kind \in {"start", "callback"} => state \in Attempts, Send(r, kind, state)
    PROVE  /\ request' \in [Requests -> Idles \cup Backs \cup Calls]
           /\ \A p \in Requests : RequestHolds(request[p])'
           /\ Onward
<1> DEFINE late == kind = "api" /\ browser.token # None /\ portal[browser.token].over # None
<1>0. PICK q : q = Sent(kind, state)
    OBVIOUS
<1>1. /\ UNCHANGED <<now, until, cacheSeconds, portal, browser, cache>>
      /\ request' = [request EXCEPT ![r] = q]
    BY <1>0 DEF Send
<1>2. Onward
    BY <1>1, PortalRests
<1>3. /\ browser.token \in DOMAIN portal \cup {None} /\ browser.handoff \in Handoffs \cup {None}
      /\ DOMAIN portal \subseteq Tokens /\ now \in Nat
    BY DEF SessionInv, SessionTyped
<1>4. q = [at |-> "come", kind |-> kind, state |-> state,
           token   |-> IF kind \in {"api", "logout"} THEN browser.token ELSE None,
           handoff |-> IF kind = "callback" THEN browser.handoff ELSE None,
           late |-> late, begun |-> IF late THEN now ELSE 0,
           asked |-> 0, answer |-> "none", expires |-> 0]
    BY <1>0 DEF Sent
<1>5. /\ q.at = "come" /\ q.kind = kind /\ q.state = state /\ q.answer = "none" /\ q.late = late
      /\ q.token = (IF kind \in {"api", "logout"} THEN browser.token ELSE None)
      /\ q.begun = (IF late THEN now ELSE 0)
    BY <1>4
<1>6. late \in BOOLEAN /\ 0 \in Nat
    OBVIOUS
<1>7. q \in Calls
    BY <1>3, <1>4, <1>6 DEF Calls, Kinds, Answers
<1>8. q \notin Backs
    BY <1>5 DEF Backs
<1>9. CallHolds(q)'
    <2>1. q.token \in DOMAIN portal \cup {None} /\ q.begun <= now
        BY <1>3, <1>5
    <2>2. q.late => q.kind = "api" /\ Knows(q.token) /\ portal[q.token].over # None
        BY <1>3, <1>5 DEF Knows
    <2> QED BY <1>1, <1>5, <2>1, <2>2 DEF CallHolds, Knows
<1>10. RequestHolds(q)'
    BY <1>8, <1>9 DEF RequestHolds
<1> QED BY <1>1, <1>2, <1>7, <1>10, OneRequest

LEMMA SendsKeep ==
    ASSUME SessionInv, NEW r \in Requests,
           SendApi(r) \/ SendLogout(r) \/ \E a \in DOMAIN tab : SendStart(r, a) \/ SendCallback(r, a)
    PROVE  SessionInv'
<1>1. PICK kind \in Kinds, state \in Attempts \cup {None} :
          Send(r, kind, state) /\ (kind \in {"start", "callback"} => state \in Attempts)
    BY DEF SendApi, SendLogout, SendStart, SendCallback, Kinds, SessionInv, SessionTyped
<1>2. /\ request' \in [Requests -> Idles \cup Backs \cup Calls]
      /\ \A p \in Requests : RequestHolds(request[p])'
      /\ Onward
    BY <1>1, SendKeeps
<1>3. UNCHANGED <<now, until, cacheSeconds, portal, browser, cache>>
    BY <1>1 DEF Send
<1>4. DOMAIN tab' = DOMAIN tab /\ tab' \in [DOMAIN tab -> TabStates]
    BY DEF SendApi, SendLogout, SendStart, SendCallback, TabStates, SessionInv, SessionTyped
<1> QED BY <1>2, <1>3, <1>4 DEF SessionInv, SessionTyped, PortalHolds, CacheHolds

LEMMA CallingIsCall ==
    ASSUME SessionInv, NEW r \in Requests,
           request[r].at \in {"come", "introspecting", "exchanging", "revoking"}
    PROVE  request[r] \in Calls /\ CallHolds(request[r])
<1>1. request[r] \in Calls
    BY DEF SessionInv, SessionTyped, Idles, Backs
<1> QED BY <1>1 DEF SessionInv, RequestHolds

\* What a request does with the process alone.
LEMMA QuietKeeps ==
    ASSUME SessionInv, Quiet,
           request' \in [Requests -> Idles \cup Backs \cup Calls],
           \A p \in Requests : RequestHolds(request[p])',
           CacheHolds', DOMAIN cache' \subseteq DOMAIN portal, cache' \in [DOMAIN cache' -> Nat]
    PROVE  SessionInv'
<1>1. UNCHANGED <<now, until, cacheSeconds, portal, tab, browser>>
    BY DEF Quiet
<1>2. SessionTyped'
    BY <1>1 DEF SessionInv, SessionTyped
<1>3. PortalHolds'
    BY <1>1 DEF SessionInv, PortalHolds
<1> QED BY <1>2, <1>3 DEF SessionInv

LEMMA QuietIsOnward ==
    ASSUME SessionInv, Quiet
    PROVE  Onward /\ now' = now
BY PortalRests DEF Quiet

LEMMA CacheShrinks ==
    ASSUME SessionInv, Quiet, UNCHANGED cache \/ \E t : cache' = Restrict(cache, DOMAIN cache \ {t})
    PROVE  CacheHolds' /\ DOMAIN cache' \subseteq DOMAIN portal /\ cache' \in [DOMAIN cache' -> Nat]
<1>1. DOMAIN cache' \subseteq DOMAIN cache /\ cache' = [t \in DOMAIN cache' |-> cache[t]]
    BY DEF SessionInv, SessionTyped, Restrict
<1>2. Onward /\ now' = now /\ portal' = portal
    BY QuietIsOnward DEF Quiet
<1> QED BY <1>1, <1>2, CacheStays

\* A fresh identity is stored for as long as it may be.
LEMMA CacheGrows ==
    ASSUME SessionInv, Quiet, NEW r \in Requests, request[r].at = "introspecting",
           request[r].answer = "active", now < request[r].expires, cache' = Stored(r)
    PROVE  CacheHolds' /\ DOMAIN cache' \subseteq DOMAIN portal /\ cache' \in [DOMAIN cache' -> Nat]
<1> DEFINE q == request[r]
           t == q.token
<1>1. CASE UNCHANGED cache
    BY <1>1, CacheShrinks
<1>2. CASE Lifetime(r) > 0 /\ cache' = With(cache, t, now + Lifetime(r))
    <2>1. q \in Calls /\ CallHolds(q)
        BY CallingIsCall
    <2>2. /\ t \in DOMAIN portal /\ q.expires <= portal[t].idle /\ now <= q.asked + RoundTrip
          /\ portal[t].over # None => q.asked <= portal[t].over
        BY <2>1 DEF CallHolds, Knows
    <2>3. now \in Nat /\ cacheSeconds \in Nat /\ q.expires \in Nat /\ q.asked \in Nat
          /\ portal[t] \in Session
        BY <2>1, <2>2, SpansAreNat DEF Calls, SessionInv, SessionTyped
    <2>4. portal[t].idle \in Nat /\ portal[t].over \in Nat \cup {None}
        BY <2>3 DEF Session
    <2>5. /\ Lifetime(r) \in Nat /\ Lifetime(r) <= cacheSeconds
          /\ Lifetime(r) <= q.expires - now
        <3>1. q.expires - now \in Nat
            BY <2>3
        <3> QED BY <2>3, <3>1, SoonerIs DEF Lifetime
    <2> DEFINE value == now + Lifetime(r)
    <2>6. value \in Nat /\ 0 < value /\ value <= portal[t].idle /\ value <= now + cacheSeconds
          /\ cacheSeconds > 0
        BY <1>2, <2>2, <2>3, <2>4, <2>5
    <2>7. portal[t].over # None => value <= portal[t].over + cacheSeconds + RoundTrip
        BY <2>2, <2>3, <2>4, <2>5, SpansAreNat
    <2> HIDE DEF value
    <2>8. /\ DOMAIN cache' = DOMAIN cache \cup {t} /\ cache'[t] = value
          /\ \A u \in DOMAIN cache : u # t => cache'[u] = cache[u]
          /\ cache' = [u \in DOMAIN cache' |-> cache'[u]]
        BY <1>2 DEF With, value
    <2>9. UNCHANGED <<now, cacheSeconds, portal>>
        BY DEF Quiet
    <2>10. CacheHolds'
        BY <2>6, <2>7, <2>8, <2>9 DEF SessionInv, CacheHolds
    <2>11. DOMAIN cache' \subseteq DOMAIN portal /\ cache' \in [DOMAIN cache' -> Nat]
        <3>1. DOMAIN cache \subseteq DOMAIN portal /\ \A u \in DOMAIN cache : cache[u] \in Nat
            BY DEF SessionInv, SessionTyped
        <3>2. \A u \in DOMAIN cache' : cache'[u] \in Nat
            BY <2>6, <2>8, <3>1
        <3> QED BY <2>2, <2>8, <3>1, <3>2
    <2> QED BY <2>10, <2>11
<1> QED BY <1>1, <1>2 DEF Stored

LEMMA OutcomesAre ==
    ASSUME SessionInv, NEW r \in Requests, request[r].at = "introspecting",
           request[r].answer # "none", NEW outcome \in Outcomes(r)
    PROVE  /\ outcome \in {"active", "inactive", "forbidden", "unavailable"}
           /\ outcome = "active" => request[r].answer = "active" /\ now < request[r].expires
<1>1. request[r].answer \in {"active", "inactive", "forbidden", "lost"}
    BY CallingIsCall DEF CallHolds
<1>2. CASE request[r].answer = "active"
    BY <1>2 DEF Outcomes
<1>3. CASE request[r].answer = "lost"
    BY <1>3 DEF Outcomes
<1>4. CASE request[r].answer \in {"inactive", "forbidden"}
    BY <1>4 DEF Outcomes
<1> QED BY <1>1, <1>2, <1>3, <1>4

LEMMA AuthenticateKeeps ==
    ASSUME SessionInv, NEW r \in Requests, Authenticate(r)
    PROVE  SessionInv'
<1> DEFINE t == request[r].token
<1>1. /\ request[r] \in Calls /\ CallHolds(request[r]) /\ Quiet /\ Onward /\ now' = now
    BY CallingIsCall, QuietIsOnward DEF Authenticate, At
<1>2. t \in DOMAIN portal \cup {None}
    BY <1>1 DEF CallHolds
<1>3. CacheHolds' /\ DOMAIN cache' \subseteq DOMAIN portal /\ cache' \in [DOMAIN cache' -> Nat]
    BY <1>1, CacheShrinks DEF Authenticate
<1>4. /\ request' \in [Requests -> Idles \cup Backs \cup Calls]
      /\ \A p \in Requests : RequestHolds(request[p])'
    <2>1. CASE Responds(r, "refused", None, Keep)
        BY <1>1, <2>1, RespondsKeeps DEF Verdicts
    <2>2. CASE LetIn(r)
        BY <1>1, <2>2, RespondsKeeps DEF LetIn, Verdicts
    <2>3. CASE t # None /\ Asks(r, "introspecting")
        BY <1>1, <1>2, <2>3, AsksKeeps DEF Knows
    <2> QED BY <2>1, <2>2, <2>3 DEF Authenticate
<1> QED BY <1>1, <1>3, <1>4, QuietKeeps

LEMMA AuthenticatedKeeps ==
    ASSUME SessionInv, NEW r \in Requests, Authenticated(r)
    PROVE  SessionInv'
<1>1. /\ request[r] \in Calls /\ Quiet /\ Onward /\ now' = now /\ request[r].at = "introspecting"
    BY CallingIsCall, QuietIsOnward DEF Authenticated, At
<1>2. PICK outcome \in Outcomes(r) :
          IF outcome = "active"
          THEN LetIn(r) /\ cache' = Stored(r)
          ELSE /\ Responds(r, outcome, IF outcome = "inactive" THEN None ELSE Keep, Keep)
               /\ UNCHANGED cache
    BY DEF Authenticated
<1>3. /\ outcome \in {"active", "inactive", "forbidden", "unavailable"}
      /\ outcome = "active" => request[r].answer = "active" /\ now < request[r].expires
    BY <1>1, OutcomesAre DEF Authenticated
<1>4. CacheHolds' /\ DOMAIN cache' \subseteq DOMAIN portal /\ cache' \in [DOMAIN cache' -> Nat]
    BY <1>1, <1>2, <1>3, CacheShrinks, CacheGrows
<1>5. /\ request' \in [Requests -> Idles \cup Backs \cup Calls]
      /\ \A p \in Requests : RequestHolds(request[p])'
    <2>1. CASE LetIn(r)
        BY <1>1, <2>1, RespondsKeeps DEF LetIn, Verdicts
    <2>2. CASE outcome # "active"
        <3>1. outcome \in Verdicts
            BY <1>3, <2>2 DEF Verdicts
        <3>2. PICK token \in {None, Keep} : Responds(r, outcome, token, Keep)
            BY <1>2, <2>2
        <3> QED BY <1>1, <3>1, <3>2, RespondsKeeps
    <2> QED BY <1>2, <2>1, <2>2
<1> QED BY <1>1, <1>4, <1>5, QuietKeeps

LEMMA StartKeeps ==
    ASSUME SessionInv, NEW r \in Requests, Start(r) \/ Callback(r) \/ Exchange(r) \/ Revoke(r)
    PROVE  SessionInv'
<1>1. /\ request[r] \in Calls /\ CallHolds(request[r]) /\ Quiet /\ Onward /\ now' = now /\ UNCHANGED cache
    BY CallingIsCall, QuietIsOnward DEF Start, Callback, Exchange, Revoke, At
<1>2. CacheHolds' /\ DOMAIN cache' \subseteq DOMAIN portal /\ cache' \in [DOMAIN cache' -> Nat]
    BY <1>1, CacheShrinks
<1>3. /\ request' \in [Requests -> Idles \cup Backs \cup Calls]
      /\ \A p \in Requests : RequestHolds(request[p])'
    <2>1. ASSUME NEW result \in {"unavailable", "failed", "signed out"}, NEW token \in {None, Keep},
                 NEW handoff \in {None, Keep}, Responds(r, result, token, handoff)
          PROVE  /\ request' \in [Requests -> Idles \cup Backs \cup Calls]
                 /\ \A p \in Requests : RequestHolds(request[p])'
        BY <1>1, <2>1, RespondsKeeps DEF Verdicts
    <2>2. CASE Start(r)
        <3> DEFINE handoff == [attempt |-> request[r].state, expires |-> now + HandoffTtl]
        <3>1. CASE Responds(r, "redirected", Keep, handoff)
            <4>1. handoff \in Handoffs
                BY <1>1, <2>2, SpansAreNat DEF Start, At, CallHolds, Handoffs, SessionInv, SessionTyped
            <4> QED BY <1>1, <3>1, <4>1, RespondsKeeps DEF Verdicts
        <3> QED BY <2>1, <2>2, <3>1 DEF Start
    <2>3. CASE Callback(r)
        <3>1. CASE Asks(r, "exchanging")
            BY <1>1, <2>3, <3>1, AsksKeeps DEF Callback, At
        <3> QED BY <2>1, <2>3, <3>1 DEF Callback
    <2>4. CASE Exchange(r)
        <3>1. CASE request[r].answer = "token" /\ Asks(r, "introspecting")
            BY <1>1, <2>4, <3>1, AsksKeeps DEF Exchange, CallHolds
        <3> QED BY <2>1, <2>4, <3>1 DEF Exchange
    <2>5. CASE Revoke(r)
        BY <2>1, <2>5 DEF Revoke
    <2> QED BY <2>2, <2>3, <2>4, <2>5
<1> QED BY <1>1, <1>2, <1>3, QuietKeeps

LEMMA SignInKeeps ==
    ASSUME SessionInv, NEW r \in Requests, SignIn(r)
    PROVE  SessionInv'
<1>1. /\ request[r] \in Calls /\ CallHolds(request[r]) /\ Quiet /\ Onward /\ now' = now
      /\ request[r].at = "introspecting"
    BY CallingIsCall, QuietIsOnward DEF SignIn, At
<1>2. PICK outcome \in Outcomes(r) :
          IF outcome = "active"
          THEN Responds(r, "signed in", request[r].token, None) /\ cache' = Stored(r)
          ELSE Rejected(r) /\ cache' = Restrict(cache, DOMAIN cache \ {request[r].token})
    BY DEF SignIn
<1>3. outcome = "active" => request[r].answer = "active" /\ now < request[r].expires
    BY <1>1, OutcomesAre DEF SignIn
<1>4. CacheHolds' /\ DOMAIN cache' \subseteq DOMAIN portal /\ cache' \in [DOMAIN cache' -> Nat]
    BY <1>1, <1>2, <1>3, CacheShrinks, CacheGrows
<1>5. /\ request' \in [Requests -> Idles \cup Backs \cup Calls]
      /\ \A p \in Requests : RequestHolds(request[p])'
    <2>1. CASE Responds(r, "signed in", request[r].token, None)
        <3>1. request[r].token \in DOMAIN portal \cup {None, Keep}
            BY <1>1 DEF CallHolds
        <3> QED BY <1>1, <2>1, <3>1, RespondsKeeps DEF Verdicts
    <2>2. CASE Rejected(r)
        BY <1>1, <2>2, AsksKeeps DEF Rejected, CallHolds
    <2> QED BY <1>2, <2>1, <2>2
<1> QED BY <1>1, <1>4, <1>5, QuietKeeps

LEMMA LogoutKeeps ==
    ASSUME SessionInv, NEW r \in Requests, Logout(r)
    PROVE  SessionInv'
<1>1. /\ request[r] \in Calls /\ CallHolds(request[r]) /\ Quiet /\ Onward /\ now' = now
    BY CallingIsCall, QuietIsOnward DEF Logout, At
<1>2. CacheHolds' /\ DOMAIN cache' \subseteq DOMAIN portal /\ cache' \in [DOMAIN cache' -> Nat]
    BY <1>1, CacheShrinks DEF Logout
<1>3. /\ request' \in [Requests -> Idles \cup Backs \cup Calls]
      /\ \A p \in Requests : RequestHolds(request[p])'
    <2>1. CASE Responds(r, "signed out", None, None)
        BY <1>1, <2>1, RespondsKeeps DEF Verdicts
    <2>2. CASE request[r].token # None /\ Asks(r, "revoking")
        <3>1. Knows(request[r].token)
            BY <1>1, <2>2 DEF CallHolds, Knows
        <3> QED BY <1>1, <2>2, <3>1, AsksKeeps
    <2> QED BY <2>1, <2>2 DEF Logout
<1> QED BY <1>1, <1>2, <1>3, QuietKeeps

\* What the Portal does with a call, or by itself.
LEMMA PortalKeeps ==
    ASSUME SessionInv, Onward, UNCHANGED <<now, browser, cache>>,
           DOMAIN tab' = DOMAIN tab, tab' \in [DOMAIN tab -> TabStates],
           request' \in [Requests -> Idles \cup Backs \cup Calls],
           \A p \in Requests : RequestHolds(request[p])'
    PROVE  SessionInv'
<1>1. CacheHolds' /\ DOMAIN cache' \subseteq DOMAIN portal' /\ cache' \in [DOMAIN cache' -> Nat]
    BY CacheStays DEF SessionInv, SessionTyped
<1>2. SessionTyped'
    BY <1>1 DEF Onward, SessionInv, SessionTyped
<1> QED BY <1>1, <1>2 DEF Onward, SessionInv

LEMMA AllStay ==
    ASSUME SessionInv, Onward, now' = now, UNCHANGED request
    PROVE  /\ request' \in [Requests -> Idles \cup Backs \cup Calls]
           /\ \A p \in Requests : RequestHolds(request[p])'
<1>1. \A p \in Requests : RequestHolds(request[p])'
    BY RequestStays
<1> QED BY <1>1 DEF SessionInv, SessionTyped

LEMMA DecisionKeeps ==
    ASSUME SessionInv, (\E a \in DOMAIN tab : PortalDecides(a)) \/ (\E t \in Tokens : PortalEnds(t))
    PROVE  SessionInv'
<1>1. ASSUME NEW a \in DOMAIN tab, PortalDecides(a) PROVE SessionInv'
    <2>1. UNCHANGED <<now, until, cacheSeconds, portal, browser, cache, request>>
        BY <1>1 DEF PortalDecides
    <2>2. DOMAIN tab' = DOMAIN tab /\ tab' \in [DOMAIN tab -> TabStates]
        BY <1>1 DEF PortalDecides, TabStates, SessionInv, SessionTyped
    <2>3. Onward
        BY <2>1, PortalRests
    <2> QED BY <2>1, <2>2, <2>3, AllStay, PortalKeeps
<1>2. ASSUME NEW t \in Tokens, PortalEnds(t) PROVE SessionInv'
    <2>1. UNCHANGED <<now, until, cacheSeconds, tab, browser, cache, request>>
        BY <1>2 DEF PortalEnds
    <2>2. Onward
        BY <1>2, <2>1, PortalEnded DEF PortalEnds
    <2>3. DOMAIN tab' = DOMAIN tab /\ tab' \in [DOMAIN tab -> TabStates]
        BY <2>1 DEF SessionInv, SessionTyped
    <2> QED BY <2>1, <2>2, <2>3, AllStay, PortalKeeps
<1> QED BY <1>1, <1>2

\* An answer of the Portal arrives.
LEMMA AnswerKeeps ==
    ASSUME SessionInv, Onward, now' = now, NEW r \in Requests,
           NEW q \in Calls, request' = [request EXCEPT ![r] = q], CallHolds(q)'
    PROVE  /\ request' \in [Requests -> Idles \cup Backs \cup Calls]
           /\ \A p \in Requests : RequestHolds(request[p])'
<1>1. q \notin Backs
    BY DEF Calls, Backs
<1>2. RequestHolds(q)'
    BY <1>1 DEF RequestHolds
<1> QED BY <1>2, OneRequest

\* What a call knew of its session it knows still.
LEMMA CallStays ==
    ASSUME SessionInv, Onward, now' = now, NEW r \in Requests,
           request[r].at \in {"introspecting", "exchanging", "revoking"}
    PROVE  CallHolds(request[r])' \/ request'[r] # request[r]
<1>1. request[r] \in Calls
    BY CallingIsCall
<1>2. ASSUME request'[r] = request[r] PROVE CallHolds(request[r])'
    BY <1>1, <1>2, RequestStays DEF RequestHolds
<1> QED BY <1>2

LEMMA IntrospectedKeeps ==
    ASSUME SessionInv, NEW r \in Requests, Introspected(r)
    PROVE  SessionInv'
<1> DEFINE c == request[r]
<1>1. /\ c \in Calls /\ CallHolds(c) /\ c.at = "introspecting" /\ c.answer = "none"
      /\ UNCHANGED <<now, until, cacheSeconds, tab, browser, cache>>
    BY CallingIsCall DEF Introspected
<1>2. /\ c.token \in DOMAIN portal /\ c.token \in Tokens /\ c.asked \in Nat /\ now \in Nat
      /\ c.asked <= now /\ now <= c.asked + RoundTrip
    BY <1>1 DEF CallHolds, Knows, Calls, SessionInv, SessionTyped
<1>3. DOMAIN tab' = DOMAIN tab /\ tab' \in [DOMAIN tab -> TabStates]
    BY <1>1 DEF SessionInv, SessionTyped
<1>4. CASE /\ Live(c.token) /\ portal' = Touched(c.token)
           /\ request' = [request EXCEPT ![r].answer = "active", ![r].expires = portal'[c.token].idle]
    <2>1. Onward /\ DOMAIN portal' = DOMAIN portal /\ portal'[c.token].idle \in Nat
          /\ portal'[c.token].over = None
        BY <1>1, <1>4, PortalTouched
    <2>2. PICK q \in Calls :
              /\ request' = [request EXCEPT ![r] = q]
              /\ q.answer = "active" /\ q.expires = portal'[c.token].idle
              /\ q.at = c.at /\ q.asked = c.asked /\ q.kind = c.kind /\ q.state = c.state
              /\ q.token = c.token /\ q.late = c.late /\ q.begun = c.begun
        <3>1. request' = [request EXCEPT ![r] = Assured(c, portal'[c.token].idle)]
            BY <1>4 DEF Assured, SessionInv, SessionTyped
        <3> QED BY <1>1, <2>1, <3>1, AssuredIs
    <2>3. ~c.late
        BY <1>1, <1>4 DEF CallHolds, Live
    <2>4. CallHolds(q)'
        BY <1>1, <1>2, <2>1, <2>2, <2>3, SpansAreNat DEF CallHolds, Knows
    <2> QED BY <1>1, <1>3, <2>1, <2>2, <2>4, AnswerKeeps, PortalKeeps
<1>5. CASE \E answer \in {"inactive", "forbidden", "lost"} :
              UNCHANGED portal /\ request' = [request EXCEPT ![r].answer = answer]
    <2>1. PICK answer \in {"inactive", "forbidden", "lost"} :
              UNCHANGED portal /\ request' = [request EXCEPT ![r].answer = answer]
        BY <1>5
    <2>2. Onward
        BY <1>1, <2>1, PortalRests
    <2>3. PICK q \in Calls :
              /\ request' = [request EXCEPT ![r] = q]
              /\ q.answer = answer
              /\ q.at = c.at /\ q.asked = c.asked /\ q.kind = c.kind /\ q.state = c.state
              /\ q.token = c.token /\ q.late = c.late /\ q.begun = c.begun
        <3>1. request' = [request EXCEPT ![r] = Told(c, answer)]
            BY <2>1 DEF Told, SessionInv, SessionTyped
        <3>2. answer \in Answers
            BY DEF Answers
        <3> QED BY <1>1, <3>1, <3>2, ToldIs
    <2>4. CallHolds(q)'
        BY <1>1, <1>2, <2>1, <2>3, SpansAreNat DEF CallHolds, Knows
    <2> QED BY <1>1, <1>3, <2>2, <2>3, <2>4, AnswerKeeps, PortalKeeps
<1> QED BY <1>4, <1>5 DEF Introspected

LEMMA RevokedKeeps ==
    ASSUME SessionInv, NEW r \in Requests, Revoked(r)
    PROVE  SessionInv'
<1> DEFINE c == request[r]
<1>1. /\ c \in Calls /\ CallHolds(c) /\ c.at = "revoking" /\ c.answer = "none"
      /\ UNCHANGED <<now, until, cacheSeconds, tab, browser, cache>>
    BY CallingIsCall DEF Revoked
<1>2. /\ c.token \in DOMAIN portal /\ c.token \in Tokens /\ c.asked \in Nat /\ now \in Nat
      /\ c.asked <= now /\ now <= c.asked + RoundTrip
    BY <1>1 DEF CallHolds, Knows, Calls, SessionInv, SessionTyped
<1>3. DOMAIN tab' = DOMAIN tab /\ tab' \in [DOMAIN tab -> TabStates]
    BY <1>1 DEF SessionInv, SessionTyped
<1>4. PICK answer \in {"done", "lost"} :
          /\ request' = [request EXCEPT ![r].answer = answer]
          /\ portal' = portal \/ (Live(c.token) /\ portal' = Ended(c.token))
          /\ answer = "done" => portal' = IF Live(c.token) THEN Ended(c.token) ELSE portal
    BY DEF Revoked
<1> PICK token \in Tokens : token = c.token
    BY <1>2
<1>5. Onward /\ (answer = "done" => ~Live(token)')
    <2>1. CASE Live(token) /\ portal' = Ended(c.token)
        BY <1>1, <2>1, PortalEnded
    <2>2. CASE portal' = portal
        <3>1. Onward /\ Live(token)' = Live(token)
            BY <1>1, <2>2, PortalRests DEF Live
        <3>2. CASE Live(token)
            <4>1. answer = "done" => portal' = Ended(c.token)
                BY <1>4, <3>2
            <4> QED BY <1>1, <3>1, <3>2, <4>1, PortalEnded
        <3> QED BY <3>1, <3>2
    <2> QED BY <1>4, <2>1, <2>2
<1>6. PICK q \in Calls :
          /\ request' = [request EXCEPT ![r] = q]
          /\ q.answer = answer
          /\ q.at = c.at /\ q.asked = c.asked /\ q.kind = c.kind /\ q.state = c.state
          /\ q.token = c.token /\ q.late = c.late /\ q.begun = c.begun
    <2>1. request' = [request EXCEPT ![r] = Told(c, answer)]
        BY <1>4 DEF Told, SessionInv, SessionTyped
    <2>2. answer \in Answers
        BY DEF Answers
    <2> QED BY <1>1, <2>1, <2>2, ToldIs
<1>7. c.token \in DOMAIN portal' /\ (portal[c.token].over # None => portal'[c.token].over # None)
    BY <1>2, <1>5, SpansAreNat DEF Onward
<1>8. CallHolds(q)'
    BY <1>1, <1>2, <1>5, <1>6, <1>7, SpansAreNat DEF CallHolds, Knows
<1> QED BY <1>1, <1>3, <1>5, <1>6, <1>8, AnswerKeeps, PortalKeeps

LEMMA ExchangedKeeps ==
    ASSUME SessionInv, NEW r \in Requests, NEW t \in Tokens, Exchanged(r, t)
    PROVE  SessionInv'
<1> DEFINE c == request[r]
<1>1. /\ c \in Calls /\ CallHolds(c) /\ c.at = "exchanging" /\ c.answer = "none"
      /\ UNCHANGED <<now, until, cacheSeconds, browser, cache>>
    BY CallingIsCall DEF Exchanged
<1>2. /\ c.asked \in Nat /\ now \in Nat /\ now + Idle \in Nat
      /\ c.asked <= now /\ now <= c.asked + RoundTrip /\ c.kind = "callback" /\ ~c.late
    BY <1>1, SpansAreNat DEF CallHolds, Knows, Calls, SessionInv, SessionTyped
<1>3. DOMAIN tab' = DOMAIN tab /\ tab' \in [DOMAIN tab -> TabStates]
    BY DEF Exchanged, TabStates, SessionInv, SessionTyped
<1>4. CASE /\ t \in Tokens \ DOMAIN portal
           /\ portal' = With(portal, t, [idle |-> now + Idle, absolute |-> now + Absolute, over |-> None])
           /\ request' = [request EXCEPT ![r].answer = "token", ![r].token = t, ![r].expires = now + Idle]
    <2>1. Onward /\ t \in DOMAIN portal'
        BY <1>1, <1>4, PortalIssues
    <2>2. PICK q \in Calls :
              /\ request' = [request EXCEPT ![r] = q]
              /\ q.answer = "token" /\ q.token = t
              /\ q.at = c.at /\ q.asked = c.asked /\ q.kind = c.kind /\ q.state = c.state
              /\ q.late = c.late /\ q.begun = c.begun
        <3>1. request' = [request EXCEPT ![r] = Issued(c, t, now + Idle)]
            BY <1>4 DEF Issued, SessionInv, SessionTyped
        <3> QED BY <1>1, <1>2, <3>1, IssuedIs
    <2>3. CallHolds(q)'
        BY <1>1, <1>2, <2>1, <2>2 DEF CallHolds, Knows
    <2> QED BY <1>1, <1>3, <2>1, <2>2, <2>3, AnswerKeeps, PortalKeeps
<1>5. CASE \E answer \in {"forbidden", "lost"} :
              UNCHANGED portal /\ request' = [request EXCEPT ![r].answer = answer]
    <2>1. PICK answer \in {"forbidden", "lost"} :
              UNCHANGED portal /\ request' = [request EXCEPT ![r].answer = answer]
        BY <1>5
    <2>2. Onward
        BY <1>1, <2>1, PortalRests
    <2>3. PICK q \in Calls :
              /\ request' = [request EXCEPT ![r] = q]
              /\ q.answer = answer
              /\ q.at = c.at /\ q.asked = c.asked /\ q.kind = c.kind /\ q.state = c.state
              /\ q.token = c.token /\ q.late = c.late /\ q.begun = c.begun
        <3>1. request' = [request EXCEPT ![r] = Told(c, answer)]
            BY <2>1 DEF Told, SessionInv, SessionTyped
        <3>2. answer \in Answers
            BY DEF Answers
        <3> QED BY <1>1, <3>1, <3>2, ToldIs
    <2>4. CallHolds(q)'
        BY <1>1, <1>2, <2>1, <2>3 DEF CallHolds, Knows
    <2> QED BY <1>1, <1>3, <2>2, <2>3, <2>4, AnswerKeeps, PortalKeeps
<1> QED BY <1>4, <1>5 DEF Exchanged

LEMMA ArriveKeeps ==
    ASSUME SessionInv, NEW r \in Requests, Arrive(r)
    PROVE  SessionInv'
<1> DEFINE q == request[r]
<1>1. q \in Backs /\ q.token \in DOMAIN portal \cup {None, Keep}
    <2>1. q \in Backs
        BY DEF Arrive, SessionInv, SessionTyped, Idles, Calls
    <2> QED BY <2>1 DEF SessionInv, RequestHolds
<1>2. UNCHANGED <<now, until, cacheSeconds, portal, cache>> /\ Onward
    BY PortalRests DEF Arrive
<1>3. browser' \in [token : DOMAIN portal \cup {None}, handoff : Handoffs \cup {None}]
    <2>1. /\ browser.token \in DOMAIN portal \cup {None} /\ browser.handoff \in Handoffs \cup {None}
          /\ q.handoff \in Handoffs \cup {None, Keep}
        BY <1>1 DEF Backs, SessionInv, SessionTyped
    <2>2. browser' = [token   |-> IF q.token = Keep THEN browser.token ELSE q.token,
                      handoff |-> IF q.handoff = Keep THEN browser.handoff ELSE q.handoff]
        BY DEF Arrive
    <2> QED BY <1>1, <2>1, <2>2
<1>4. DOMAIN tab' = DOMAIN tab /\ tab' \in [DOMAIN tab -> TabStates]
    BY DEF Arrive, TabStates, SessionInv, SessionTyped
<1>5. PICK idle \in Idles : idle = [at |-> "free"]
    BY DEF Idles
<1>6. request' = [request EXCEPT ![r] = idle] /\ idle \notin Backs /\ idle \notin Calls
    BY <1>5 DEF Arrive, Backs, Calls
<1>7. /\ request' \in [Requests -> Idles \cup Backs \cup Calls]
      /\ \A p \in Requests : RequestHolds(request[p])'
    BY <1>2, <1>6, OneRequest DEF RequestHolds
<1>8. CacheHolds' /\ PortalHolds'
    BY <1>2 DEF SessionInv, CacheHolds, PortalHolds
<1>9. SessionTyped'
    BY <1>2, <1>3, <1>4, <1>7 DEF SessionInv, SessionTyped
<1> QED BY <1>7, <1>8, <1>9 DEF SessionInv

LEMMA NoneCached == <<>> \in [{} -> Nat] /\ DOMAIN <<>> = {}
OBVIOUS

LEMMA AllIdle ==
    ASSUME request' = [r \in Requests |-> [at |-> "free"]]
    PROVE  /\ request' \in [Requests -> Idles \cup Backs \cup Calls]
           /\ \A p \in Requests : RequestHolds(request[p])'
<1>1. [at |-> "free"] \in Idles /\ [at |-> "free"] \notin Backs /\ [at |-> "free"] \notin Calls
    BY DEF Idles, Backs, Calls
<1> QED BY <1>1 DEF RequestHolds

LEMMA RestartKeeps ==
    ASSUME SessionInv, SessionRestart
    PROVE  SessionInv'
<1>1. UNCHANGED <<now, until, cacheSeconds, portal, tab, browser>> /\ cache' = <<>>
    BY DEF SessionRestart
<1>2. /\ request' \in [Requests -> Idles \cup Backs \cup Calls]
      /\ \A p \in Requests : RequestHolds(request[p])'
    BY AllIdle DEF SessionRestart
<1>3. DOMAIN cache' = {} /\ cache' \in [DOMAIN cache' -> Nat] /\ CacheHolds'
    BY <1>1, NoneCached DEF CacheHolds
<1> QED BY <1>1, <1>2, <1>3, QuietKeeps DEF Quiet

\* Time passes: what was bounded by now is bounded by it still, and no call waits longer
\* than a round trip.
LEMMA SessionTickKeeps ==
    ASSUME SessionInv, SessionTick
    PROVE  SessionInv'
<1>1. /\ now \in 0 .. until /\ until \in Nat /\ now < until /\ now' = now + 1
      /\ UNCHANGED <<until, cacheSeconds, portal, tab, browser, cache, request>>
    BY DEF SessionTick, SessionInv, SessionTyped
<1>2. SessionTyped'
    BY <1>1 DEF SessionInv, SessionTyped
<1>3. \A t \in DOMAIN portal : portal[t].idle \in Nat /\ portal[t].over \in Nat \cup {None}
    BY DEF SessionInv, SessionTyped, Session
<1>4. PortalHolds'
    <2> SUFFICES ASSUME NEW t \in DOMAIN portal
                 PROVE  /\ portal[t].idle <= portal[t].absolute /\ portal[t].idle <= now + 1 + Idle
                        /\ portal[t].over # None => portal[t].over <= now + 1
        BY <1>1 DEF PortalHolds
    <2>1. /\ portal[t].idle <= portal[t].absolute /\ portal[t].idle <= now + Idle
          /\ portal[t].over # None => portal[t].over <= now
        BY DEF SessionInv, PortalHolds
    <2> QED BY <1>1, <1>3, <2>1, SpansAreNat
<1>5. CacheHolds'
    <2> SUFFICES ASSUME NEW t \in DOMAIN cache
                 PROVE  /\ cacheSeconds > 0 /\ 0 < cache[t]
                        /\ cache[t] <= portal[t].idle /\ cache[t] <= now + 1 + cacheSeconds
                        /\ portal[t].over # None => cache[t] <= portal[t].over + cacheSeconds + RoundTrip
        BY <1>1 DEF CacheHolds
    <2>1. /\ cacheSeconds > 0 /\ 0 < cache[t]
          /\ cache[t] <= portal[t].idle /\ cache[t] <= now + cacheSeconds
          /\ portal[t].over # None => cache[t] <= portal[t].over + cacheSeconds + RoundTrip
        BY DEF SessionInv, CacheHolds
    <2>2. cache[t] \in Nat /\ cacheSeconds \in Nat
        BY SpansAreNat DEF SessionInv, SessionTyped
    <2> QED BY <1>1, <2>1, <2>2
<1>6. ASSUME NEW r \in Requests PROVE RequestHolds(request[r])'
    <2> PICK q : q = request[r]
        OBVIOUS
    <2>1. request'[r] = q
        BY <1>1
    <2>2. CASE q \in Backs
        <3>1. q \notin Calls
            BY <2>2 DEF Backs, Calls
        <3> QED BY <1>1, <2>1, <2>2, <3>1 DEF SessionInv, RequestHolds
    <2>3. CASE q \in Calls
        <3>1. q \notin Backs /\ CallHolds(q)
            BY <2>3 DEF Backs, Calls, SessionInv, RequestHolds
        <3>2. q.asked \in Nat /\ q.begun \in Nat
            BY <2>3 DEF Calls
        <3>3. /\ q.begun <= now'
              /\ q.at \in {"introspecting", "exchanging", "revoking"} =>
                    q.asked <= now' /\ now' <= q.asked + RoundTrip
            BY <1>1, <3>1, <3>2, SpansAreNat DEF CallHolds, SessionTick
        <3>4. Knows(q.token) => (~Live(q.token) => ~Live(q.token)')
            BY <1>1, <1>3 DEF Live, Knows
        <3>5. CallHolds(q)'
            BY <1>1, <3>1, <3>3, <3>4 DEF CallHolds, Knows
        <3>6. RequestHolds(q)'
            BY <3>1, <3>5 DEF RequestHolds
        <3> QED BY <2>1, <3>6
    <2>4. CASE q \notin Backs /\ q \notin Calls
        BY <2>1, <2>4 DEF RequestHolds
    <2> QED BY <2>2, <2>3, <2>4
<1> QED BY <1>2, <1>4, <1>5, <1>6 DEF SessionInv

LEMMA SessionStart == SessionInit => SessionInv
<1> SUFFICES ASSUME SessionInit PROVE SessionInv
    OBVIOUS
<1>1. PICK s \in SessionStarts :
          /\ now = 0 /\ until = s.until /\ cacheSeconds \in CacheSeconds
          /\ portal = [t \in {s.token} \ {None} |-> [idle |-> Idle, absolute |-> Absolute, over |-> None]]
          /\ browser = [token |-> s.token, handoff |-> None]
          /\ tab = [a \in s.attempts |-> "new"]
          /\ cache = <<>> /\ request = [r \in Requests |-> [at |-> "free"]]
    BY DEF SessionInit
<1>2. s.token \in Tokens \cup {None} /\ s.attempts \subseteq Attempts /\ s.until \in Nat
    BY SessionAssumption
<1> DEFINE first == [idle |-> Idle, absolute |-> Absolute, over |-> None]
<1>3. first \in Session
    BY SpansAreNat DEF Session
<1>4. DOMAIN portal = {s.token} \ {None} /\ \A t \in DOMAIN portal : portal[t] = first
    BY <1>1
<1>5. DOMAIN portal \subseteq Tokens /\ portal \in [DOMAIN portal -> Session]
    BY <1>1, <1>2, <1>3
<1>6. PortalHolds
    BY <1>1, <1>4, SpansAreNat DEF PortalHolds
<1>7. DOMAIN cache = {} /\ cache \in [DOMAIN cache -> Nat] /\ CacheHolds
    BY <1>1, NoneCached DEF CacheHolds
<1>8. [at |-> "free"] \in Idles /\ [at |-> "free"] \notin Backs /\ [at |-> "free"] \notin Calls
    BY DEF Idles, Backs, Calls
<1>9. /\ request \in [Requests -> Idles \cup Backs \cup Calls]
      /\ \A p \in Requests : RequestHolds(request[p])
    BY <1>1, <1>8 DEF RequestHolds
<1>10. browser \in [token : DOMAIN portal \cup {None}, handoff : Handoffs \cup {None}]
    BY <1>1, <1>2, <1>4
<1>11. DOMAIN tab \subseteq Attempts /\ tab \in [DOMAIN tab -> TabStates]
    BY <1>1, <1>2 DEF TabStates
<1>12. SessionTyped
    BY <1>1, <1>2, <1>5, <1>7, <1>9, <1>10, <1>11 DEF SessionTyped
<1> QED BY <1>6, <1>7, <1>9, <1>12 DEF SessionInv

LEMMA SessionIdles ==
    ASSUME SessionInv, UNCHANGED sessionVars
    PROVE  SessionInv'
<1>1. UNCHANGED <<now, until, cacheSeconds, portal, tab, browser, cache, request>>
    BY DEF sessionVars
<1>2. Onward
    BY <1>1, PortalRests
<1>3. DOMAIN tab' = DOMAIN tab /\ tab' \in [DOMAIN tab -> TabStates]
    BY <1>1 DEF SessionInv, SessionTyped
<1> QED BY <1>1, <1>2, <1>3, AllStay, PortalKeeps

LEMMA SessionStep == SessionInv /\ [SessionNext]_sessionVars => SessionInv'
<1> SUFFICES ASSUME SessionInv, [SessionNext]_sessionVars PROVE SessionInv'
    OBVIOUS
<1>1. CASE UNCHANGED sessionVars
    BY <1>1, SessionIdles
<1>2. ASSUME NEW r \in Requests,
             \/ SendApi(r) \/ SendLogout(r)
             \/ \E a \in DOMAIN tab : SendStart(r, a) \/ SendCallback(r, a)
             \/ Arrive(r) \/ Authenticate(r) \/ Introspected(r) \/ Authenticated(r)
             \/ Start(r) \/ Callback(r) \/ Exchange(r) \/ SignIn(r) \/ Logout(r) \/ Revoked(r) \/ Revoke(r)
             \/ \E t \in Tokens : Exchanged(r, t)
      PROVE  SessionInv'
    BY <1>2, SendsKeep, ArriveKeeps, AuthenticateKeeps, IntrospectedKeeps, AuthenticatedKeeps,
       StartKeeps, SignInKeeps, LogoutKeeps, RevokedKeeps, ExchangedKeeps
<1>3. CASE \/ \E a \in DOMAIN tab : PortalDecides(a)
           \/ \E t \in Tokens : PortalEnds(t)
           \/ SessionRestart \/ SessionTick
    BY <1>3, DecisionKeeps, RestartKeeps, SessionTickKeeps
<1> QED BY <1>1, <1>2, <1>3 DEF SessionNext

\* The inductive invariant SessionInv holds in every reachable state: what the process and
\* the requests under way know of the sessions at the Portal, however answers are delayed.
THEOREM SessionInvariance == SessionSpec => []SessionInv
BY SessionStart, SessionStep, PTL DEF SessionSpec

\* Every variable of signing in keeps its type, for any tokens, tabs and requests.
THEOREM SessionTypeCorrect == SessionSpec => []SessionTypeOK
<1>1. SessionInv => SessionTypeOK
    <2> SUFFICES ASSUME SessionInv PROVE SessionTypeOK
        OBVIOUS
    <2>1. ASSUME NEW t \in DOMAIN cache PROVE cache[t] \in 1 .. until + Absolute
        <3>1. /\ cache[t] \in Nat /\ t \in DOMAIN portal /\ portal[t] \in Session
              /\ now \in 0 .. until /\ until \in Nat
            BY DEF SessionInv, SessionTyped
        <3>2. /\ 0 < cache[t] /\ cache[t] <= portal[t].idle /\ portal[t].idle <= now + Idle
            BY <3>1 DEF SessionInv, CacheHolds, PortalHolds
        <3>3. portal[t].idle \in Nat
            BY <3>1 DEF Session
        <3> QED BY <3>1, <3>2, <3>3, SpansAreNat
    <2>2. browser.token \in DOMAIN portal \cup {None}
          /\ (browser.handoff = None \/ (browser.handoff.attempt \in Attempts /\ browser.handoff.expires \in Nat))
        BY DEF SessionInv, SessionTyped, Handoffs
    <2> QED BY <2>1, <2>2 DEF SessionInv, SessionTyped, TabStates, SessionTypeOK
<1> QED BY <1>1, SessionInvariance, PTL

Acts(r) ==
    \/ SendApi(r) \/ SendLogout(r)
    \/ \E a \in DOMAIN tab : SendStart(r, a) \/ SendCallback(r, a)
    \/ Arrive(r) \/ Introspected(r) \/ Revoked(r) \/ \E t \in Tokens : Exchanged(r, t)

Ends(r) ==
    \/ Authenticate(r) \/ Authenticated(r) \/ Start(r) \/ Callback(r) \/ Exchange(r)
    \/ SignIn(r) \/ Logout(r) \/ Revoke(r)

\* Nothing but its own steps moves a request.
LEMMA OneActs ==
    ASSUME SessionInv, NEW p \in Requests, Acts(p) \/ Ends(p), NEW r \in Requests, r # p
    PROVE  request'[r] = request[r]
<1>1. request \in [Requests -> Idles \cup Backs \cup Calls]
    BY DEF SessionInv, SessionTyped
<1>2. CASE Ends(p)
    <2>1. \/ \E result, token, handoff : Responds(p, result, token, handoff)
          \/ \E at : Asks(p, at)
        <3>1. CASE Authenticate(p) \/ Logout(p)
            BY <3>1 DEF Authenticate, Logout, LetIn
        <3>2. CASE Authenticated(p)
            <4>1. PICK outcome \in Outcomes(p) :
                    \/ LetIn(p)
                    \/ Responds(p, outcome, IF outcome = "inactive" THEN None ELSE Keep, Keep)
                BY <3>2 DEF Authenticated
            <4> QED BY <4>1 DEF LetIn
        <3>3. CASE SignIn(p)
            BY <3>3 DEF SignIn, Rejected
        <3>4. CASE Start(p) \/ Callback(p)
            BY <3>4 DEF Start, Callback
        <3>5. CASE Exchange(p)
            BY <3>5 DEF Exchange
        <3>6. CASE Revoke(p)
            BY <3>6 DEF Revoke
        <3> QED BY <1>2, <3>1, <3>2, <3>3, <3>4, <3>5, <3>6 DEF Ends
    <2>2. ASSUME NEW result, NEW token, NEW handoff, Responds(p, result, token, handoff)
          PROVE  request'[r] = request[r]
        BY <1>1, <2>2 DEF Responds
    <2>3. ASSUME NEW at, Asks(p, at) PROVE request'[r] = request[r]
        BY <1>1, <2>3 DEF Asks
    <2> QED BY <2>1, <2>2, <2>3
<1>3. CASE Acts(p)
    <2>1. CASE \E kind, state : Send(p, kind, state)
        BY <1>1, <2>1 DEF Send
    <2>2. CASE Arrive(p)
        BY <1>1, <2>2 DEF Arrive
    <2>3. CASE Introspected(p)
        BY <1>1, <2>3 DEF Introspected
    <2>4. CASE Revoked(p)
        BY <1>1, <2>4 DEF Revoked
    <2>5. ASSUME NEW t \in Tokens, Exchanged(p, t) PROVE request'[r] = request[r]
        BY <1>1, <2>5 DEF Exchanged
    <2>6. CASE \/ SendApi(p) \/ SendLogout(p)
               \/ \E a \in DOMAIN tab : SendStart(p, a) \/ SendCallback(p, a)
        BY <2>1, <2>6 DEF SendApi, SendLogout, SendStart, SendCallback
    <2> QED BY <1>3, <2>2, <2>3, <2>4, <2>5, <2>6 DEF Acts
<1> QED BY <1>2, <1>3

\* Of its own steps, those on the wire bring no response.
LEMMA ActsBringNone ==
    ASSUME SessionInv, NEW r \in Requests, Acts(r), request[r].at # "back"
    PROVE  request'[r].at # "back"
<1>1. request \in [Requests -> Idles \cup Backs \cup Calls]
    BY DEF SessionInv, SessionTyped
<1>2. ASSUME NEW kind, NEW state, Send(r, kind, state) PROVE request'[r].at # "back"
    <2>1. request'[r] = Sent(kind, state)
        BY <1>1, <1>2 DEF Send
    <2> QED BY <2>1 DEF Sent
<1>3. ASSUME Introspected(r) \/ Revoked(r) \/ \E t \in Tokens : Exchanged(r, t)
      PROVE  request'[r].at # "back"
    <2>1. request[r] \in Calls
        BY <1>3, CallingIsCall DEF Introspected, Revoked, Exchanged
    <2>2. CASE Introspected(r)
        <3>1. request'[r].at = request[r].at
            BY <1>1, <2>1, <2>2 DEF Introspected, Calls
        <3> QED BY <3>1
    <2>3. CASE Revoked(r)
        <3>1. request'[r].at = request[r].at
            BY <1>1, <2>1, <2>3 DEF Revoked, Calls
        <3> QED BY <3>1
    <2>4. ASSUME NEW t \in Tokens, Exchanged(r, t) PROVE request'[r].at = request[r].at
        BY <1>1, <2>1, <2>4 DEF Exchanged, Calls
    <2> QED BY <1>3, <2>2, <2>3, <2>4
<1> QED BY <1>2, <1>3 DEF Acts, SendApi, SendLogout, SendStart, SendCallback, Arrive

\* A response comes of a step of its request.
LEMMA ResponsesCome ==
    ASSUME SessionInv, SessionNext, NEW r \in Requests,
           request[r].at # "back", request'[r].at = "back"
    PROVE  Ends(r)
<1>1. CASE UNCHANGED request
    BY <1>1
<1>2. CASE request' = [p \in Requests |-> [at |-> "free"]]
    BY <1>2
<1>3. ASSUME NEW p \in Requests, Acts(p) \/ Ends(p) PROVE Ends(r)
    <2>1. p = r
        BY <1>3, OneActs
    <2> QED BY <1>3, <2>1, ActsBringNone
<1>4. \/ \E p \in Requests : Acts(p) \/ Ends(p)
      \/ UNCHANGED request
      \/ request' = [p \in Requests |-> [at |-> "free"]]
    BY DEF SessionNext, Acts, Ends, PortalDecides, PortalEnds, SessionRestart, SessionTick
<1> QED BY <1>1, <1>2, <1>3, <1>4

LEMMA ResponseIs ==
    ASSUME SessionInv, NEW r \in Requests, NEW result, NEW token, NEW handoff,
           Responds(r, result, token, handoff)
    PROVE  request'[r].result = result
<1>1. request \in [Requests -> Idles \cup Backs \cup Calls]
    BY DEF SessionInv, SessionTyped
<1> QED BY <1>1 DEF Responds

LEMMA AsksAreNoResponse ==
    ASSUME SessionInv, NEW r \in Requests, request[r] \in Calls,
           NEW at \in {"introspecting", "exchanging", "revoking"}, Asks(r, at)
    PROVE  request'[r].at # "back"
<1>1. PICK q \in Calls : request' = [request EXCEPT ![r] = q] /\ q.at = at
    BY AsksIs
<1>2. request'[r] = q
    BY <1>1 DEF SessionInv, SessionTyped
<1> QED BY <1>1, <1>2

\* Who is let in: a request whose token is cached, or one the Portal has just confirmed.
LEMMA ServedBy ==
    ASSUME SessionInv, NEW r \in Requests, Ends(r),
           request'[r].at = "back", request'[r].result = "served"
    PROVE  \/ request[r].at = "come" /\ Cached(request[r].token)
           \/ /\ At(r, "api", "introspecting")
              /\ request[r].answer = "active" /\ now < request[r].expires
<1> DEFINE Other == {"redirected", "refused", "inactive", "forbidden", "unavailable",
                     "failed", "signed in", "signed out"}
<1>1. request[r] \in Calls
    BY CallingIsCall DEF Ends, Authenticate, Authenticated, Start, Callback, Exchange, SignIn,
          Logout, Revoke, At
<1>2. \A result \in Other : \A token, handoff : ~Responds(r, result, token, handoff)
    BY ResponseIs
<1>3. \A at \in {"introspecting", "exchanging", "revoking"} : ~Asks(r, at)
    BY <1>1, AsksAreNoResponse
<1>4. CASE Authenticate(r)
    BY <1>2, <1>3, <1>4 DEF Authenticate, At
<1>5. CASE Authenticated(r)
    <2>1. PICK outcome \in Outcomes(r) :
              IF outcome = "active"
              THEN LetIn(r)
              ELSE Responds(r, outcome, IF outcome = "inactive" THEN None ELSE Keep, Keep)
        BY <1>5 DEF Authenticated
    <2>2. /\ outcome \in {"active", "inactive", "forbidden", "unavailable"}
          /\ outcome = "active" => request[r].answer = "active" /\ now < request[r].expires
        BY <1>5, OutcomesAre DEF Authenticated, At
    <2>3. outcome = "active"
        BY <1>2, <2>1, <2>2
    <2> QED BY <1>5, <2>2, <2>3 DEF Authenticated
<1>6. CASE Start(r) \/ Callback(r) \/ Exchange(r)
    BY <1>2, <1>3, <1>6 DEF Start, Callback, Exchange
<1>7. CASE SignIn(r)
    BY <1>2, <1>3, <1>7 DEF SignIn, Rejected
<1>8. CASE Logout(r)
    BY <1>2, <1>3, <1>8 DEF Logout
<1>9. CASE Revoke(r)
    <2>1. PICK result \in {"signed out", "failed"}, token \in {None, Keep} : Responds(r, result, token, None)
        BY <1>9 DEF Revoke
    <2> QED BY <1>2, <2>1
<1> QED BY <1>4, <1>5, <1>6, <1>7, <1>8, <1>9 DEF Ends

\* A session ended at the Portal lets nothing in that comes later than the time of the cache
\* and a round trip after its end, without a cache nothing that comes after it; and what
\* has expired lets nothing in (introspect and its cache), for any requests and delays.
THEOREM EndedSessionsAreOut == SessionSpec => EndedIsOut
<1> DEFINE Served(r) == request[r].at # "back" /\ request'[r].at = "back" /\ request'[r].result = "served"
           Fair(r) == LET session == portal[request[r].token] IN
                         /\ now < session.idle
                         /\ request[r].late =>
                               cacheSeconds > 0 /\ request[r].begun < session.over + cacheSeconds + RoundTrip
<1>1. ASSUME SessionInv, SessionNext, NEW r \in Requests, Served(r) PROVE Fair(r)
    <2> DEFINE q == request[r]
    <2>1. \/ q.at = "come" /\ Cached(q.token)
          \/ At(r, "api", "introspecting") /\ q.answer = "active" /\ now < q.expires
        BY <1>1, ResponsesCome, ServedBy
    <2>2. q \in Calls /\ CallHolds(q)
        BY <1>1, <2>1, CallingIsCall DEF At
    <2>3. now \in Nat /\ q.begun \in Nat /\ q.expires \in Nat /\ cacheSeconds \in Nat
        BY <1>1, <2>2, SpansAreNat DEF Calls, SessionInv, SessionTyped
    <2>4. CASE q.at = "come" /\ Cached(q.token)
        <3>1. /\ q.token \in DOMAIN cache /\ q.token \in DOMAIN portal /\ now < cache[q.token]
              /\ cache[q.token] \in Nat /\ portal[q.token] \in Session
            BY <1>1, <2>4 DEF Cached, SessionInv, SessionTyped
        <3>2. /\ cacheSeconds > 0 /\ cache[q.token] <= portal[q.token].idle
              /\ portal[q.token].over # None =>
                    cache[q.token] <= portal[q.token].over + cacheSeconds + RoundTrip
            BY <1>1, <3>1 DEF SessionInv, CacheHolds
        <3>3. portal[q.token].idle \in Nat /\ portal[q.token].over \in Nat \cup {None}
            BY <3>1 DEF Session
        <3>4. q.begun <= now /\ (q.late => portal[q.token].over # None)
            BY <2>2 DEF CallHolds
        <3>5. now < portal[q.token].idle
            BY <2>3, <3>1, <3>2, <3>3
        <3>6. q.late => q.begun < portal[q.token].over + cacheSeconds + RoundTrip
            BY <2>3, <3>1, <3>2, <3>3, <3>4, SpansAreNat
        <3> QED BY <3>2, <3>5, <3>6
    <2>5. CASE At(r, "api", "introspecting") /\ q.answer = "active" /\ now < q.expires
        <3>1. q.token \in DOMAIN portal /\ ~q.late /\ q.expires <= portal[q.token].idle
            BY <2>2, <2>5 DEF At, CallHolds, Knows
        <3>2. portal[q.token].idle \in Nat
            BY <1>1, <3>1 DEF SessionInv, SessionTyped, Session
        <3> QED BY <2>3, <2>5, <3>1, <3>2
    <2> QED BY <2>1, <2>4, <2>5
<1>2. SessionInv /\ [SessionNext]_sessionVars => [\A r \in Requests : Served(r) => Fair(r)]_sessionVars
    BY <1>1
<1> QED
    BY <1>2, SessionInvariance, PTL DEF SessionSpec, EndedIsOut

\* A sign-in that succeeds leaves the cookie of a session that lived when the Portal was
\* asked; one that fails with a token in hand leaves its session over, or the Portal could
\* not be told (auth_callback_endpoint), for any attempts, requests and delays.
THEOREM SignInsSettle == SessionSpec => SignInSettles
<1> DEFINE Settling(r) == /\ request[r].at \in {"introspecting", "revoking"} /\ request[r].kind = "callback"
                          /\ request'[r].at = "back"
           Fair(r) == LET session == portal[request[r].token] IN
                         IF request'[r].result = "signed in"
                         THEN now < session.idle /\ (session.over # None => session.over >= request[r].asked)
                         ELSE Live(request[r].token) => request[r].answer = "lost"
<1>1. ASSUME SessionInv, SessionNext, NEW r \in Requests, Settling(r) PROVE Fair(r)
    <2> DEFINE q == request[r]
    <2>1. Ends(r)
        BY <1>1, ResponsesCome
    <2>2. q \in Calls /\ CallHolds(q) /\ Knows(q.token)
        BY <1>1, CallingIsCall DEF CallHolds
    <2>3. SignIn(r) \/ Revoke(r)
        BY <1>1, <2>1 DEF Ends, Authenticate, Authenticated, Start, Callback, Exchange, Logout, At
    <2>4. now \in Nat /\ q.asked \in Nat /\ q.expires \in Nat /\ portal[q.token] \in Session
        BY <1>1, <2>2 DEF Calls, Knows, SessionInv, SessionTyped
    <2>5. portal[q.token].idle \in Nat /\ portal[q.token].over \in Nat \cup {None}
        BY <2>4 DEF Session
    <2>6. CASE SignIn(r)
        <3>1. PICK outcome \in Outcomes(r) :
                  IF outcome = "active" THEN Responds(r, "signed in", q.token, None) ELSE Rejected(r)
            BY <2>6 DEF SignIn
        <3>2. outcome = "active" => q.answer = "active" /\ now < q.expires
            BY <1>1, <2>6, OutcomesAre DEF SignIn, At
        <3>3. ~Rejected(r)
            BY <1>1, <2>2, AsksAreNoResponse DEF Rejected
        <3>4. q.answer = "active" /\ now < q.expires /\ Responds(r, "signed in", q.token, None)
            BY <3>1, <3>2, <3>3
        <3>5. request'[r].result = "signed in"
            BY <1>1, <3>4, ResponseIs
        <3>6. /\ q.expires <= portal[q.token].idle
              /\ portal[q.token].over # None => q.asked <= portal[q.token].over
            BY <2>2, <2>6, <3>4 DEF SignIn, At, CallHolds
        <3>7. now < portal[q.token].idle
            <4>1. now < q.expires /\ q.expires <= portal[q.token].idle
                BY <3>4, <3>6
            <4>2. now \in Nat /\ q.expires \in Nat /\ portal[q.token].idle \in Nat
                BY <2>4, <2>5
            <4> QED BY <4>1, <4>2
        <3>8. portal[q.token].over # None => portal[q.token].over >= q.asked
            BY <2>4, <2>5, <3>6
        <3> QED BY <3>5, <3>7, <3>8
    <2>7. CASE Revoke(r)
        <3>1. PICK result \in {"signed out", "failed"}, token \in {None, Keep} : Responds(r, result, token, None)
            BY <2>7 DEF Revoke
        <3>2. request'[r].result # "signed in"
            BY <1>1, <3>1, ResponseIs
        <3>3. Live(q.token) => q.answer = "lost"
            BY <2>2, <2>7 DEF Revoke, CallHolds
        <3> QED BY <3>2, <3>3
    <2> QED BY <2>3, <2>6, <2>7
<1>2. SessionInv /\ [SessionNext]_sessionVars => [\A r \in Requests : Settling(r) => Fair(r)]_sessionVars
    BY <1>1
<1> QED
    BY <1>2, SessionInvariance, PTL DEF SessionSpec, SignInSettles
=============================================================================
