-------------------------- MODULE BoardCollectors --------------------------
(***************************************************************************)
(* How the collectors of src/collectors read one company's job board.      *)
(*                                                                         *)
(* A board is a list of postings that the provider serves whole or a page  *)
(* at a time, and that changes while it is read.  A collector that returns *)
(* says "these are all of the company's jobs" and the refresh deletes the  *)
(* others; one that raises says "unknown" and the refresh keeps them.  So  *)
(* the question is when a returned list may miss a posting.                *)
(*                                                                         *)
(* The collectors of providers with an interface share one loop and differ *)
(* in what they check of a page: each is a record of those checks.  The    *)
(* generic collector, which reads whatever page it is given in a browser,  *)
(* has steps of its own.  Details of a posting never decide whether it is  *)
(* kept (a card of the generic collector that loses its title with its     *)
(* detail page is like one that was not rendered), and are left out.       *)
(***************************************************************************)
EXTENDS Integers, Sequences, FiniteSets, Functions, SequencesExt

CONSTANTS
    Postings,   \* postings that may appear on the board
    Untitled,   \* postings whose title is_valid_structured_job_title refuses
    Nameless,   \* postings without an id or a link of their own
    PageSize,   \* postings the provider sends at a time
    MaxPages,   \* pages a collector reads
    Cap,        \* postings a collector takes
    None,       \* no total seen or stated
    MaxChurn,   \* bound: changes of the board while it is read
    MaxFaults   \* bound: pages that are not what the provider should send

ASSUME CollectorsAssumption ==
    /\ Untitled \subseteq Postings /\ Nameless \subseteq Postings
    /\ IsFiniteSet(Postings)
    /\ {PageSize, MaxPages, Cap} \subseteq Nat \ {0}
    /\ {MaxChurn, MaxFaults} \subseteq Nat
    /\ None \notin Nat

-----------------------------------------------------------------------------
(* What each collector checks.  total: which pages must state the board's  *)
(* total ("first": later ones may leave it out or say 0).  sized: a page   *)
(* longer than asked for is refused.  cap: what is refused above Cap, the  *)
(* total or the postings read.  unique: as many different postings as the  *)
(* total says.  named: a posting without an id is refused, not skipped.    *)

Paged(total, sized, cap, unique) ==
    [paged |-> TRUE, total |-> total, sized |-> sized, cap |-> cap,
     unique |-> unique, named |-> TRUE]

Whole(total, cap, unique, named) ==
    [paged |-> FALSE, total |-> total, sized |-> FALSE, cap |-> cap,
     unique |-> unique, named |-> named]

Workday     == Paged("first", TRUE, "total", TRUE)
Cornerstone == Paged("every", TRUE, "total", TRUE)
Paycom      == Paged("every", TRUE, "total", TRUE)
UKG         == Paged("every", TRUE, "total", TRUE)
Dayforce    == Paged("every", TRUE, "total", TRUE)
UKGReady    == Paged("every", FALSE, "total", FALSE)
ADP         == Paged("every", FALSE, "postings", FALSE)

\* Pages linked to each other, without a total.
ICIMS == [Paged("never", FALSE, "none", FALSE) EXCEPT !.named = FALSE]

ClearCompany == Whole("every", "postings", TRUE, TRUE)
ApplicantPro == Whole("every", "postings", FALSE, TRUE)
Paylocity    == Whole("never", "postings", FALSE, TRUE)
Paycor       == Whole("never", "none", FALSE, FALSE)

Collectors == {Workday, Cornerstone, Paycom, UKG, Dayforce, UKGReady, ADP, ICIMS,
               ClearCompany, ApplicantPro, Paylocity, Paycor}

\* The collector of every other site: what it has is what a browser rendered.
Generic == Whole("rendered", "none", FALSE, FALSE)

VARIABLES
    collector, \* the checks of the collector at work, or Generic
    board,     \* the provider's list
    status,    \* reading; or how the collection ended
    page,      \* pages read so far
    fetched,   \* postings received so far
    expected,  \* the total the first page stated
    seen,      \* ids received so far
    jobs,      \* what the collector returns, or hands over with its error
    \* history
    kept,      \* postings on the board ever since the collection began
    churned,   \* what happened to the board since
    \* bounds
    churn, faults

world == <<board, kept, churned, churn>>
found == <<status, page, fetched, expected, seen, jobs>>
vars == <<collector, world, found, faults>>

TypeOK ==
    /\ collector \in Collectors \cup {Generic}
    /\ board \in Seq(Postings) /\ IsInjective(board)
    /\ status \in {"reading", "returned", "partial", "failed"}
    /\ page \in 0..MaxPages
    /\ fetched \in 0..(MaxPages * Cardinality(Postings))
    /\ expected \in 0..Cardinality(Postings) \cup {None}
    /\ seen \subseteq Postings
    /\ jobs \subseteq seen \ (Untitled \cup Nameless)
    /\ kept \subseteq Range(board)
    /\ churned \subseteq {"added", "removed", "moved"}
    /\ churn \in 0..MaxChurn
    /\ faults \in 0..MaxFaults

Init ==
    /\ collector \in Collectors \cup {Generic}
    /\ board \in {b \in BoundedSeq(Postings, Cardinality(Postings)) : IsInjective(b)}
    /\ status = "reading"
    /\ page = 0 /\ fetched = 0 /\ expected = None
    /\ seen = {} /\ jobs = {}
    /\ kept = Range(board) /\ churned = {}
    /\ churn = 0 /\ faults = 0

-----------------------------------------------------------------------------
(* The board, while it is read.                                            *)

Change(how) ==
    /\ status = "reading" /\ page > 0 /\ churn < MaxChurn
    /\ churn' = churn + 1
    /\ churned' = churned \cup {how}
    /\ UNCHANGED <<collector, found, faults>>

Add(p, i) ==
    /\ p \notin Range(board)
    /\ board' = InsertAt(board, i, p)
    /\ kept' = kept
    /\ Change("added")

Take(i) ==
    /\ board' = RemoveAt(board, i)
    /\ kept' = kept \ {board[i]}
    /\ Change("removed")

Move(i, k) ==
    /\ i # k
    /\ board' = InsertAt(RemoveAt(board, i), k, board[i])
    /\ kept' = kept
    /\ Change("moved")

-----------------------------------------------------------------------------
(* One page of a structured board.                                         *)

\* Where the next page starts.  ADP counts postings, the others pages.
Offset ==
    CASE collector = ADP -> fetched
      [] OTHER           -> page * PageSize

After(k) == SubSeq(board, k + 1, Len(board))
Due == IF collector.paged THEN SubSeq(board, Offset + 1, Min({Offset + PageSize, Len(board)}))
                          ELSE board

Cut(rows) == {SubSeq(rows, 1, k) : k \in 0..(Len(rows) - 1)}

\* What the provider sends: what is due; or, when it misbehaves, a part of it, or
\* all that is left.
Answers ==
    {<<Due, 0>>} \cup ((Cut(Due) \cup {After(Offset)}) \X (IF faults < MaxFaults THEN {1} ELSE {}))

\* The total it states with it.
Totals ==
    CASE collector.total = "never" -> {None}
      [] collector.total = "first" /\ page > 0 -> {Len(board), 0, None}
      [] OTHER -> {Len(board)}

\* The total that counts once this page is there.
Want(total) == IF expected = None THEN total ELSE expected

TotalRefused(total) ==
    \/ expected = None /\ collector.cap = "total" /\ total > Cap
    \/ expected # None /\ total # expected
          /\ ~(collector.total = "first" /\ total \in {0, None})

\* Fewer postings than the total although no page is left to come, or more.
CountRefused(rows, total) ==
    LET n == fetched + Len(rows)
    IN  \/ n > Want(total)
        \/ n < Want(total) /\ (~collector.paged \/ Len(rows) < PageSize)

Refused(rows, total) ==
    \/ collector.total # "never" /\ (TotalRefused(total) \/ CountRefused(rows, total))
    \/ collector.sized /\ Len(rows) > PageSize
    \/ collector.cap = "postings" /\ fetched + Len(rows) > Cap
    \/ collector.named /\ Range(rows) \cap Nameless # {}

\* The last page: all postings the total promised are there, or nothing tells of
\* another page.
FinalPage(rows, total) ==
    IF collector.total = "never" THEN ~collector.paged \/ Offset + PageSize >= Len(board)
                                 ELSE fetched + Len(rows) = Want(total)

\* Mutant of Incomplete: duplicates count towards the total.
DuplicatesCount(ids, total) == FALSE

\* Duplicates were skipped; some collectors count what is left against the total.
Incomplete(ids, total) == collector.unique /\ Cardinality(ids) # Want(total)

\* The collector reads no further page.
Exhausted ==
    \/ page' = MaxPages
    \/ collector.cap = "postings" /\ fetched' >= Cap

Fetch(rows, total) ==
    /\ page' = page + 1
    /\ fetched' = fetched + Len(rows)
    /\ expected' = Want(total)
    /\ seen' = seen \cup Range(rows)
    /\ jobs' = jobs \cup (Range(rows) \ (Untitled \cup Nameless))
    /\ status' = IF \/ Refused(rows, total)
                    \/ ~FinalPage(rows, total) /\ Exhausted
                    \/ FinalPage(rows, total) /\ Incomplete(seen', total)
                 THEN "failed"
                 ELSE IF FinalPage(rows, total) THEN "returned" ELSE "reading"
    /\ UNCHANGED <<collector, world>>

FetchPage ==
    /\ status = "reading" /\ collector # Generic
    /\ \E answer \in Answers, total \in Totals :
          /\ Fetch(answer[1], total)
          /\ faults' = faults + answer[2]

\* A request fails: the collection ends without a result.
FetchFails ==
    /\ status = "reading" /\ collector # Generic
    /\ status' = "failed"
    /\ UNCHANGED <<collector, world, page, fetched, expected, seen, jobs, faults>>

-----------------------------------------------------------------------------
(* The generic collector: one page, rendered in a browser.                 *)

\* What came of rendering: a list of jobs, a page without one, the shell of an
\* application that did not start, an error page.
Views == {"list", "plain", "shell", "error"}

\* The cards of a rendered list: all, or those there when the page was read.
Cards(view) ==
    IF view # "list" THEN {<<>>}
    ELSE {board} \cup (IF faults < MaxFaults THEN Cut(board) ELSE {})

\* Cards with a title and a link of their own become jobs; dedupe_jobs keeps the
\* first Cap of them.
Parsed(cards) ==
    LET fit == {i \in DOMAIN cards : cards[i] \notin Untitled \cup Nameless}
    IN  {cards[i] : i \in {k \in fit : Cardinality(fit \cap 1..k) <= Cap}}

\* zero_result_uncertainty: nothing was found, and the page neither says that there
\* is nothing nor shows a list that is empty.
Uncertain(view, saysNone) == view = "error" \/ (~saysNone /\ view # "list")

Render(view, cards, saysNone) ==
    /\ page' = 1
    /\ fetched' = Len(cards)
    /\ seen' = Range(cards)
    /\ jobs' = Parsed(cards)
    /\ status' = IF jobs' = {} /\ Uncertain(view, saysNone) THEN "failed" ELSE "returned"
    /\ faults' = faults + (IF view = "list" /\ cards # board THEN 1 ELSE 0)
    /\ UNCHANGED <<collector, world, expected>>

\* A page that says there are no openings has none.
RenderPage ==
    /\ status = "reading" /\ collector = Generic
    /\ \E view \in Views, saysNone \in {FALSE, board = <<>>} :
          \E cards \in Cards(view) : Render(view, cards, saysNone)

\* The browser fails.  What a plain request still finds is handed over with the error,
\* unless that fails too.
RenderFails ==
    /\ status = "reading" /\ collector = Generic
    /\ \/ status' = "failed" /\ UNCHANGED <<page, fetched, seen, jobs>>
       \/ \E cards \in Cut(board) \cup {board} :
             /\ page' = 1 /\ fetched' = Len(cards)
             /\ seen' = Range(cards)
             /\ jobs' = Parsed(cards)
             /\ status' = "partial"
    /\ UNCHANGED <<collector, world, expected, faults>>

-----------------------------------------------------------------------------
Churn ==
    \/ \E p \in Postings, i \in 1..(Len(board) + 1) : Add(p, i)
    \/ \E i \in 1..Len(board) : Take(i)
    \/ \E i, k \in 1..Len(board) : Move(i, k)

\* A collection that is over stays as it is.
Over == status # "reading" /\ UNCHANGED vars

Next == Churn \/ FetchPage \/ FetchFails \/ RenderPage \/ RenderFails \/ Over

Spec == Init /\ [][Next]_vars

-----------------------------------------------------------------------------
(* Properties.                                                             *)

\* The jobs a reader of the board finds on it all along.
Listed == kept \ Untitled

\* The total cannot tell: an addition made up for a removal, or came while Workday
\* leaves the total out; or nothing counts ids and postings changed their places.
Undetectable ==
    \/ "added" \in churned /\ ("removed" \in churned \/ collector.total = "first")
    \/ "moved" \in churned /\ ~collector.unique

\* "Equality is what makes a result -- including an empty one -- a complete view"
\* (applicantpro_collector.py:216): on a board that states its total, a collector that
\* returns missed nothing, whatever the provider cut off or sent too much of and
\* however the board changed meanwhile, unless the change is undetectable.
NothingMissed ==
    status = "returned" /\ collector.total \in {"every", "first"} /\ ~Undetectable
        => Listed \subseteq jobs

\* "Raised when a refresh is blocked, incomplete, or uncertain -- e.g. ... nothing
\* rendered" (job_tools.py:34): a collector that reads what a browser rendered does
\* not return an empty list for a board that has had jobs with links on it all along.
NoUncertainZero ==
    status = "returned" /\ collector \in {Paycor, Generic} /\ jobs = {}
        => Listed \subseteq Nameless
=============================================================================
