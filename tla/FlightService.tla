---------------------------- MODULE FlightService ----------------------------
(***************************************************************************)
(* The Flight Service: pages of the list of flights, and single flights,   *)
(* read over the repository's connection.  It writes nothing.              *)
(***************************************************************************)
EXTENDS Connection, Integers, Sequences

CONSTANTS
    Tables,         \* the possible contents of table flight, in the order of the listing
    Pages, Sizes,   \* the numbers that requests ask for
    Numbers,        \* the flight numbers that requests ask for
    SizeLimit,      \* largest page size, 100 in the code
    IntSpan,        \* values of an unsigned, 2^32
    LongSpan        \* values of an unsigned long, 2^64

VARIABLES
    table,      \* flight numbers, ascending
    request,    \* each worker's last request
    answer      \* and its answer, NoAnswer before it is given

vars == <<connVars, table, request, answer>>

\* int and unsigned hold what requests ask for and the number of flights, and
\* an Int64, half of whose values are negative, the product of one and a page size.
ASSUME FlightAssumption ==
    /\ SizeLimit \in Nat /\ IntSpan \in Nat /\ LongSpan \in Nat
    /\ SizeLimit < IntSpan /\ 2 * IntSpan * SizeLimit < LongSpan
    /\ Pages \subseteq -IntSpan..(IntSpan - 1) /\ Sizes \subseteq -IntSpan..(IntSpan - 1)
    /\ \A t \in Tables : t \in Seq(Numbers) /\ Len(t) < IntSpan

NoAnswer == [status |-> "none"]

\* Mutant of Failure: a status of the gateway's.
FailureUnknown(status) == [status |-> "503"]

Failure(status) == [status |-> status]

LeastOf(a, b) == IF a <= b THEN a ELSE b

\* Mutant of LastPage: a full last page counts twice.
LastPageFull(n, size) == n \div size + 1

\* (flights.size() - 1) / pageSize + 1, in unsigned long.
LastPage(n, size) == (((n - 1) % LongSpan) \div size + 1) % LongSpan

PageShown(n, page, size) == LeastOf(LastPage(n, size), page)

\* Where the loop starts: an Int64 that is stored in an unsigned.
First(shown, size) == ((shown - 1) * size) % IntSpan

Bound(n, shown, size) == LeastOf(shown * size, n)

\* The body of FlightsGetPoint's try block, for flights listed in t.
Listing(t, page, size) ==
    LET shown == PageShown(Len(t), page, size)
    IN  [status |-> "200", page |-> shown,
         items |-> {t[i + 1] : i \in First(shown, size)..(Bound(Len(t), shown, size) - 1)}]

\* FlightGetPoint: no row is an exception of the repository.
Found(t, number) ==
    IF \E i \in 1..Len(t) : t[i] = number
    THEN [status |-> "200", items |-> {number}]
    ELSE Failure("500")

Result(r) == IF r.kind = "list" THEN Listing(table, r.page, r.size) ELSE Found(table, r.number)

Init ==
    /\ ConnInit
    /\ table \in Tables
    /\ request = [w \in Workers |-> [kind |-> "none"]]
    /\ answer = [w \in Workers |-> NoAnswer]

ValidPage(page, size) == page >= 1 /\ size >= 1 /\ size <= SizeLimit

\* A request for a page that passes the checks of FlightsGetPoint.
FlightsGetPoint(w) ==
    /\ Begin(w)
    /\ \E page \in Pages, size \in Sizes :
          /\ ValidPage(page, size)
          /\ request' = [request EXCEPT ![w] = [kind |-> "list", page |-> page, size |-> size]]
    /\ answer' = [answer EXCEPT ![w] = NoAnswer]
    /\ UNCHANGED table

\* One that does not, or an empty flight number: 400, or the framework's 500 when
\* std::stoi throws.
Reject(w) ==
    /\ process = "running"
    /\ step[w] = "idle"
    /\ request' = [request EXCEPT ![w] = [kind |-> "invalid"]]
    /\ \/ /\ \E page \in Pages, size \in Sizes : ~ValidPage(page, size)
          /\ answer' = [answer EXCEPT ![w] = Failure("400")]
       \/ answer' = [answer EXCEPT ![w] = Failure("500")]
    /\ UNCHANGED <<connVars, table>>

FlightGetPoint(w) ==
    /\ Begin(w)
    /\ \E number \in Numbers :
          request' = [request EXCEPT ![w] = [kind |-> "one", number |-> number]]
    /\ answer' = [answer EXCEPT ![w] = NoAnswer]
    /\ UNCHANGED table

\* The statement succeeds and its rows are the answer.
Reply(w) ==
    /\ Query(w)
    /\ answer' = [answer EXCEPT ![w] = Result(request[w])]
    /\ UNCHANGED <<table, request>>

\* DatabaseException is caught by the handlers.
ReplyFailure(w) ==
    /\ ConnectRefused(w) \/ QueryFails(w)
    /\ answer' = [answer EXCEPT ![w] = Failure("500")]
    /\ UNCHANGED <<table, request>>

Unanswered(w) ==
    /\ Reopening(w) \/ Crash(w)
    /\ UNCHANGED <<table, request, answer>>

Around == Surroundings /\ UNCHANGED <<table, request, answer>>

Serve(w) == Reply(w) \/ ReplyFailure(w) \/ Unanswered(w)

Arrive(w) == FlightsGetPoint(w) \/ Reject(w) \/ FlightGetPoint(w)

Next == Around \/ \E w \in Workers : Arrive(w) \/ Serve(w)

Spec == Init /\ [][Next]_vars

\* Threads run, libpq's calls return, and docker starts what has ended.
Fairness ==
    /\ WF_vars(Start /\ UNCHANGED <<table, request, answer>>)
    /\ WF_vars(Restart /\ UNCHANGED <<table, request, answer>>)
    /\ \A w \in Workers : WF_vars(Serve(w))

FairSpec == Spec /\ Fairness
-----------------------------------------------------------------------------
Requests ==
    [kind : {"none", "invalid"}]
        \cup [kind : {"list"}, page : Pages, size : Sizes]
        \cup [kind : {"one"}, number : Numbers]

Answers ==
    [status : {"none", "400", "500"}]
        \cup [status : {"200"}, page : Nat, items : SUBSET Numbers]
        \cup [status : {"200"}, items : SUBSET Numbers]

TypeOK ==
    /\ ConnTypeOK
    /\ table \in Tables
    /\ request \in [Workers -> Requests]
    /\ answer \in [Workers -> Answers]

\* The page that the i-th flight is on, when pages have this size.
OnPage(i, size) == (i - 1) \div size + 1

\* Page p of a listing, by what a page is.
ItemsOf(t, p, size) == {t[i] : i \in {j \in 1..Len(t) : OnPage(j, size) = p}}

\* The last page that has flights and is not behind the one asked for.
IsNearest(t, p, page, size) ==
    /\ p <= page
    /\ \E i \in 1..Len(t) : OnPage(i, size) = p
    /\ \A i \in 1..Len(t) : OnPage(i, size) <= page => OnPage(i, size) <= p

\* FlightsGetPoint, in integers of whatever width: the answer is the page asked for,
\* and the last page if there are not so many; it names its page, and has no items if
\* there are no flights.  So nobody who reads page after page misses a flight or gets
\* one twice.
PagesAreSlices ==
    \A w \in Workers :
        (request[w].kind = "list" /\ answer[w].status = "200") =>
            LET r == request[w]
                a == answer[w]
            IN  /\ a.items = ItemsOf(table, a.page, r.size)
                /\ table # <<>> => IsNearest(table, a.page, r.page, r.size)
=============================================================================
