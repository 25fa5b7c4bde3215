----------------------------- MODULE FlightProofs -----------------------------
(***************************************************************************)
(* Proofs about FlightService: the pages it answers with are slices of the *)
(* list, and what its connection does when one request is served at a time. *)
(***************************************************************************)
EXTENDS FlightService, TLAPS

-----------------------------------------------------------------------------
(* Integer division and the width of integers.                             *)

LEMMA Division ==
    ASSUME NEW m \in Nat, NEW d \in Nat, d > 0
    PROVE  m \div d \in Nat /\ (m \div d) * d <= m /\ m < (m \div d) * d + d
  BY SMT

LEMMA DivisionInverse ==
    ASSUME NEW m \in Nat, NEW k \in Nat, NEW d \in Nat, d > 0
    PROVE  m \div d = k <=> k * d <= m /\ m < k * d + d
  BY Division, SMT

LEMMA DivisionMonotone ==
    ASSUME NEW m \in Nat, NEW k \in Nat, NEW d \in Nat, d > 0, m <= k
    PROVE  m \div d <= k \div d
  BY Division, SMT

LEMMA Fits ==
    ASSUME NEW span \in Nat, NEW a \in 0..(span - 1)
    PROVE  a % span = a
  BY SMT

LEMMA Wraps ==
    ASSUME NEW span \in Nat, span > 0, NEW a \in Int
    PROVE  a % span \in 0..(span - 1)
  BY SMT

\* What the proofs below need of the constants.
LEMMA Widths ==
    /\ SizeLimit \in Nat /\ IntSpan \in Nat /\ LongSpan \in Nat
    /\ SizeLimit > 0 => IntSpan < LongSpan
    /\ \A t \in Tables : Len(t) \in Nat /\ Len(t) < IntSpan
  <1>1. SizeLimit \in Nat /\ IntSpan \in Nat /\ LongSpan \in Nat /\ 2 * IntSpan * SizeLimit < LongSpan
    BY FlightAssumption DEF FlightAssumption
  <1>2. SizeLimit > 0 => IntSpan <= 2 * IntSpan * SizeLimit
    BY <1>1, SMT
  <1> QED
    BY <1>1, <1>2, FlightAssumption DEF FlightAssumption

-----------------------------------------------------------------------------
(* Pages.                                                                  *)

LEMMA EmptyListing ==
    ASSUME NEW t \in Tables, NEW page \in Nat, NEW size \in 1..SizeLimit, Len(t) = 0
    PROVE  Listing(t, page, size).items = {} /\ Listing(t, page, size).page \in Nat
  <1> DEFINE shown == PageShown(0, page, size)
  <1>1. LongSpan > 0 /\ IntSpan > 0
    BY Widths
  <1>2. LastPage(0, size) \in Nat
    BY <1>1, Widths, Wraps, Division, SMT DEF LastPage
  <1>3. shown \in Nat
    BY <1>2 DEF PageShown, LeastOf
  <1> HIDE DEF shown
  <1>4. shown * size \in Nat /\ (shown - 1) * size \in Int
    BY <1>3, SMT
  <1>5. Bound(0, shown, size) = 0
    BY <1>4, SMT DEF Bound, LeastOf
  <1>6. First(shown, size) \in Nat
    BY <1>1, <1>4, Widths, Wraps DEF First
  <1>7. First(shown, size)..(0 - 1) = {}
    BY <1>6, SMT
  <1> QED
    BY <1>3, <1>5, <1>7 DEF Listing, shown

\* Of a list that is not empty: which page is answered, and from where to where it goes.
LEMMA PageBounds ==
    ASSUME NEW n \in Nat, 0 < n, n < IntSpan, NEW page \in Nat, page >= 1, NEW size \in 1..SizeLimit
    PROVE  LET shown == PageShown(n, page, size)
           IN  /\ shown \in Nat /\ shown >= 1 /\ shown <= page
               /\ shown <= (n - 1) \div size + 1
               /\ shown = page \/ shown = (n - 1) \div size + 1
               /\ First(shown, size) = (shown - 1) * size
               /\ (shown - 1) * size <= n - 1
  <1> DEFINE q == (n - 1) \div size
             shown == PageShown(n, page, size)
  <1>1. n - 1 \in Nat /\ size \in Nat /\ size > 0 /\ IntSpan < LongSpan
    BY Widths, SMT
  <1>2. q \in Nat /\ q * size <= n - 1
    BY <1>1, Division
  <1>3. q <= n - 1
    BY <1>1, <1>2, SMT
  <1>4. (n - 1) % LongSpan = n - 1
    BY <1>1, Widths, Fits, SMT
  <1> HIDE DEF q
  <1>5. (q + 1) % LongSpan = q + 1
    BY <1>1, <1>2, <1>3, Widths, Fits, SMT
  <1>6. LastPage(n, size) = q + 1
    BY <1>4, <1>5 DEF LastPage, q
  <1>7. shown \in Nat /\ shown >= 1 /\ shown <= page /\ shown <= q + 1 /\ (shown = page \/ shown = q + 1)
    BY <1>2, <1>6, SMT DEF PageShown, LeastOf
  <1> HIDE DEF shown
  <1>8. (shown - 1) * size \in Nat /\ (shown - 1) * size <= q * size
    BY <1>1, <1>2, <1>7, SMT
  <1>9. (shown - 1) * size <= n - 1
    BY <1>1, <1>2, <1>8, SMT
  <1>10. First(shown, size) = (shown - 1) * size
    BY <1>1, <1>8, <1>9, Widths, Fits, SMT DEF First
  <1> QED
    BY <1>7, <1>9, <1>10 DEF q, shown

LEMMA ListingIsSlice ==
    ASSUME NEW t \in Tables, NEW page \in Nat, page >= 1, NEW size \in 1..SizeLimit, Len(t) > 0
    PROVE  LET a == Listing(t, page, size)
           IN  a.items = ItemsOf(t, a.page, size) /\ IsNearest(t, a.page, page, size) /\ a.page \in Nat
  <1> DEFINE n == Len(t)
             q == (n - 1) \div size
             shown == PageShown(n, page, size)
  <1>1. n \in Nat /\ n > 0 /\ n < IntSpan /\ size \in Nat /\ size > 0
    BY Widths, SMT
  <1>2. /\ shown \in Nat /\ shown >= 1 /\ shown <= page /\ shown <= q + 1
        /\ shown = page \/ shown = q + 1
        /\ First(shown, size) = (shown - 1) * size
        /\ (shown - 1) * size <= n - 1
    BY <1>1, PageBounds
  <1>3. Listing(t, page, size).page = shown
    BY DEF Listing
  <1>4. Listing(t, page, size).items
            = {t[i + 1] : i \in First(shown, size)..(Bound(n, shown, size) - 1)}
    BY DEF Listing
  <1> HIDE DEF n, shown
  <1>5. shown * size = (shown - 1) * size + size /\ (shown - 1) * size \in Nat
    BY <1>1, <1>2, SMT
  <1>6. ASSUME NEW i \in 1..n
        PROVE  OnPage(i, size) = shown
                   <=> i - 1 \in First(shown, size)..(Bound(n, shown, size) - 1)
    <2>1. i - 1 \in Nat /\ shown - 1 \in Nat
      BY <1>2, SMT
    <2>2. (i - 1) \div size = shown - 1
              <=> (shown - 1) * size <= i - 1 /\ i - 1 < (shown - 1) * size + size
      BY <1>1, <2>1, DivisionInverse
    <2>3. (i - 1) \div size \in Nat
      BY <1>1, <2>1, Division
    <2> QED
      BY <1>1, <1>2, <1>5, <2>1, <2>2, <2>3, SMT DEF OnPage, Bound, LeastOf
  <1>7. First(shown, size)..(Bound(n, shown, size) - 1) \subseteq 0..(n - 1)
    BY <1>1, <1>2, <1>5, SMT DEF Bound, LeastOf
  <1>8. Listing(t, page, size).items = ItemsOf(t, shown, size)
    <2> DEFINE I == First(shown, size)..(Bound(n, shown, size) - 1)
    <2>1. \A i \in I : i \in Int /\ i + 1 \in 1..n /\ (i + 1) - 1 = i
      BY <1>1, <1>7, SMT
    <2>2. \A j \in 1..n : j \in Int /\ (j - 1) + 1 = j
      BY <1>1, SMT
    <2>3. \A i \in I : OnPage(i + 1, size) = shown
      BY <1>6, <2>1
    <2>4. \A j \in 1..n : OnPage(j, size) = shown => j - 1 \in I
      BY <1>6
    <2> HIDE DEF I
    <2>5. {t[i + 1] : i \in I} = {t[i] : i \in {j \in 1..n : OnPage(j, size) = shown}}
      BY <2>1, <2>2, <2>3, <2>4, Zenon
    <2> QED
      BY <1>4, <2>5 DEF ItemsOf, I, n
  <1>9. IsNearest(t, shown, page, size)
    <2>1. \E i \in 1..n : OnPage(i, size) = shown
      <3> DEFINE i == (shown - 1) * size + 1
      <3>1. i \in 1..n /\ i - 1 = (shown - 1) * size
        BY <1>1, <1>2, <1>5, SMT
      <3>2. (i - 1) \div size = shown - 1
        BY <1>1, <1>2, <1>5, <3>1, DivisionInverse, SMT
      <3> QED
        BY <1>2, <3>1, <3>2, SMT DEF OnPage
    <2>2. ASSUME NEW i \in 1..n, OnPage(i, size) <= page PROVE OnPage(i, size) <= shown
      <3>1. (i - 1) \div size <= q /\ (i - 1) \div size \in Nat /\ q \in Nat
        BY <1>1, DivisionMonotone, Division, SMT
      <3> HIDE DEF q
      <3> QED
        BY <1>1, <1>2, <2>2, <3>1, SMT DEF OnPage
    <2> QED
      BY <1>2, <2>1, <2>2 DEF IsNearest, n
  <1> QED
    BY <1>2, <1>3, <1>8, <1>9

-----------------------------------------------------------------------------
(* The service's state.                                                    *)

\* A worker that reads has a request that passed the checks.
Checked ==
    \A w \in Workers : step[w] # "idle" =>
        /\ request[w].kind \in {"list", "one"}
        /\ request[w].kind = "list" => ValidPage(request[w].page, request[w].size)

ServiceInv == TypeOK /\ Checked /\ PagesAreSlices

LEMMA PagesAreIntegers == Pages \subseteq Int /\ Sizes \subseteq Int
  <1>1. IntSpan \in Nat
    BY FlightAssumption DEF FlightAssumption
  <1> QED
    BY <1>1, FlightAssumption, SMT DEF FlightAssumption

\* What a valid request for a page is answered with.
LEMMA ListingSound ==
    ASSUME NEW t \in Tables, NEW page \in Pages, NEW size \in Sizes, ValidPage(page, size)
    PROVE  LET a == Listing(t, page, size)
           IN  /\ a \in Answers
               /\ a.items = ItemsOf(t, a.page, size)
               /\ t # <<>> => IsNearest(t, a.page, page, size)
  <1> DEFINE a == Listing(t, page, size)
  <1>1. page \in Nat /\ page >= 1 /\ size \in 1..SizeLimit
    BY PagesAreIntegers, Widths, SMT DEF ValidPage
  <1>2. t \in Seq(Numbers) /\ Len(t) \in Nat
    BY FlightAssumption, Widths DEF FlightAssumption
  <1>3. t # <<>> => Len(t) > 0
    BY <1>2, SMT
  <1>4. a.page \in Nat /\ a.items = ItemsOf(t, a.page, size) /\ (t # <<>> => IsNearest(t, a.page, page, size))
    <2>1. CASE Len(t) > 0
      BY <1>1, <2>1, ListingIsSlice
    <2>2. CASE Len(t) = 0
      BY <1>1, <1>2, <1>3, <2>2, EmptyListing, SMT DEF ItemsOf
    <2> QED
      BY <1>2, <2>1, <2>2, SMT
  <1>5. ItemsOf(t, a.page, size) \in SUBSET Numbers
    BY <1>2 DEF ItemsOf
  <1>6. a = [status |-> "200", page |-> a.page, items |-> a.items]
    BY DEF Listing
  <1> HIDE DEF a
  <1>7. a \in Answers
    BY <1>4, <1>5, <1>6 DEF Answers
  <1> QED
    BY <1>4, <1>7 DEF a

\* The connection's steps keep its types, and only Begin leaves a worker that was idle
\* in the middle of a request.
LEMMA ConnectionStep ==
    ASSUME ConnTypeOK,
           \/ Surroundings
           \/ \E w \in Workers : Begin(w) \/ WorkerStep(w)
    PROVE  ConnTypeOK'
  <1> USE DEF ConnTypeOK, Conns, GoTo
  <1>1. ASSUME Ended PROVE ConnTypeOK'
    <2>1. step' = [w \in Workers |-> "idle"] /\ database' = database /\ process' = "ended" /\ conn' = "none"
      BY <1>1 DEF Ended
    <2>2. step' \in [Workers -> {"idle", "check", "finish", "connect", "query"}]
      BY <2>1
    <2>3. lost' \in 0..LostBound
      BY <1>1 DEF Ended, LostBound
    <2>4. refused' \in BOOLEAN
      BY <1>1, Zenon DEF Ended
    <2> QED
      BY <2>1, <2>2, <2>3, <2>4
  <1>2. CASE Start
    BY <1>2 DEF Start
  <1>3. CASE Restart \/ DatabaseStops \/ DatabaseStarts
    BY <1>3 DEF Restart, DatabaseStops, DatabaseStarts, LostBound
  <1>4. ASSUME NEW w \in Workers, Begin(w) PROVE ConnTypeOK'
    BY <1>4 DEF Begin
  <1>5. ASSUME NEW w \in Workers, Reopening(w) PROVE ConnTypeOK'
    BY <1>5 DEF Reopening, Check, Finish, Connect, AfterStatus, Reopened
  <1>6. ASSUME NEW w \in Workers, ConnectRefused(w) \/ Query(w) PROVE ConnTypeOK'
    BY <1>6 DEF ConnectRefused, Query
  <1>7. ASSUME NEW w \in Workers, QueryFails(w) PROVE ConnTypeOK'
    BY <1>7 DEF QueryFails, Counted, LostBound
  <1> QED
    BY <1>1, <1>2, <1>3, <1>4, <1>5, <1>6, <1>7 DEF Surroundings, ServiceStops, Crash, WorkerStep

\* Who is idle after such a step, or reads what it was about to read before.
LEMMA NobodyBegins ==
    ASSUME ConnTypeOK, Surroundings \/ \E w \in Workers : WorkerStep(w),
           NEW v \in Workers, step'[v] # "idle"
    PROVE  step[v] # "idle"
  <1>1. CASE Start \/ Restart \/ DatabaseStops \/ DatabaseStarts
    BY <1>1 DEF Start, Restart, DatabaseStops, DatabaseStarts
  <1>2. ~Ended
    BY DEF Ended
  <1>3. ASSUME NEW w \in Workers, WorkerStep(w) PROVE step[v] # "idle"
    BY <1>2, <1>3 DEF WorkerStep, Reopening, Check, Finish, Connect, ConnectRefused, Query, QueryFails,
                      Crash, GoTo, ConnTypeOK
  <1> QED
    BY <1>1, <1>2, <1>3 DEF Surroundings, ServiceStops

LEMMA ServiceInit == Init => ServiceInv
  <1> SUFFICES ASSUME Init PROVE ServiceInv
    OBVIOUS
  <1>1. ConnTypeOK
    <2>1. refused \in BOOLEAN
      BY Zenon DEF Init, ConnInit
    <2> QED
      BY <2>1 DEF Init, ConnInit, ConnTypeOK, Conns, LostBound
  <1>2. request \in [Workers -> Requests] /\ \A w \in Workers : request[w].kind = "none"
    BY DEF Init, Requests
  <1>3. answer \in [Workers -> Answers]
    BY DEF Init, Answers, NoAnswer
  <1>4. \A w \in Workers : step[w] = "idle"
    BY DEF Init, ConnInit
  <1> QED
    BY <1>1, <1>2, <1>3, <1>4 DEF Init, ServiceInv, TypeOK, Checked, PagesAreSlices

\* A request that arrives.
LEMMA ArrivalKeeps ==
    ASSUME ServiceInv, NEW w \in Workers, Arrive(w)
    PROVE  ServiceInv'
  <1> USE DEF ServiceInv, TypeOK
  <1>1. PICK r \in Requests, a \in Answers :
            /\ request' = [request EXCEPT ![w] = r]
            /\ answer' = [answer EXCEPT ![w] = a]
            /\ a.status # "200"
            /\ \/ Begin(w) /\ r.kind \in {"list", "one"} /\ (r.kind = "list" => ValidPage(r.page, r.size))
               \/ UNCHANGED connVars
    <2>1. NoAnswer \in Answers /\ NoAnswer.status # "200"
      BY DEF NoAnswer, Answers
    <2>2. \A status \in {"400", "500"} : Failure(status) \in Answers /\ Failure(status).status # "200"
      BY DEF Failure, Answers
    <2>3. CASE FlightsGetPoint(w)
      <3>1. PICK page \in Pages, size \in Sizes :
                /\ ValidPage(page, size)
                /\ request' = [request EXCEPT ![w] = [kind |-> "list", page |-> page, size |-> size]]
        BY <2>3 DEF FlightsGetPoint
      <3>2. [kind |-> "list", page |-> page, size |-> size] \in Requests
        BY DEF Requests
      <3> QED
        BY <2>1, <2>3, <3>1, <3>2 DEF FlightsGetPoint
    <2>4. CASE Reject(w)
      BY <2>2, <2>4 DEF Reject, Requests
    <2>5. CASE FlightGetPoint(w)
      <3>1. PICK number \in Numbers : request' = [request EXCEPT ![w] = [kind |-> "one", number |-> number]]
        BY <2>5 DEF FlightGetPoint
      <3>2. [kind |-> "one", number |-> number] \in Requests
        BY DEF Requests
      <3> QED
        BY <2>1, <2>5, <3>1, <3>2 DEF FlightGetPoint
    <2> QED
      BY <2>3, <2>4, <2>5 DEF Arrive
  <1>2. ConnTypeOK' /\ table' = table
    <2>1. table' = table
      BY DEF Arrive, FlightsGetPoint, Reject, FlightGetPoint
    <2>2. UNCHANGED connVars => ConnTypeOK'
      BY DEF connVars, ConnTypeOK
    <2> QED
      BY <1>1, <2>1, <2>2, ConnectionStep
  <1>3. \A v \in Workers : v # w => step'[v] = step[v] /\ request'[v] = request[v] /\ answer'[v] = answer[v]
    BY <1>1 DEF Begin, GoTo, connVars, ConnTypeOK
  <1>4. request'[w] = r /\ answer'[w] = a /\ (UNCHANGED connVars => step'[w] = step[w])
    BY <1>1 DEF connVars
  <1>5. step'[w] # "idle" => r.kind \in {"list", "one"} /\ (r.kind = "list" => ValidPage(r.page, r.size))
    <2>1. step[w] = "idle"
      BY DEF Arrive, FlightsGetPoint, Reject, FlightGetPoint, Begin
    <2> QED
      BY <1>1, <1>4, <2>1
  <1>6. Checked'
    BY <1>3, <1>4, <1>5 DEF Checked
  <1>7. PagesAreSlices'
    BY <1>1, <1>2, <1>3, <1>4 DEF PagesAreSlices
  <1> QED
    BY <1>1, <1>2, <1>6, <1>7

\* Anything else: an answer, or none.
LEMMA OtherStepKeeps ==
    ASSUME ServiceInv, Around \/ \E w \in Workers : Serve(w)
    PROVE  ServiceInv'
  <1> USE DEF ServiceInv, TypeOK
  <1>1. table' = table /\ request' = request
    BY DEF Around, Serve, Reply, ReplyFailure, Unanswered
  <1>2. Surroundings \/ \E w \in Workers : WorkerStep(w)
    BY DEF Around, Serve, Reply, ReplyFailure, Unanswered, WorkerStep
  <1>3. ConnTypeOK'
    BY <1>2, ConnectionStep
  <1>4. Checked'
    BY <1>1, <1>2, NobodyBegins DEF Checked
  <1>5. CASE answer' = answer
    BY <1>1, <1>3, <1>4, <1>5 DEF PagesAreSlices
  <1>6. ASSUME NEW w \in Workers, ReplyFailure(w) PROVE ServiceInv'
    <2>1. Failure("500") \in Answers /\ Failure("500").status # "200"
      BY DEF Failure, Answers
    <2>2. answer' \in [Workers -> Answers] /\ answer'[w].status # "200"
      BY <1>6, <2>1 DEF ReplyFailure
    <2>3. \A v \in Workers : v # w => answer'[v] = answer[v]
      BY <1>6 DEF ReplyFailure
    <2> QED
      BY <1>1, <1>3, <1>4, <2>2, <2>3 DEF PagesAreSlices
  <1>7. ASSUME NEW w \in Workers, Reply(w) PROVE ServiceInv'
    <2> DEFINE r == request[w]
    <2>1. r \in Requests /\ r.kind \in {"list", "one"} /\ (r.kind = "list" => ValidPage(r.page, r.size))
      BY <1>7 DEF Reply, Query, Checked
    <2>2. CASE r.kind = "list"
      <3>1. r.page \in Pages /\ r.size \in Sizes
        BY <2>1, <2>2 DEF Requests
      <3>2. Result(r) = Listing(table, r.page, r.size)
        BY <2>2 DEF Result
      <3> QED
        BY <1>1, <1>3, <1>4, <1>7, <2>1, <2>2, <3>1, <3>2, ListingSound DEF Reply, PagesAreSlices
    <2>3. CASE r.kind = "one"
      <3>1. r.number \in Numbers
        BY <2>1, <2>3 DEF Requests
      <3>2. Result(r) \in Answers
        BY <2>3, <3>1 DEF Result, Found, Failure, Answers
      <3> QED
        BY <1>1, <1>3, <1>4, <1>7, <2>3, <3>2 DEF Reply, PagesAreSlices
    <2> QED
      BY <2>1, <2>2, <2>3
  <1> QED
    BY <1>5, <1>6, <1>7 DEF Around, Serve, Unanswered

LEMMA ServiceInvariant == Spec => []ServiceInv
  <1>1. ServiceInv /\ UNCHANGED vars => ServiceInv'
    BY DEF vars, connVars, ServiceInv, TypeOK, ConnTypeOK, Checked, PagesAreSlices
  <1>2. ServiceInv /\ [Next]_vars => ServiceInv'
    BY <1>1, ArrivalKeeps, OtherStepKeeps DEF Next
  <1> QED
    BY ServiceInit, <1>2, PTL DEF Spec

\* The Flight Service's state stays well-formed, for any number of threads.
THEOREM TypeCorrect == Spec => []TypeOK
  BY ServiceInvariant, PTL DEF ServiceInv

\* Every page answered is the slice of the list it should be, for every list, page and
\* size, as long as int and Int64 hold the products.
THEOREM PagesCorrect == Spec => []PagesAreSlices
  BY ServiceInvariant, PTL DEF ServiceInv

-----------------------------------------------------------------------------
(* One request at a time: the connection is never freed under anybody's    *)
(* feet.                                                                   *)

\* No two workers are at the connection at the same time.
RequestsApart == \A v, w \in Workers : step[v] # "idle" /\ step[w] # "idle" => v = w

\* Unless this process was refused a connection: it is freed just while a worker
\* opens the next; a query goes to one that PQstatus() called OK or that is new; and
\* after one statement was lost the session is not dead any more.
ConnectionSound ==
    /\ process # "running" => /\ ~refused
                              /\ \A w \in Workers : step[w] = "idle"
    /\ (process = "running" /\ ~refused) =>
          /\ conn # "none"
          /\ conn = "freed" => \E w \in Workers : step[w] = "connect"
          /\ \A w \in Workers : step[w] = "query" => conn \in {"ok", "stale"}
          /\ lost <= 1
          /\ (lost = 1 /\ database = "up") => conn # "stale"
    /\ process # "running" => lost = 0 /\ conn = "none"

ConnectionInv == ConnTypeOK /\ ConnectionSound

\* Sound whatever the worker of a request does next.
LEMMA WorkerKeepsConnection ==
    ASSUME ConnectionInv, RequestsApart, NEW w \in Workers, Begin(w) \/ WorkerStep(w)
    PROVE  ConnectionSound'
  <1> USE DEF ConnectionInv, ConnectionSound, ConnTypeOK, RequestsApart, GoTo
  <1>0. process = "running" \/ Begin(w)
    BY DEF WorkerStep, Reopening, Check, Finish, Connect, ConnectRefused, Query, QueryFails, Crash
  <1>1. CASE Begin(w)
    BY <1>1 DEF Begin
  <1>2. CASE Check(w)
    BY <1>0, <1>2 DEF Check, PQstatus, AfterStatus, Conns
  <1>3. CASE Finish(w)
    BY <1>0, <1>3 DEF Finish
  <1>4. CASE Connect(w)
    BY <1>0, <1>4 DEF Connect, Reopened
  <1>5. CASE ConnectRefused(w)
    BY <1>0, <1>5 DEF ConnectRefused
  <1>6. CASE Query(w)
    BY <1>0, <1>6 DEF Query
  <1>7. CASE QueryFails(w)
    BY <1>0, <1>7 DEF QueryFails, Counted, LostBound
  <1>8. CASE Crash(w)
    BY <1>8 DEF Crash, Ended
  <1> QED
    BY <1>1, <1>2, <1>3, <1>4, <1>5, <1>6, <1>7, <1>8 DEF WorkerStep, Reopening

\* And whatever happens to the database and to the process.
LEMMA SurroundingsKeepConnection ==
    ASSUME ConnectionInv, Surroundings
    PROVE  ConnectionSound'
  <1> USE DEF ConnectionInv, ConnectionSound, ConnTypeOK
  <1>1. CASE Start
    BY <1>1 DEF Start
  <1>2. CASE Restart
    BY <1>2 DEF Restart
  <1>3. CASE ServiceStops
    BY <1>3 DEF ServiceStops, Ended
  <1>4. CASE DatabaseStops
    BY <1>4 DEF DatabaseStops
  <1>5. CASE DatabaseStarts
    BY <1>5 DEF DatabaseStarts
  <1> QED
    BY <1>1, <1>2, <1>3, <1>4, <1>5 DEF Surroundings

LEMMA ConnectionInvariant == Spec /\ []RequestsApart => []ConnectionInv
  <1>1. Init => ConnectionInv
    <2>1. Init => refused = FALSE
      BY DEF Init, ConnInit
    <2> QED
      BY <2>1, ServiceInit DEF Init, ConnInit, ConnectionInv, ConnectionSound, ServiceInv, TypeOK
  <1>2. ConnectionInv /\ RequestsApart /\ [Next]_vars => ConnectionInv'
    <2> SUFFICES ASSUME ConnectionInv, RequestsApart, [Next]_vars PROVE ConnectionInv'
      OBVIOUS
    <2>1. CASE UNCHANGED connVars
      BY <2>1 DEF connVars, ConnectionInv, ConnTypeOK, ConnectionSound
    <2>2. CASE Surroundings \/ \E w \in Workers : Begin(w) \/ WorkerStep(w)
      BY <2>2, ConnectionStep, WorkerKeepsConnection, SurroundingsKeepConnection DEF ConnectionInv
    <2> QED
      BY <2>1, <2>2 DEF Next, vars, Around, Arrive, FlightsGetPoint, Reject, FlightGetPoint,
                        Serve, Reply, ReplyFailure, Unanswered, WorkerStep
  <1> QED
    BY <1>1, <1>2, PTL DEF Spec

\* When requests reach the connection one at a time, by whatever threads, and no attempt to
\* open it again failed, nobody uses a connection that was freed.
THEOREM LiveConnectionUsed == Spec /\ []RequestsApart => []UsesLiveConnection
  <1>1. ConnectionInv /\ RequestsApart => UsesLiveConnection
    <2> SUFFICES ASSUME ConnectionInv, RequestsApart, ~refused,
                        NEW w \in Workers, step[w] \in {"check", "finish", "query"}
                 PROVE  conn # "freed"
      BY DEF UsesLiveConnection
    <2>1. process = "running"
      BY Zenon DEF ConnectionInv, ConnectionSound
    <2>2. \A v \in Workers : step[v] # "connect"
      BY DEF RequestsApart
    <2> QED
      BY <2>1, <2>2 DEF ConnectionInv, ConnectionSound
  <1> QED
    BY <1>1, ConnectionInvariant, PTL

\* And after the database comes back at most one statement fails.
THEOREM AtMostOneLost == Spec /\ []RequestsApart => []OneRequestLost
  <1>1. ConnectionInv => OneRequestLost
    BY DEF ConnectionInv, ConnectionSound, ConnTypeOK, OneRequestLost, LostBound
  <1> QED
    BY <1>1, ConnectionInvariant, PTL

\* A service with one thread does both.
COROLLARY OneThreadKeepsConnection ==
    ASSUME \A v, w \in Workers : v = w
    PROVE  Spec => [](UsesLiveConnection /\ OneRequestLost)
  <1>1. RequestsApart
    BY DEF RequestsApart
  <1> QED
    BY <1>1, LiveConnectionUsed, AtMostOneLost, PTL
=============================================================================
