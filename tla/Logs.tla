-------------------------------- MODULE Logs --------------------------------
(* Console lines and structured records on their way out: workers relay them  *)
(* to the page, which keeps a bounded bundle of records and forwards both     *)
(* kinds in batches that the runner prints.                                   *)
EXTENDS Naturals, Sequences, FiniteSets, SequencesExt

CONSTANTS Workers,        \* realms that relay to the page's
          Root,           \* the page
          Sizes,          \* of what is logged, in bytes
          MaxRecord,      \* __WL_LOGWISE_MAX_RECORD
          MaxRecords,     \* __WL_LOGWISE_MAX_RECORDS
          MaxBytes,       \* __WL_LOGWISE_MAX_BYTES
          MaxPending,     \* MAX_PENDING, of the forwarder
          MaxStructured,  \* MAX_STRUCTURED_BYTES, of the forwarder
          MaxBody,        \* MAX_REQUEST_BODY, of the runner
          MaxLogged       \* bound on what a run logs

Channels == {"console", "logwise"}
Realms == Workers \cup {Root}

VARIABLES logged,    \* how much was logged so far
          mail,      \* per worker, what it posted to the page
          arrived,   \* per channel, how much has reached the page
          bundle,    \* __wl_logwise, the records that are kept
          bytes,     \* __wl_logwise_bytes
          dropped,   \* __wl_logwise_dropped
          pending,   \* per channel, what waits to be forwarded
          request,   \* per channel, the batches in flight; the last may be a beacon
          timer,     \* per channel, is the flush timer set?
          hidden,    \* the page was torn down
          printed    \* per channel, what the runner printed

vars == <<logged, mail, arrived, bundle, bytes, dropped, pending, request, timer, hidden, printed>>

Init ==
    /\ logged = 0 /\ mail = [w \in Workers |-> <<>>]
    /\ arrived = [c \in Channels |-> 0]
    /\ bundle = <<>> /\ bytes = 0 /\ dropped = 0
    /\ pending = [c \in Channels |-> <<>>] /\ request = [c \in Channels |-> <<>>]
    /\ timer = [c \in Channels |-> FALSE] /\ hidden = FALSE
    /\ printed = [c \in Channels |-> <<>>]

Total(records) ==
    LET upto[n \in 0..Len(records)] == IF n = 0 THEN 0 ELSE upto[n - 1] + records[n].size
    IN upto[Len(records)]

\* --------------------------------------------------------------- forwarder
Full(c, waiting) == \/ Len(waiting) >= MaxPending
                    \/ c = "logwise" /\ Total(waiting) >= MaxStructured

\* Sends what waits, unless a request is in flight.
Flush(c, waiting, flying) ==
    IF flying # <<>> \/ waiting = <<>>
    THEN pending' = [pending EXCEPT ![c] = waiting] /\ request' = [request EXCEPT ![c] = flying]
    ELSE pending' = [pending EXCEPT ![c] = <<>>] /\ request' = [request EXCEPT ![c] = <<waiting>>]

Forward(c, r) ==
    LET waiting == Append(pending[c], r)
    IN IF Full(c, waiting) THEN Flush(c, waiting, request[c]) /\ UNCHANGED timer
       ELSE /\ pending' = [pending EXCEPT ![c] = waiting] /\ timer' = [timer EXCEPT ![c] = TRUE]
            /\ UNCHANGED request

TimerFires(c) ==
    /\ timer[c] /\ ~hidden /\ timer' = [timer EXCEPT ![c] = FALSE]
    /\ Flush(c, pending[c], request[c])
    /\ UNCHANGED <<logged, mail, arrived, bundle, bytes, dropped, hidden, printed>>

\* The runner prints the first records, as many as fit in the body it reads; each
\* connection has a thread of its own, so batches that fly together land in any order.
Fitting(batch) ==
    SubSeq(batch, 1, Cardinality({i \in 1..Len(batch) : Total(SubSeq(batch, 1, i)) <= MaxBody}))
Settled(c, i, answered) ==
    /\ i \in 1..Len(request[c])
    /\ printed' = IF answered THEN [printed EXCEPT ![c] = @ \o Fitting(request[c][i])] ELSE printed
    /\ IF hidden THEN request' = [request EXCEPT ![c] = RemoveAt(@, i)] /\ UNCHANGED pending
       ELSE Flush(c, pending[c], RemoveAt(request[c], i))
    /\ UNCHANGED <<logged, mail, arrived, bundle, bytes, dropped, timer, hidden>>

\* pagehide: whatever waits leaves in a beacon.
PageHide ==
    /\ ~hidden /\ hidden' = TRUE
    /\ request' = [c \in Channels |-> IF pending[c] = <<>> THEN request[c]
                                      ELSE Append(request[c], pending[c])]
    /\ pending' = [c \in Channels |-> <<>>]
    /\ UNCHANGED <<logged, mail, arrived, bundle, bytes, dropped, timer, printed>>

\* ---------------------------------------------------------------- the page
\* The oldest records give way until the new one fits.
EvictUncounted(kept, room, size) ==
    [kept |-> IF Len(kept) >= MaxRecords THEN Tail(kept) ELSE kept, bytes |-> room]
Evict(kept, room, size) ==
    LET fits(n) == /\ Len(kept) - n < MaxRecords
                   /\ room - Total(SubSeq(kept, 1, n)) + size <= MaxBytes
        n == CHOOSE k \in 0..Len(kept) : fits(k) /\ \A j \in 0..(k - 1) : ~fits(j)
    IN [kept |-> SubSeq(kept, n + 1, Len(kept)), bytes |-> room - Total(SubSeq(kept, 1, n))]

Sink(msg) ==
    LET r == [n |-> arrived[msg.c] + 1, from |-> msg.from, seq |-> msg.seq, size |-> msg.size]
        e == Evict(bundle, bytes, msg.size)
    IN /\ arrived' = [arrived EXCEPT ![msg.c] = @ + 1]
       /\ IF msg.c = "logwise"
          THEN /\ bundle' = Append(e.kept, r) /\ bytes' = e.bytes + r.size
               /\ dropped' = dropped + Len(bundle) - Len(e.kept)
          ELSE UNCHANGED <<bundle, bytes, dropped>>
       /\ Forward(msg.c, r)

\* A realm logs.  A record that is too long or malformed is refused at once.
Emit(r, c, size) ==
    LET msg == [c |-> c, from |-> r, seq |-> logged, size |-> size]
    IN /\ logged < MaxLogged /\ ~hidden /\ (c = "logwise" => size <= MaxRecord)
       /\ logged' = logged + 1
       /\ IF r = Root THEN Sink(msg) /\ UNCHANGED mail
          ELSE /\ mail' = [mail EXCEPT ![r] = Append(@, msg)]
               /\ UNCHANGED <<arrived, bundle, bytes, dropped, pending, request, timer>>
       /\ UNCHANGED <<hidden, printed>>

Relay(w) ==
    /\ mail[w] # <<>> /\ ~hidden
    /\ mail' = [mail EXCEPT ![w] = Tail(@)] /\ Sink(Head(mail[w]))
    /\ UNCHANGED <<logged, hidden, printed>>

Next ==
    \/ \E r \in Realms, c \in Channels, s \in Sizes : Emit(r, c, s)
    \/ \E w \in Workers : Relay(w)
    \/ PageHide
    \/ \E c \in Channels : \/ TimerFires(c)
                           \/ \E i \in 1..2, answered \in BOOLEAN : Settled(c, i, answered)
Spec == Init /\ [][Next]_vars
-----------------------------------------------------------------------------
\* The bundle is the newest records that arrived, within both bounds, and the
\* counters account for every other one: the byte count neither drifts up, which
\* would empty the bundle for ever, nor down, which would let it grow.
BundleExact ==
    /\ bytes = Total(bundle) /\ bytes <= MaxBytes /\ Len(bundle) <= MaxRecords
    /\ dropped + Len(bundle) = arrived["logwise"]
    /\ \A i \in 1..Len(bundle) : bundle[i].n = dropped + i

\* While the page lives, what was logged is printed in the order in which it
\* arrived, and nothing that waits is forgotten: a request that is in flight or a
\* timer will send it.
ForwardedInOrder ==
    \A c \in Channels :
      ~hidden => /\ \A i, j \in 1..Len(printed[c]) : i < j => printed[c][i].n < printed[c][j].n
                 /\ pending[c] # <<>> => timer[c] \/ request[c] # <<>>
=============================================================================
