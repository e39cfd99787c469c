----------------------------- MODULE GlueProofs -----------------------------
(* Theorems about four components between a crate and its page, for any        *)
(* constants. Parking: the owner joins the wait queue only in the step that    *)
(* sees a token of 0, and whoever sets the token afterwards has a notify to    *)
(* do, which empties the queue. Remote files: the bytes kept of a request are  *)
(* a run from where it began, the body's next byte is the one after what was   *)
(* kept and what is to be skipped, and the position is the end of what         *)
(* read_all already has. Closures: a slot's status follows from its closure's  *)
(* and from whether it runs, the free list names the empty slots, once each,   *)
(* and every index of the value table has one owner. Logs: the bundle is the   *)
(* newest records with their exact total, and what a forwarder printed,        *)
(* carries and holds back is one increasing line.                              *)
EXTENDS MCPage, FiniteSetTheorems, SequenceTheorems, WellFoundedInduction, TLAPS

(***************************************************************************)
(* Parking.                                                                *)
(***************************************************************************)

LEMMA ParkerInit == P!Init => P!IInv
<1> SUFFICES ASSUME P!Init PROVE P!IInv
  OBVIOUS
<1> USE DEF P!Init
<1>1. parks \in Nat /\ unparks \in [Unparkers -> Nat]
  OBVIOUS
<1>2. P!TypeOK
  BY <1>1 DEF P!TypeOK
<1>3. P!QueuedIsAsleep /\ P!NoSleepOverToken
  BY DEF P!QueuedIsAsleep, P!NoSleepOverToken
<1> QED BY <1>2, <1>3 DEF P!IInv

\* The invariant is kept by every step: the owner's, then the unparkers'.
LEMMA ParkerStep == P!IInv /\ [P!Next]_(P!vars) => P!IInv'
<1> SUFFICES ASSUME P!IInv, [P!Next]_(P!vars) PROVE P!IInv'
  OBVIOUS
<1> USE DEF P!IInv, P!TypeOK, P!QueuedIsAsleep, P!NoSleepOverToken
<1>1. ASSUME NEW b \in BOOLEAN, P!Call(b) PROVE P!IInv'
  <2>1. parks' \in Nat
    BY <1>1 DEF P!Call
  <2>2. P!TypeOK'
    BY <1>1, <2>1 DEF P!Call
  <2>3. P!QueuedIsAsleep' /\ P!NoSleepOverToken'
    BY <1>1 DEF P!Call
  <2> QED BY <2>2, <2>3
<1>2. CASE P!Claim
  <2>1. P!TypeOK'
    BY <1>2 DEF P!Claim
  <2>2. P!QueuedIsAsleep' /\ P!NoSleepOverToken'
    BY <1>2 DEF P!Claim
  <2> QED BY <2>1, <2>2
<1>3. CASE P!Wait
  <2>1. P!TypeOK'
    BY <1>3 DEF P!Wait
  <2>2. P!QueuedIsAsleep' /\ P!NoSleepOverToken'
    BY <1>3 DEF P!Wait
  <2> QED BY <2>1, <2>2
<1>4. CASE P!Consume \/ P!TimesOut
  <2>1. queued' = FALSE
    BY <1>4 DEF P!Consume, P!TimesOut
  <2>2. P!TypeOK'
    BY <1>4, <2>1 DEF P!Consume, P!TimesOut
  <2> QED BY <2>1, <2>2
<1>5. ASSUME NEW u \in Unparkers, P!Store(u) PROVE P!IInv'
  BY <1>5 DEF P!Store
<1>6. ASSUME NEW u \in Unparkers, P!Notify(u) PROVE P!IInv'
  BY <1>6 DEF P!Notify
<1>7. CASE UNCHANGED P!vars
  BY <1>7 DEF P!vars
<1> QED
  BY <1>1, <1>2, <1>3, <1>4, <1>5, <1>6, <1>7
     DEF P!Next, P!Owner, P!Finished, P!ParkWait, P!ParkWaitTimeout

\* The strengthened invariant of the parking state holds in every reachable state.
THEOREM ParkerInvariance == P!Spec => []P!IInv
<1>1. P!Init => P!IInv
  BY ParkerInit
<1>2. P!IInv /\ [P!Next]_(P!vars) => P!IInv'
  BY ParkerStep
<1> QED BY <1>1, <1>2, PTL DEF P!Spec

\* Every variable of the parking state keeps its type.
THEOREM ParkerTypes == P!Spec => []P!TypeOK
<1>1. P!IInv => P!TypeOK
  BY DEF P!IInv
<1> QED BY <1>1, ParkerInvariance, PTL

\* The owner is never on the wait queue with its token set and no notify coming.
THEOREM NeverSleepsOverToken == P!Spec => []NoSleepOverToken
<1>1. P!IInv => NoSleepOverToken
  BY DEF P!IInv, NoSleepOverToken
<1> QED BY <1>1, ParkerInvariance, PTL

\* A step of the implementation is a step of the permit protocol.
LEMMA StepMaps ==
  ASSUME P!IInv, [P!Next]_(P!vars)
  PROVE  [Abstract!Next]_<<P!Permit, P!Parked>>
<1> USE DEF P!IInv, P!TypeOK, P!Permit, P!Parked, Abstract!Next, Abstract!Unpark,
        Abstract!Park, Abstract!ParkFor, Abstract!Return, Abstract!TimedOut
<1>1. CASE P!ParkWait \/ P!ParkWaitTimeout
  BY <1>1 DEF P!ParkWait, P!ParkWaitTimeout, P!Call
<1>2. CASE P!Claim
  BY <1>2 DEF P!Claim
<1>3. CASE P!Wait
  BY <1>3 DEF P!Wait
<1>4. CASE P!Consume
  BY <1>4 DEF P!Consume
<1>5. CASE P!TimesOut
  BY <1>5 DEF P!TimesOut
<1>6. CASE \E u \in Unparkers : P!Store(u) \/ P!Notify(u)
  BY <1>6 DEF P!Store, P!Notify
<1>7. CASE UNCHANGED P!vars
  BY <1>7 DEF P!vars
<1> QED
  BY <1>1, <1>2, <1>3, <1>4, <1>5, <1>6, <1>7 DEF P!Next, P!Owner, P!Finished

\* park and unpark implement the safety part of the permit protocol.
THEOREM ParkerRefines == P!Spec => Abstract!SafeSpec
<1>1. P!Init => Abstract!Init
  BY DEF P!Init, Abstract!Init, P!Permit, P!Parked
<1>2. P!IInv /\ [P!Next]_(P!vars) => [Abstract!Next]_<<P!Permit, P!Parked>>
  BY StepMaps
<1> QED BY <1>1, <1>2, ParkerInvariance, PTL DEF P!Spec, Abstract!SafeSpec

(***************************************************************************)
(* Remote files: runs of bytes.                                            *)
(***************************************************************************)

\* A run of the file's bytes, one by one.
LEMMA BytesProperties ==
  ASSUME NEW i \in Nat, NEW j \in Int
  PROVE  /\ R!Bytes(i, j) \in Seq(Nat)
         /\ Len(R!Bytes(i, j)) = IF j >= i THEN j - i + 1 ELSE 0
         /\ \A n \in 1..Len(R!Bytes(i, j)) : R!Bytes(i, j)[n] = i + n - 1
<1> DEFINE k == IF j >= i THEN j - i + 1 ELSE 0
           s == R!Bytes(i, j)
<1>1. k \in Nat /\ 1..k = 1..(j - i + 1)
  OBVIOUS
<1>2. s = [n \in 1..k |-> i + n - 1]
  BY <1>1 DEF R!Bytes
<1> HIDE DEF k
<1>3. s \in [1..k -> Nat] /\ \A n \in 1..k : s[n] = i + n - 1
  BY <1>1, <1>2
<1> HIDE DEF s
<1>4. s \in Seq(Nat) /\ Len(s) = k
  BY <1>1, <1>3
<1> QED BY <1>3, <1>4 DEF s, k

\* A sequence that counts up is a run of bytes.
LEMMA CountsUp ==
  ASSUME NEW s \in Seq(Nat), NEW i \in Nat, \A n \in 1..Len(s) : s[n] = i + n - 1
  PROVE  s = R!Bytes(i, i + Len(s) - 1)
<1> DEFINE t == R!Bytes(i, i + Len(s) - 1)
<1>1. Len(s) \in Nat /\ i + Len(s) - 1 \in Int
  OBVIOUS
<1>2. t \in Seq(Nat) /\ \A n \in 1..Len(t) : t[n] = i + n - 1
  BY <1>1, BytesProperties
<1>3. Len(t) = IF i + Len(s) - 1 >= i THEN (i + Len(s) - 1) - i + 1 ELSE 0
  BY <1>1, BytesProperties
<1> HIDE DEF t
<1>4. Len(t) = Len(s)
  BY <1>1, <1>3
<1>5. \A n \in 1..Len(s) : s[n] = t[n]
  BY <1>2, <1>4
<1>6. s = t
  BY <1>2, <1>4, <1>5, SeqEqual
<1> QED BY <1>6 DEF t

\* No bytes are a run from anywhere.
LEMMA NoBytes ==
  ASSUME NEW i \in Nat
  PROVE  <<>> \in Seq(Nat) /\ Len(<<>>) = 0 /\ <<>> = R!Bytes(i, i + Len(<<>>) - 1)
<1> SUFFICES ASSUME NEW e, e = <<>> PROVE e \in Seq(Nat) /\ Len(e) = 0 /\ e = R!Bytes(i, i + Len(e) - 1)
  OBVIOUS
<1>1. e \in Seq(Nat) /\ Len(e) = 0
  BY EmptySeq
<1>2. \A n \in 1..Len(e) : e[n] = i + n - 1
  BY <1>1
<1> QED BY <1>1, <1>2, CountsUp

LEMMA RunOfBytes ==
  ASSUME NEW i \in Nat, NEW j \in Int
  PROVE  /\ R!Bytes(i, j) \in Seq(Nat)
         /\ R!Bytes(i, j) = R!Bytes(i, i + Len(R!Bytes(i, j)) - 1)
<1> DEFINE s == R!Bytes(i, j)
<1>1. s \in Seq(Nat) /\ \A n \in 1..Len(s) : s[n] = i + n - 1
  BY BytesProperties
<1> HIDE DEF s
<1>2. s = R!Bytes(i, i + Len(s) - 1)
  BY <1>1, CountsUp
<1> QED BY <1>1, <1>2 DEF s

\* A run and the run that follows it are one run.
LEMMA RunsJoin ==
  ASSUME NEW i \in Nat, NEW s \in Seq(Nat), NEW t \in Seq(Nat),
         R!Run(i, s), R!Run(i + Len(s), t)
  PROVE  /\ s \o t \in Seq(Nat) /\ Len(s \o t) = Len(s) + Len(t)
         /\ R!Run(i, s \o t)
<1>1. /\ Len(s) \in Nat /\ Len(t) \in Nat /\ i + Len(s) \in Nat
      /\ i + Len(s) - 1 \in Int /\ i + Len(s) + Len(t) - 1 \in Int
  OBVIOUS
<1>2. \A n \in 1..Len(s) : s[n] = i + n - 1
  <2>1. \A n \in 1..Len(R!Bytes(i, i + Len(s) - 1)) :
          R!Bytes(i, i + Len(s) - 1)[n] = i + n - 1
    BY <1>1, BytesProperties
  <2> QED BY <2>1 DEF R!Run
<1>3. \A n \in 1..Len(t) : t[n] = i + Len(s) + n - 1
  <2>1. \A n \in 1..Len(R!Bytes(i + Len(s), i + Len(s) + Len(t) - 1)) :
          R!Bytes(i + Len(s), i + Len(s) + Len(t) - 1)[n] = i + Len(s) + n - 1
    BY <1>1, BytesProperties
  <2> QED BY <2>1 DEF R!Run
<1>4. PICK u : u = s \o t
  OBVIOUS
<1>5. /\ u \in Seq(Nat) /\ Len(u) = Len(s) + Len(t)
      /\ \A n \in 1..(Len(s) + Len(t)) : u[n] = IF n <= Len(s) THEN s[n] ELSE t[n - Len(s)]
  BY <1>4, ConcatProperties
<1>6. ASSUME NEW n \in 1..Len(u) PROVE u[n] = i + n - 1
  <2>1. CASE n <= Len(s)
    <3>1. n \in 1..Len(s) /\ u[n] = s[n]
      BY <2>1, <1>1, <1>5
    <3> QED BY <3>1, <1>2
  <2>2. CASE n > Len(s)
    <3>1. n - Len(s) \in 1..Len(t) /\ u[n] = t[n - Len(s)]
      BY <2>2, <1>1, <1>5
    <3> QED BY <3>1, <1>1, <1>3
  <2> QED BY <2>1, <2>2, <1>1
<1>7. u = R!Bytes(i, i + Len(u) - 1)
  BY <1>5, <1>6, CountsUp
<1> QED BY <1>4, <1>5, <1>7 DEF R!Run

\* A part of a chunk is a run from where the part begins.
PartIsRun(i, e, first, k) ==
    LET u == SubSeq(R!Bytes(i, e), first, k)
    IN /\ u \in Seq(Nat) /\ Len(u) = k - first + 1
       /\ \A j \in Nat : j = i + first - 1 => R!Run(j, u)
LEMMA PartOfChunk ==
  ASSUME NEW i \in Nat, NEW e \in Int, NEW first \in Nat, NEW k \in Nat,
         1 <= first, first <= k, k <= e - i + 1
  PROVE  PartIsRun(i, e, first, k)
<1> SUFFICES ASSUME NEW s, s = R!Bytes(i, e), NEW u, u = SubSeq(s, first, k)
             PROVE  /\ u \in Seq(Nat) /\ Len(u) = k - first + 1
                    /\ \A j \in Nat : j = i + first - 1 => R!Run(j, u)
  BY DEF PartIsRun
<1>1. PICK n \in Nat : n = e - i + 1 /\ n > 0
  OBVIOUS
<1>2. s \in Seq(Nat) /\ Len(s) = n /\ \A l \in 1..n : s[l] = i + l - 1
  <2>1. /\ s \in Seq(Nat) /\ Len(s) = IF e >= i THEN e - i + 1 ELSE 0
        /\ \A l \in 1..Len(s) : s[l] = i + l - 1
    BY BytesProperties
  <2>2. Len(s) = n
    BY <1>1, <2>1
  <2> QED BY <2>1, <2>2
<1>3. ASSUME NEW l \in first..k PROVE s[l] \in Nat
  <2>1. l \in 1..n
    BY <1>1
  <2> QED BY <1>2, <2>1
<1>4. /\ u \in Seq(Nat)
      /\ Len(u) = IF first <= k THEN k - first + 1 ELSE 0
      /\ \A l \in 1..(k - first + 1) : u[l] = s[first + l - 1]
  <2>1. first \in Int /\ k \in Int
    OBVIOUS
  <2> QED BY <1>3, <2>1, SubSeqProperties
<1>5. Len(u) = k - first + 1
  BY <1>4
<1>6. ASSUME NEW j \in Nat, j = i + first - 1 PROVE R!Run(j, u)
  <2>1. ASSUME NEW l \in 1..Len(u) PROVE u[l] = j + l - 1
    <3>1. first + l - 1 \in 1..n /\ u[l] = s[first + l - 1]
      BY <1>1, <1>4, <1>5
    <3>2. s[first + l - 1] = i + (first + l - 1) - 1
      BY <1>2, <3>1
    <3> QED BY <1>6, <3>1, <3>2
  <2>2. u = R!Bytes(j, j + Len(u) - 1)
    BY <1>4, <2>1, CountsUp
  <2> QED BY <2>2 DEF R!Run
<1> QED BY <1>4, <1>5, <1>6

\* What the steps below keep, with the position an operation leaves.
Continues == op' = R!Idle /\ last' # R!Nothing /\ (op # R!Idle \/ last' # last) =>
                pos' = last'.start + (IF last'.ok THEN Len(last'.data)
                                      ELSE IF last'.kind = "read" THEN 0 ELSE Len(op.all))

\* Nothing was answered yet.
LEMMA NothingFields == R!Nothing \in R!AnswerTypes /\ R!Nothing.ok = FALSE
<1>1. <<>> \in Seq(Nat)
  BY EmptySeq
<1> QED BY <1>1 DEF R!Nothing, R!Failure, R!Result, R!AnswerTypes

\* An operation in flight, field by field.
LEMMA OpFields ==
  ASSUME NEW o \in R!OpTypes
  PROVE  /\ o.kind \in {"read", "all"} /\ o.st \in {"head", "get", "body", "again"}
         /\ o.start \in Nat /\ o.len \in Nat /\ o.from \in Nat /\ o.to \in Int
         /\ o.want \in Nat /\ o.skip \in Nat /\ o.got \in Seq(Nat) /\ o.all \in Seq(Nat)
  BY DEF R!OpTypes

\* An operation in flight is what the invariant says.
LEMMA InFlight ==
  ASSUME R!IInv, op # R!Idle
  PROVE  op \in R!OpTypes /\ R!OpOK(op, pos)
  BY DEF R!IInv, R!TypeOK

\* What an operation answers, with the position it leaves.
LEMMA AnswerKeeps ==
  ASSUME R!IInv, op # R!Idle, NEW ok \in BOOLEAN, NEW data \in Seq(Nat), NEW by \in Nat,
         NEW end \in Int, R!Answer(ok, data, by, end),
         IF ok THEN /\ R!Run(op.start, data) /\ Len(data) <= op.len
                    /\ Len(data) < op.len => /\ end <= op.start + Len(data)
                                             /\ op.kind = "all" => by # 206
                    /\ pos' = op.start + Len(data)
         ELSE pos' = pos
  PROVE  R!IInv' /\ Continues
<1> USE FileAssumption
<1>1. op.kind \in {"read", "all"} /\ op.start \in Nat /\ op.len \in Nat /\ pos \in Nat
      /\ R!OpOK(op, pos) /\ op.all \in Seq(Nat)
  BY InFlight, OpFields DEF R!IInv, R!TypeOK
<1>2. PICK a : a = R!Result(op, ok, data, by, end)
  OBVIOUS
<1>3. last' = a /\ op' = R!Idle /\ resp' = R!NoResponse
  BY <1>2 DEF R!Answer
<1>4. /\ a.kind = op.kind /\ a.ok = ok /\ a.start = op.start /\ a.len = op.len
      /\ a.data = data /\ a.by = by /\ a.end = end /\ a \in R!AnswerTypes
  BY <1>1, <1>2 DEF R!Result, R!AnswerTypes
<1>6. Len(data) \in Nat
  OBVIOUS
<1>7. pos' \in Nat
  BY <1>1, <1>6
<1>8. R!TypeOK'
  BY <1>3, <1>4, <1>7 DEF R!TypeOK
<1>9. R!DataIsTheFiles'
  BY <1>3, <1>4 DEF R!DataIsTheFiles, R!Run
<1>10. R!IInv'
  BY <1>3, <1>8, <1>9 DEF R!IInv
<1>11. Continues
  <2>1. pos = op.start + Len(op.all) /\ (op.kind = "read" => op.all = <<>>)
    BY <1>1 DEF R!OpOK
  <2>2. op.kind = "read" => Len(op.all) = 0
    BY <2>1, NoBytes
  <2>3. Len(op.all) \in Nat
    BY <1>1
  <2>4. ~ok => pos' = op.start + (IF op.kind = "read" THEN 0 ELSE Len(op.all))
    BY <2>1, <2>2, <2>3
  <2> QED BY <1>3, <1>4, <2>4 DEF Continues
<1> QED BY <1>10, <1>11

\* An error answers no bytes and leaves the position.
LEMMA Refuses ==
  ASSUME R!IInv, op # R!Idle, R!Fail, pos' = pos
  PROVE  R!IInv' /\ Continues
<1>1. FALSE \in BOOLEAN /\ <<>> \in Seq(Nat) /\ 0 \in Nat /\ 0 \in Int
  BY EmptySeq
<1>2. R!Answer(FALSE, <<>>, 0, 0)
  BY DEF R!Fail, R!Failure, R!Answer
<1> QED BY <1>1, <1>2, AnswerKeeps

\* An operation that goes on, and answers nothing yet.
LEMMA GoesOn ==
  ASSUME R!IInv, NEW o \in R!OpTypes, NEW r \in {R!NoResponse} \cup R!BodyTypes,
         op' = o, resp' = r, last' = last \/ last' = R!Nothing, pos' \in Nat,
         R!OpOK(o, pos'),
         o # R!Idle,
         IF o.st = "body" THEN r # R!NoResponse /\ R!BodyOK(o, r) ELSE r = R!NoResponse
  PROVE  R!IInv' /\ Continues
<1>1. R!TypeOK'
  BY NothingFields DEF R!TypeOK, R!IInv
<1>2. R!DataIsTheFiles'
  BY NothingFields DEF R!IInv, R!DataIsTheFiles
<1>3. R!IInv'
  BY <1>1, <1>2 DEF R!IInv
<1> QED BY <1>3 DEF Continues

\* The record of an operation has a stage.
LEMMA OpsAreNotIdle == \A o \in R!OpTypes : o # R!Idle
  <1> SUFFICES ASSUME NEW o \in R!OpTypes, o = R!Idle PROVE FALSE
    OBVIOUS
  <1>1. "st" \in DOMAIN o
    BY DEF R!OpTypes
  <1>2. "st" \notin DOMAIN R!Idle
    BY DEF R!Idle
  <1> QED BY <1>1, <1>2

\* A range request of an operation that wants all it still lacks.
LEMMA RequestKeeps ==
  ASSUME R!IInv, NEW o \in R!OpTypes, NEW len \in Nat, len > 0,
         R!Request(o, len), pos' = pos, resp = R!NoResponse, resp' = resp,
         R!Run(o.start, o.all), pos = o.start + Len(o.all), len = o.len - Len(o.all),
         o.kind = "read" => o.all = <<>>,
         op # R!Idle => op.all = o.all, op = R!Idle => o.kind = "read"
  PROVE  R!IInv' /\ Continues
<1> USE FileAssumption
<1>1. /\ o.kind \in {"read", "all"} /\ o.start \in Nat /\ o.len \in Nat
      /\ o.skip \in Nat /\ o.all \in Seq(Nat) /\ pos \in Nat
  BY OpFields DEF R!IInv, R!TypeOK
<1>2. CASE pos + len - 1 > MaxU64
  <2>1. PICK a : a = R!Failure(o)
    OBVIOUS
  <2>2. op' = R!Idle /\ last' = a
    BY <1>2, <2>1 DEF R!Request
  <2>3. a.ok = FALSE /\ a.kind = o.kind /\ a.start = o.start /\ a \in R!AnswerTypes
    <3>1. FALSE \in BOOLEAN /\ <<>> \in Seq(Nat) /\ 0 \in Nat /\ 0 \in Int
      BY EmptySeq
    <3> QED BY <1>1, <2>1, <3>1 DEF R!Failure, R!Result, R!AnswerTypes
  <2>5. R!TypeOK'
    BY <1>1, <2>2, <2>3 DEF R!TypeOK, R!IInv
  <2>6. R!DataIsTheFiles'
    BY <2>2, <2>3 DEF R!DataIsTheFiles
  <2>7. R!IInv'
    BY <2>2, <2>5, <2>6 DEF R!IInv
  <2>8. pos' = o.start + (IF o.kind = "read" THEN 0 ELSE Len(op.all))
    <3>1. o.kind = "read" => Len(o.all) = 0
      BY NoBytes
    <3>2. o.kind = "all" => Len(op.all) = Len(o.all)
      OBVIOUS
    <3> QED BY <1>1, <3>1, <3>2
  <2> QED BY <2>2, <2>3, <2>7, <2>8 DEF Continues
<1>3. CASE ~(pos + len - 1 > MaxU64)
  <2>1. PICK p \in Nat : p = pos
    BY <1>1
  <2>2. PICK to \in Int : to = p + len - 1
    BY <2>1
  <2>3. PICK n : n = [o EXCEPT !.st = "get", !.from = p, !.to = to, !.want = len,
                                !.got = <<>>]
    OBVIOUS
  <2>4. op' = n /\ last' = R!Nothing
    BY <1>3, <2>1, <2>2, <2>3 DEF R!Request
  <2>5. n \in R!OpTypes
    BY <2>3, NoBytes, OpFields DEF R!OpTypes
  <2>6. /\ n.st = "get" /\ n.from = p /\ n.to = to /\ n.want = len /\ n.got = <<>>
        /\ n.kind = o.kind /\ n.start = o.start /\ n.len = o.len /\ n.all = o.all
    BY <2>3 DEF R!OpTypes
  <2>7. Len(o.all) \in Nat /\ Len(o.all) < o.len
    BY <1>1
  <2>8. R!OpOK(n, p)
    BY <1>1, <2>1, <2>2, <2>6, <2>7 DEF R!OpOK
  <2> QED BY <1>1, <2>1, <2>4, <2>5, <2>6, <2>8, GoesOn, OpsAreNotIdle
<1> QED BY <1>2, <1>3

\* The empty answer, typed.
LEMMA EmptyRun == \A i \in Nat : <<>> \in Seq(Nat) /\ Len(<<>>) = 0 /\ R!Run(i, <<>>)
  BY NoBytes DEF R!Run

\* A new operation, by its fields.
LEMMA FreshOp ==
  ASSUME pos \in Nat, NEW kind \in {"read", "all"}, NEW len \in Nat
  PROVE  LET o == R!NewOp(kind, len)
         IN /\ o \in R!OpTypes
            /\ o.kind = kind /\ o.st = "head" /\ o.start = pos /\ o.len = len /\ o.all = <<>>
  BY NoBytes DEF R!NewOp, R!OpTypes

\* read of no bytes answers at once, of any other number asks for them.
LEMMA ReadKeeps ==
  ASSUME R!IInv, NEW len \in 0..MaxLen, R!Read(len)
  PROVE  R!IInv' /\ Continues
<1> USE FileAssumption
<1>1. pos \in Nat /\ pos' = pos /\ op = R!Idle /\ resp' = resp /\ len \in Nat
  BY DEF R!Read, R!IInv, R!TypeOK
<1>2. resp = R!NoResponse
  BY <1>1 DEF R!IInv
<1>3. CASE len = 0
  <2>0. PICK o : /\ o = R!NewOp("read", 0) /\ o.kind = "read" /\ o.start = pos
                 /\ o.len = 0
    BY <1>1, FreshOp
  <2>1. PICK a : a = R!Result(o, TRUE, <<>>, 0, 0)
    OBVIOUS
  <2>2. op' = R!Idle /\ last' = a
    BY <1>3, <2>0, <2>1 DEF R!Read
  <2>3. /\ a.ok = TRUE /\ a.kind = "read" /\ a.start = pos /\ a.len = 0 /\ a.data = <<>>
        /\ a \in R!AnswerTypes
    <3>1. TRUE \in BOOLEAN /\ <<>> \in Seq(Nat) /\ 0 \in Nat /\ 0 \in Int
      BY EmptySeq
    <3> QED BY <1>1, <2>0, <2>1, <3>1 DEF R!Result, R!AnswerTypes
  <2>4. Len(a.data) = 0
    BY <2>3, NoBytes
  <2>5. R!TypeOK'
    BY <1>1, <1>2, <2>2, <2>3 DEF R!TypeOK
  <2>6. R!DataIsTheFiles'
    BY <1>1, <2>2, <2>3, <2>4, EmptyRun DEF R!DataIsTheFiles, R!Run
  <2>7. R!IInv'
    BY <1>1, <1>2, <2>2, <2>5, <2>6 DEF R!IInv
  <2>8. Continues
    BY <1>1, <2>2, <2>3, <2>4 DEF Continues
  <2> QED BY <2>7, <2>8
<1>4. CASE len # 0
  <2>1. PICK o \in R!OpTypes : /\ o = R!NewOp("read", len) /\ o.kind = "read"
                               /\ o.start = pos /\ o.len = len /\ o.all = <<>>
    BY <1>1, FreshOp
  <2>2. R!Request(o, len)
    BY <1>4, <2>1 DEF R!Read
  <2>3. R!Run(o.start, o.all) /\ Len(o.all) = 0
    BY <1>1, <2>1, EmptyRun
  <2> QED BY <1>1, <1>2, <1>4, <2>1, <2>2, <2>3, RequestKeeps
<1> QED BY <1>3, <1>4

\* read_all begins with the file's length.
LEMMA ReadAllKeeps == R!IInv /\ R!ReadAll => R!IInv' /\ Continues
<1> SUFFICES ASSUME R!IInv, R!ReadAll PROVE R!IInv' /\ Continues
  OBVIOUS
<1>1. pos \in Nat /\ pos' = pos /\ op = R!Idle /\ resp' = resp /\ last' = R!Nothing
  BY DEF R!ReadAll, R!IInv, R!TypeOK
<1>2. resp = R!NoResponse
  BY <1>1 DEF R!IInv
<1>3. PICK o \in R!OpTypes : /\ o = R!NewOp("all", 0) /\ o.kind = "all" /\ o.st = "head"
                             /\ o.start = pos /\ o.all = <<>>
  BY <1>1, FreshOp
<1>4. op' = o
  BY <1>3 DEF R!ReadAll
<1>5. R!OpOK(o, pos)
  BY <1>1, <1>3, EmptyRun DEF R!OpOK
<1> QED BY <1>1, <1>2, <1>3, <1>4, <1>5, GoesOn, OpsAreNotIdle

\* Told the length, read_all asks for what is left, if anything is.
LEMMA MetadataKeeps ==
  ASSUME R!IInv, NEW ok \in BOOLEAN, NEW len \in R!Lengths, R!Metadata(ok, len)
  PROVE  R!IInv' /\ Continues
<1> USE FileAssumption
<1>1. op.kind = "all" /\ op.st = "head" /\ pos' = pos
  BY DEF R!Metadata
<1>2. op # R!Idle
  BY <1>1 DEF R!Idle
<1>3. PICK o \in R!OpTypes : o = op
  BY <1>2, InFlight
<1>4. /\ o.kind = "all" /\ o.st = "head" /\ o.start \in Nat /\ o.all = <<>> /\ pos = o.start
      /\ R!Run(o.start, o.all) /\ Len(o.all) = 0
  BY <1>1, <1>2, <1>3, InFlight, OpFields, EmptyRun DEF R!OpOK
<1>5. resp = R!NoResponse
  BY <1>1 DEF R!IInv
<1>6. PICK remaining \in Nat : remaining = IF pos < len THEN len - pos ELSE 0
  BY <1>4 DEF R!Lengths
<1>7. CASE ~ok
  <2>1. R!Fail
    BY <1>7 DEF R!Metadata
  <2> QED BY <1>1, <1>2, <2>1, Refuses
<1>8. CASE ok /\ remaining = 0
  <2>1. R!Answer(TRUE, <<>>, 0, 0)
    BY <1>6, <1>8 DEF R!Metadata
  <2>2. op.len \in Nat /\ op.start \in Nat
    BY <1>3, OpFields
  <2>3. PICK e \in Seq(Nat) : e = <<>> /\ Len(e) = 0 /\ R!Run(op.start, e)
    BY <2>2, EmptyRun
  <2>4. R!Answer(TRUE, e, 0, 0)
    BY <2>1, <2>3
  <2>5. pos' = op.start + Len(e) /\ Len(e) <= op.len /\ 0 <= op.start + Len(e)
    BY <1>1, <1>3, <1>4, <2>2, <2>3
  <2>6. TRUE \in BOOLEAN /\ 0 \in Nat /\ 0 \in Int /\ 0 # 206
    OBVIOUS
  <2> QED BY <1>2, <2>3, <2>4, <2>5, <2>6, AnswerKeeps
<1>9. CASE ok /\ remaining # 0
  <2>1. PICK n : n = [o EXCEPT !.len = remaining]
    OBVIOUS
  <2>2. R!Request(n, remaining) /\ resp' = resp
    BY <1>3, <1>6, <1>9, <2>1 DEF R!Metadata
  <2>3. n \in R!OpTypes
    BY <2>1, OpFields DEF R!OpTypes
  <2>4. n.kind = "all" /\ n.start = o.start /\ n.all = o.all /\ n.len = remaining
    BY <1>4, <2>1 DEF R!OpTypes
  <2>5. remaining > 0 /\ remaining = n.len - Len(n.all)
    BY <1>4, <1>9, <2>4
  <2> QED BY <1>1, <1>2, <1>3, <1>4, <1>5, <2>2, <2>3, <2>4, <2>5, RequestKeeps
<1> QED BY <1>6, <1>7, <1>8, <1>9

\* After a short answer read_all asks for the rest.
LEMMA ReadMoreKeeps == R!IInv /\ R!ReadMore => R!IInv' /\ Continues
<1> SUFFICES ASSUME R!IInv, R!ReadMore PROVE R!IInv' /\ Continues
  OBVIOUS
<1>1. op # R!Idle /\ op.st = "again" /\ pos' = pos /\ resp' = resp
  BY DEF R!ReadMore
<1>2. PICK o \in R!OpTypes : o = op
  BY <1>1, InFlight
<1>3. PICK len : len = o.len - Len(o.all)
  OBVIOUS
<1>4. R!Request(o, len)
  BY <1>2, <1>3 DEF R!ReadMore
<1>5. R!OpOK(o, pos) /\ o.st = "again"
  BY <1>1, <1>2, InFlight
<1>6. resp = R!NoResponse
  BY <1>1 DEF R!IInv
<1>7. /\ R!Run(o.start, o.all) /\ pos = o.start + Len(o.all) /\ Len(o.all) < o.len
      /\ o.kind = "read" => o.all = <<>>
  BY <1>5 DEF R!OpOK
<1>8. Len(o.all) \in Nat /\ o.len \in Nat
  BY OpFields
<1>9. len \in Nat /\ len > 0
  BY <1>3, <1>7, <1>8
<1> QED BY <1>1, <1>2, <1>3, <1>4, <1>6, <1>7, <1>9, RequestKeeps

\* What only moves the position, or forgets the operation.
LEMMA SeekKeeps ==
  ASSUME R!IInv, NEW b \in {"start", "end", "current"}, NEW offset \in R!Offsets,
         NEW len \in R!Lengths, NEW ok \in BOOLEAN, R!Seek(b, offset, len, ok)
  PROVE  R!IInv' /\ Continues
<1> USE FileAssumption
<1>1. op = R!Idle /\ op' = op /\ resp' = resp /\ last' = R!Nothing
  BY DEF R!Seek
<1>2. pos \in Nat
  BY DEF R!IInv, R!TypeOK
<1>3. pos' \in Nat
  <2>1. PICK new : pos' = IF ok /\ new \in 0..MaxU64 THEN new ELSE pos
    BY DEF R!Seek
  <2> QED BY <1>2, <2>1
<1>4. R!TypeOK' /\ R!DataIsTheFiles'
  BY <1>1, <1>3, NothingFields DEF R!IInv, R!TypeOK, R!DataIsTheFiles
<1>5. R!IInv'
  BY <1>1, <1>4 DEF R!IInv
<1> QED BY <1>1, <1>5 DEF Continues

\* A dropped future leaves the position.
LEMMA DropKeeps == R!IInv /\ R!DropOp => R!IInv' /\ Continues
  BY Refuses DEF R!DropOp

(***************************************************************************)
(* The answers of a server, as far as the code lets them through.          *)
(***************************************************************************)

\* A response that is read has a body whose first byte the code knows.
LEMMA ResponseFields ==
  ASSUME op.from \in Nat, op.to \in Int, NEW r \in R!Responses
  PROVE  /\ r.total \in Int
         /\ r.status \in {200, 204, 206, 404, 416}
         /\ r.status \in {200, 206} => r.from \in Nat /\ r.to \in Int /\ r.cut \in {-1, 0, 1}
         /\ r.status = 200 => r.from = 0 /\ r.to >= -1 /\ r.cut = 0
<1> USE FileAssumption
<1>2. r \in [status : {206}, from : {op.from, op.from + 1}, to : 0..(op.to + 1),
             total : {-1, op.to, Length}, cut : {-1, 0, 1}, plain : BOOLEAN]
      \/ r \in [status : {200}, from : {0}, to : -1..(Length - 1), total : {-1}, cut : {0},
                plain : BOOLEAN]
      \/ r \in [status : {416}, from : {0}, to : {0}, total : {-1, 0, op.from, Length},
                cut : {0}, plain : {TRUE}]
      \/ r \in [status : {204, 404}, from : {0}, to : {0}, total : {-1}, cut : {0},
                plain : {TRUE}]
  BY DEF R!Responses
<1>3. CASE r \in [status : {206}, from : {op.from, op.from + 1}, to : 0..(op.to + 1),
                  total : {-1, op.to, Length}, cut : {-1, 0, 1}, plain : BOOLEAN]
  BY <1>3
<1>4. CASE r \in [status : {200}, from : {0}, to : -1..(Length - 1), total : {-1}, cut : {0},
                  plain : BOOLEAN]
  BY <1>4
<1>5. CASE r \in [status : {416}, from : {0}, to : {0}, total : {-1, 0, op.from, Length},
                  cut : {0}, plain : {TRUE}]
  BY <1>5
<1>6. CASE r \in [status : {204, 404}, from : {0}, to : {0}, total : {-1}, cut : {0},
                  plain : {TRUE}]
  BY <1>6
<1> QED BY <1>2, <1>3, <1>4, <1>5, <1>6

\* What one range request answers: a run of bytes from the position.
LEMMA FinishKeeps ==
  ASSUME R!IInv, op # R!Idle, op.st \in {"get", "body"}, NEW data \in Seq(Nat),
         R!Run(op.from, data), Len(data) <= op.len - Len(op.all), NEW by \in Nat,
         NEW end \in Int, R!Finish(data, by, end),
         Len(data) < op.len - Len(op.all) => end <= op.from + Len(data),
         data = <<>> => by # 206
  PROVE  R!IInv' /\ Continues
<1> USE FileAssumption
<1>1. PICK o \in R!OpTypes : o = op
  BY InFlight
<1>2. /\ o.kind \in {"read", "all"} /\ o.start \in Nat /\ o.len \in Nat
      /\ o.from \in Nat /\ o.all \in Seq(Nat)
  BY OpFields
<1>3. R!OpOK(o, pos) /\ o.st \in {"get", "body"}
  BY <1>1, InFlight
<1>4. /\ R!Run(o.start, o.all) /\ o.from = o.start + Len(o.all) /\ Len(o.all) < o.len
      /\ o.kind = "read" => o.all = <<>>
  BY <1>3 DEF R!OpOK
<1>5. PICK done : done = o.all \o data
  OBVIOUS
<1>6. /\ done \in Seq(Nat) /\ Len(done) = Len(o.all) + Len(data) /\ R!Run(o.start, done)
  BY <1>1, <1>2, <1>4, <1>5, RunsJoin
<1>7. Len(o.all) \in Nat /\ Len(data) \in Nat /\ Len(done) \in Nat
  BY <1>2, <1>6
<1>8. /\ pos' = o.start + Len(done) /\ Len(done) <= o.len /\ pos' \in Nat
      /\ Len(done) < o.len => end <= o.start + Len(done)
  <2>1. pos' = o.from + Len(data) /\ Len(data) <= o.len - Len(o.all)
    BY <1>1 DEF R!Finish
  <2>2. PICK k \in Nat, m \in Nat, n \in Nat, i \in Nat, len \in Nat, from \in Nat :
          /\ k = Len(o.all) /\ m = Len(data) /\ n = Len(done)
          /\ i = o.start /\ len = o.len /\ from = o.from
    BY <1>2, <1>7
  <2>3. n = k + m /\ from = i + k /\ pos' = from + m /\ m <= len - k
    BY <1>4, <1>6, <2>1, <2>2
  <2>4. pos' = i + n /\ n <= len /\ pos' \in Nat
    BY <2>3
  <2>5. n < len => end <= i + n
    <3>1. m < len - k => end <= from + m
      BY <1>1, <2>2
    <3> QED BY <2>3, <3>1
  <2> QED BY <2>2, <2>4, <2>5
<1>9. CASE op.kind = "read" \/ data = <<>> \/ Len(done) = op.len
  <2>1. R!Answer(TRUE, done, by, end)
    BY <1>1, <1>5, <1>9 DEF R!Finish
  <2>2. Len(done) < op.len => end <= op.start + Len(done) /\ (op.kind = "all" => by # 206)
    BY <1>1, <1>2, <1>7, <1>8, <1>9
  <2>3. TRUE \in BOOLEAN
    OBVIOUS
  <2> QED BY <1>1, <1>6, <1>8, <2>1, <2>2, <2>3, AnswerKeeps
<1>10. CASE ~(op.kind = "read" \/ data = <<>> \/ Len(done) = op.len)
  <2>1. PICK n : n = [o EXCEPT !.st = "again", !.all = done]
    OBVIOUS
  <2>2. op' = n /\ resp' = R!NoResponse /\ last' = last
    BY <1>1, <1>5, <1>10, <2>1 DEF R!Finish
  <2>3. n \in R!OpTypes
    BY <1>6, <2>1, OpFields DEF R!OpTypes
  <2>4. n.st = "again" /\ n.all = done /\ n.kind = o.kind /\ n.start = o.start /\ n.len = o.len
    BY <2>1 DEF R!OpTypes
  <2>5. Len(done) < o.len
    BY <1>1, <1>2, <1>7, <1>8, <1>10
  <2>6. R!OpOK(n, pos')
    BY <1>1, <1>4, <1>6, <1>8, <1>10, <2>4, <2>5 DEF R!OpOK
  <2> QED BY <1>8, <2>2, <2>3, <2>4, <2>6, GoesOn, OpsAreNotIdle
<1> QED BY <1>1, <1>2, <1>9, <1>10

\* What the code makes of a response's status and headers.
LEMMA RespondKeeps ==
  ASSUME R!IInv, op # R!Idle, NEW r \in R!Responses, R!Respond(r)
  PROVE  R!IInv' /\ Continues
<1> USE FileAssumption
<1>1. PICK o \in R!OpTypes : o = op
  BY InFlight
<1>2. /\ o.kind \in {"read", "all"} /\ o.start \in Nat /\ o.len \in Nat /\ o.from \in Nat
      /\ o.to \in Int /\ o.want \in Nat /\ o.all \in Seq(Nat) /\ Len(o.all) \in Nat
  BY OpFields
<1>3. o.st = "get" /\ resp = R!NoResponse
  BY <1>1 DEF R!Respond
<1>4. R!OpOK(o, pos)
  BY <1>1, InFlight
<1>5. /\ R!Run(o.start, o.all) /\ pos = o.start + Len(o.all) /\ o.from = pos
      /\ Len(o.all) < o.len /\ o.want = o.len - Len(o.all) /\ o.to = pos + o.want - 1
      /\ o.got = <<>>
      /\ o.kind = "read" => o.all = <<>>
  BY <1>3, <1>4 DEF R!OpOK
<1>6. /\ r.total \in Int /\ r.status \in {200, 204, 206, 404, 416}
      /\ r.status \in {200, 206} => r.from \in Nat /\ r.to \in Int /\ r.cut \in {-1, 0, 1}
      /\ r.status = 200 => r.from = 0 /\ r.to >= -1 /\ r.cut = 0
  BY <1>1, <1>2, ResponseFields
<1>7. CASE r.status = 416
  <2>1. \/ R!UnsatisfiedOk(r) /\ R!Finish(<<>>, 416, r.total)
        \/ R!Fail /\ pos' = pos
    BY <1>7 DEF R!Respond
  <2>2. CASE R!UnsatisfiedOk(r) /\ R!Finish(<<>>, 416, r.total)
    <3>1. PICK e \in Seq(Nat) : e = <<>> /\ Len(e) = 0 /\ R!Run(op.from, e)
      BY <1>1, <1>2, EmptyRun
    <3>2. R!Finish(e, 416, r.total) /\ Len(e) <= op.len - Len(op.all)
      BY <1>1, <1>2, <1>5, <2>2, <3>1
    <3>3. r.total <= op.from + Len(e)
      BY <1>1, <1>2, <1>6, <2>2, <3>1 DEF R!UnsatisfiedOk
    <3>4. PICK by \in Nat : by = 416
      OBVIOUS
    <3>5. PICK end \in Int : end = r.total
      BY <1>6
    <3>6. /\ R!Finish(e, by, end)
          /\ Len(e) < op.len - Len(op.all) => end <= op.from + Len(e)
          /\ e = <<>> => by # 206
      BY <3>2, <3>3, <3>4, <3>5
    <3>7. R!Run(op.from, e) /\ Len(e) <= op.len - Len(op.all) /\ op.st \in {"get", "body"}
      BY <1>1, <1>3, <3>1, <3>2
    <3> HIDE <1>1, <1>3, <1>4, <1>5, <1>6, <1>7, <2>1, <2>2, <3>1, <3>2, <3>3, <3>4, <3>5
    <3> QED BY <3>6, <3>7, FinishKeeps
  <2> QED BY <2>1, <2>2, Refuses
<1>8. CASE /\ r.status # 416
           /\ \/ r.status \notin {200, 206, 416} \/ (r.status \in {200, 206} /\ ~r.plain)
              \/ r.status = 206 /\ ~R!PartialOk(r)
  <2>1. R!Fail /\ pos' = pos
    BY <1>8 DEF R!Respond
  <2> QED BY <2>1, Refuses
<1>9. CASE /\ r.status # 416
           /\ ~(\/ r.status \notin {200, 206, 416} \/ (r.status \in {200, 206} /\ ~r.plain)
                \/ r.status = 206 /\ ~R!PartialOk(r))
  <2>1. r.status \in {200, 206} /\ (r.status = 206 => R!PartialOk(r))
    BY <1>9
  <2>2. PICK want : want = IF r.status = 206 THEN r.to - r.from + 1 ELSE o.want
    OBVIOUS
  <2>3. PICK skip : skip = IF r.status = 200 THEN o.from ELSE 0
    OBVIOUS
  <2>4. PICK n : n = [o EXCEPT !.st = "body", !.want = want, !.skip = skip]
    OBVIOUS
  <2>5. PICK b : b = [status |-> r.status, next |-> r.from, end |-> r.to - r.cut,
                      said |-> r.to + 1]
    OBVIOUS
  <2>6. /\ resp' = b
        /\ op' = [op EXCEPT !.st = "body",
                          !.want = IF r.status = 206 THEN r.to - r.from + 1 ELSE @,
                          !.skip = IF r.status = 200 THEN op.from ELSE 0]
        /\ pos' = pos /\ last' = last
    BY <1>9, <2>5 DEF R!Respond
  <2>7. op' = n
    BY <1>1, <2>2, <2>3, <2>4, <2>6
  <2>0. PICK k \in Nat, p \in Nat, len \in Nat, w \in Nat :
          /\ k = Len(o.all) /\ p = o.from /\ len = o.len /\ w = o.want
          /\ k < len /\ w = len - k /\ o.to = p + w - 1
    BY <1>2, <1>5
  <2>a. w \in 1..(len - k)
    <3>1. k < len /\ w = len - k
      BY <2>0
    <3> QED BY <3>1
  <2>8. /\ want \in 1..(o.len - Len(o.all)) /\ (r.status = 200 => want = o.len - Len(o.all))
        /\ r.status = 206 => r.to + 1 = o.from + want
    <3>1. CASE r.status = 206
      <4>1. r.from = o.from /\ r.to >= r.from /\ r.to <= o.to
        BY <1>1, <2>1, <3>1 DEF R!PartialOk
      <4>2. PICK a \in Nat, z \in Int : a = r.from /\ z = r.to
        BY <1>6, <3>1
      <4>3. want = z - a + 1 /\ a = p /\ z >= a /\ z <= p + w - 1
        BY <2>0, <2>2, <3>1, <4>1, <4>2
      <4>4. want \in 1..w /\ w = len - k
        <5>1. want = z - a + 1 /\ a = p /\ z >= a /\ z <= p + w - 1 /\ w = len - k
          BY <2>0, <4>3
        <5> QED BY <5>1
      <4>5. r.to + 1 = o.from + want
        <5>1. z + 1 = p + want
          BY <4>3
        <5> QED BY <2>0, <4>2, <5>1
      <4> QED BY <2>0, <3>1, <4>4, <4>5
    <3>2. CASE r.status = 200
      <4>0. r.status # 206
        BY <3>2
      <4>a. want = o.want
        BY <2>2, <4>0
      <4>1. want = w /\ w = len - k
        BY <2>0, <4>a
      <4> QED BY <2>0, <2>a, <4>0, <4>1
    <3> QED BY <2>1, <3>1, <3>2
  <2>9. skip \in Nat
    BY <1>2, <2>3
  <2>10. n \in R!OpTypes
    <3>1. want \in Nat
      BY <2>0, <2>8
    <3> QED BY <2>4, <2>9, <3>1, OpFields DEF R!OpTypes
  <2>11. /\ n.st = "body" /\ n.want = want /\ n.skip = skip /\ n.kind = o.kind
         /\ n.start = o.start /\ n.len = o.len /\ n.all = o.all /\ n.from = o.from
         /\ n.got = o.got
    BY <2>4 DEF R!OpTypes
  <2>12. b \in R!BodyTypes
    BY <1>6, <2>1, <2>5 DEF R!BodyTypes
  <2>13. b.status = r.status /\ b.next = r.from /\ b.end = r.to - r.cut /\ b.said = r.to + 1
    BY <2>5
  <2>14. R!OpOK(n, pos)
    BY <1>5, <2>11 DEF R!OpOK
  <2>15. Len(n.got) = 0 /\ R!Run(n.from, n.got) /\ n.got = <<>>
    BY <1>2, <1>5, <2>11, EmptyRun
  <2>16. b.next <= b.end + 1 /\ b.next + n.skip = n.from + 0
         /\ (b.status = 200 => b.said = b.end + 1)
    <3>1. CASE r.status = 206
      <4>1. r.from = o.from /\ r.to >= r.from
        BY <1>1, <2>1, <3>1 DEF R!PartialOk
      <4> QED BY <1>2, <1>6, <2>3, <2>11, <2>13, <3>1, <4>1
    <3>2. CASE r.status = 200
      BY <1>2, <1>6, <2>3, <2>11, <2>13, <3>2
    <3> QED BY <2>1, <3>1, <3>2
  <2>17. R!BodyOK(n, b)
    BY <1>2, <2>8, <2>11, <2>13, <2>15, <2>16 DEF R!BodyOK
  <2>18. b # R!NoResponse
    <3>1. b.status # 0
      BY <2>1, <2>13
    <3> QED BY <3>1 DEF R!NoResponse
  <2>19. pos' \in Nat
    BY <2>6 DEF R!IInv, R!TypeOK
  <2> QED BY <2>6, <2>7, <2>10, <2>11, <2>12, <2>14, <2>17, <2>18, <2>19, GoesOn, OpsAreNotIdle
<1> QED BY <1>7, <1>8, <1>9

\* The request fails, or the body breaks off.
LEMMA TransportErrorKeeps == R!IInv /\ R!TransportError => R!IInv' /\ Continues
  BY Refuses DEF R!TransportError

\* One chunk of the body, of any size.
LEMMA ChunkKeeps ==
  ASSUME R!IInv, NEW n \in 1..Length, R!Chunk(n)
  PROVE  R!IInv' /\ Continues
<1> USE FileAssumption
<1>1. op # R!Idle /\ op.st = "body" /\ pos' = pos /\ last' = last
  BY DEF R!Chunk
<1>2. PICK o \in R!OpTypes : o = op
  BY <1>1, InFlight
<1>3. PICK b \in R!BodyTypes : b = resp
  BY <1>1 DEF R!IInv, R!TypeOK
<1>4. R!OpOK(o, pos) /\ R!BodyOK(o, b) /\ o.st = "body"
  BY <1>1, <1>2, <1>3 DEF R!IInv
<1>5. b.next \in Nat /\ b.end \in Int /\ b.status \in {200, 206} /\ n \in Nat
  BY <1>3 DEF R!BodyTypes
<1>6. PICK from \in Nat, want \in Nat, skip \in Nat, kept \in Seq(Nat), x \in Nat, close \in Int :
        /\ from = o.from /\ want = o.want /\ skip = o.skip /\ kept = o.got
        /\ x = b.next /\ close = b.end
  <2>1. o.from \in Nat /\ o.want \in Nat /\ o.skip \in Nat /\ o.got \in Seq(Nat)
    BY OpFields
  <2>2. b.next \in Nat /\ b.end \in Int
    BY <1>5
  <2> QED BY <2>1, <2>2
<1>7. PICK g \in Nat : g = Len(kept)
  BY <1>6
<1>8. /\ R!Run(from, kept) /\ g <= want /\ x <= close + 1
      /\ g = want \/ x + skip = from + g
      /\ skip > 0 => kept = <<>>
      /\ want \in 1..(o.len - Len(o.all))
      /\ b.status = 200 => b.said = close + 1 /\ want = o.len - Len(o.all)
      /\ b.status = 206 => b.said = from + want
  BY <1>4, <1>6, <1>7 DEF R!BodyOK
<1>9. g < want /\ x + n - 1 <= close
  BY <1>2, <1>3, <1>6, <1>7 DEF R!Chunk
<1>10. x + skip = from + g
  BY <1>8, <1>9
<1>11. PICK y \in Nat : y = x + n
  BY <1>5
<1>12. PICK c : c = [b EXCEPT !.next = y]
  OBVIOUS
<1>13. resp' = c
  BY <1>3, <1>6, <1>11, <1>12 DEF R!Chunk
<1>14. /\ c \in R!BodyTypes /\ c.next = y /\ c.end = b.end /\ c.status = b.status
       /\ c.said = b.said
  BY <1>12 DEF R!BodyTypes
<1>15. c # R!NoResponse
  <2>1. c.status # 0
    BY <1>5, <1>14
  <2> QED BY <2>1 DEF R!NoResponse
<1>16. y <= close + 1
  BY <1>5, <1>9, <1>11
<1>17. pos' \in Nat
  BY <1>1 DEF R!IInv, R!TypeOK
<1>18. CASE skip >= n
  <2>1. PICK s \in Nat : s = skip - n
    BY <1>5, <1>18
  <2>2. PICK m : m = [o EXCEPT !.skip = s]
    OBVIOUS
  <2>3. op' = m
    BY <1>2, <1>6, <1>18, <2>1, <2>2 DEF R!Chunk
  <2>4. /\ m \in R!OpTypes /\ m.st = "body" /\ m.skip = s /\ m.from = o.from
        /\ m.want = o.want /\ m.got = o.got /\ m.len = o.len /\ m.all = o.all
        /\ m.kind = o.kind /\ m.start = o.start
    BY <1>4, <2>2, OpFields DEF R!OpTypes
  <2>5. y + s = from + g
    BY <1>5, <1>10, <1>11, <2>1
  <2>6. skip > 0
    BY <1>5, <1>18
  <2>7. R!BodyOK(m, c)
    BY <1>4, <1>6, <1>7, <1>8, <1>14, <1>16, <2>4, <2>5, <2>6 DEF R!BodyOK
  <2>8. R!OpOK(m, pos)
    BY <1>4, <2>4 DEF R!OpOK
  <2> QED BY <1>1, <1>13, <1>14, <1>15, <1>17, <2>3, <2>4, <2>7, <2>8, GoesOn, OpsAreNotIdle
<1>19. CASE skip < n
  <2>1. PICK k \in Nat : /\ k = R!Min2(n, skip + want - g) /\ k <= n /\ k > skip
                         /\ k = n \/ k = skip + want - g
                         /\ k <= skip + want - g
    <3>1. PICK d \in Nat : d = skip + want - g /\ d > skip
      BY <1>9
    <3>2. R!Min2(n, d) \in {n, d} /\ R!Min2(n, d) <= n /\ R!Min2(n, d) <= d
      BY <1>5, <3>1 DEF R!Min2
    <3>3. PICK k \in Nat : k = R!Min2(n, d) /\ k \in {n, d} /\ k <= n /\ k <= d
      BY <1>5, <3>1, <3>2
    <3>4. k > skip
      BY <1>19, <3>1, <3>3
    <3> QED BY <3>1, <3>3, <3>4
  <2>2. PICK chunk : chunk = R!Bytes(x, x + n - 1)
    OBVIOUS
  <2>3. PICK piece : piece = SubSeq(chunk, skip + 1, k)
    OBVIOUS
  <2>4. piece \in Seq(Nat) /\ Len(piece) = k - skip /\ R!Run(x + skip, piece)
    <3>1. skip < k /\ k <= n
      BY <2>1
    <3>2. n \in Nat
      BY <1>5
    <3>3. PICK e \in Int, first \in Nat, j \in Nat :
            e = x + n - 1 /\ first = skip + 1 /\ j = x + skip
      BY <3>2
    <3>4. chunk = R!Bytes(x, e) /\ piece = SubSeq(chunk, first, k)
      BY <2>2, <2>3, <3>3
    <3>5. 1 <= first /\ first <= k /\ k <= e - x + 1 /\ j = x + first - 1
      BY <3>1, <3>2, <3>3
    <3>6. PartIsRun(x, e, first, k)
      BY <3>5, PartOfChunk
    <3>7. /\ piece \in Seq(Nat) /\ Len(piece) = k - first + 1
          /\ \A i \in Nat : i = x + first - 1 => R!Run(i, piece)
      BY <3>4, <3>6 DEF PartIsRun
    <3> QED BY <3>3, <3>5, <3>7
  <2>5. Len(chunk) = n
    <3>1. PICK e \in Int : e = x + n - 1
      BY <1>5
    <3>2. Len(chunk) = IF e >= x THEN e - x + 1 ELSE 0
      BY <2>2, <3>1, BytesProperties
    <3> QED BY <1>5, <3>1, <3>2
  <2>6. PICK all : all = kept \o piece
    OBVIOUS
  <2>7. all \in Seq(Nat) /\ Len(all) = g + (k - skip) /\ R!Run(from, all)
    <3>1. R!Run(from + Len(kept), piece) /\ R!Run(from, kept)
      BY <1>7, <1>8, <1>10, <2>4
    <3>2. piece \in Seq(Nat) /\ Len(piece) = k - skip
      BY <2>4
    <3>3. all \in Seq(Nat) /\ Len(all) = Len(kept) + Len(piece) /\ R!Run(from, all)
      BY <2>6, <3>1, <3>2, RunsJoin
    <3> QED BY <1>7, <3>2, <3>3
  <2>8. PICK m : m = [o EXCEPT !.skip = 0, !.got = all]
    OBVIOUS
  <2>9. R!Take(chunk) = piece
    BY <1>2, <1>6, <1>7, <2>1, <2>3, <2>5 DEF R!Take
  <2>10. op' = m
    <3>1. ~(op.skip >= n)
      BY <1>2, <1>5, <1>6, <1>19
    <3>2. op' = [op EXCEPT !.skip = 0,
                           !.got = @ \o R!Take(R!Bytes(resp.next, resp.next + n - 1))]
      BY <3>1 DEF R!Chunk
    <3>3. R!Bytes(resp.next, resp.next + n - 1) = chunk
      BY <1>3, <1>6, <2>2
    <3> QED BY <1>2, <1>6, <2>6, <2>8, <2>9, <3>2, <3>3
  <2>11. /\ m \in R!OpTypes /\ m.st = "body" /\ m.skip = 0 /\ m.from = o.from
         /\ m.want = o.want /\ m.got = all /\ m.len = o.len /\ m.all = o.all
         /\ m.kind = o.kind /\ m.start = o.start
    BY <1>4, <2>7, <2>8, OpFields DEF R!OpTypes
  <2>12. PICK a \in Nat : a = Len(all)
    BY <2>7
  <2>13. a <= want /\ (a = want \/ y + 0 = from + a)
    <3>1. a = g + (k - skip)
      BY <2>7, <2>12
    <3>2. g < want /\ x + skip = from + g /\ y = x + n
      BY <1>9, <1>10, <1>11
    <3>3. CASE k = n
      <4>1. k <= skip + want - g
        BY <2>1
      <4>2. a = g + (n - skip) /\ a <= want
        BY <3>1, <3>3, <4>1
      <4>3. y = from + a
        BY <1>5, <3>2, <4>2
      <4> QED BY <4>2, <4>3
    <3>4. CASE k = skip + want - g
      <4>1. a = want
        BY <3>1, <3>4
      <4> QED BY <4>1
    <3> QED BY <2>1, <3>3, <3>4
  <2>14. R!BodyOK(m, c)
    BY <1>4, <1>6, <1>8, <1>14, <1>16, <2>7, <2>11, <2>12, <2>13 DEF R!BodyOK
  <2>15. R!OpOK(m, pos)
    BY <1>4, <2>11 DEF R!OpOK
  <2> QED BY <1>1, <1>13, <1>14, <1>15, <1>17, <2>10, <2>11, <2>14, <2>15, GoesOn, OpsAreNotIdle
<1> QED BY <1>5, <1>18, <1>19

\* The body was read to its end, or far enough.
LEMMA EndBodyKeeps == R!IInv /\ R!EndBody => R!IInv' /\ Continues
<1> SUFFICES ASSUME R!IInv, R!EndBody PROVE R!IInv' /\ Continues
  OBVIOUS
<1> USE FileAssumption
<1>1. op # R!Idle /\ op.st = "body"
  BY DEF R!EndBody
<1>2. PICK o \in R!OpTypes : o = op
  BY <1>1, InFlight
<1>3. PICK b \in R!BodyTypes : b = resp
  BY <1>1 DEF R!IInv, R!TypeOK
<1>4. R!OpOK(o, pos) /\ R!BodyOK(o, b) /\ o.st = "body"
  BY <1>1, <1>2, <1>3 DEF R!IInv
<1>5. CASE resp.status = 206 /\ Len(op.got) # op.want
  <2>1. R!Fail /\ pos' = pos
    BY <1>5 DEF R!EndBody
  <2> QED BY <1>1, <2>1, Refuses
<1>6. CASE ~(resp.status = 206 /\ Len(op.got) # op.want)
  <2>1. R!Finish(op.got, b.status, b.said)
    BY <1>3, <1>6 DEF R!EndBody
  <2>2. PICK from \in Nat, want \in Nat, skip \in Nat, kept \in Seq(Nat), x \in Nat,
             close \in Int, len \in Nat, i \in Nat :
          /\ from = o.from /\ want = o.want /\ skip = o.skip /\ kept = o.got
          /\ x = b.next /\ close = b.end /\ len = o.len /\ i = o.start
    <3>1. /\ o.from \in Nat /\ o.want \in Nat /\ o.skip \in Nat /\ o.got \in Seq(Nat)
          /\ o.len \in Nat /\ o.start \in Nat
      BY OpFields
    <3>2. b.next \in Nat /\ b.end \in Int
      BY DEF R!BodyTypes
    <3> QED BY <3>1, <3>2
  <2>3. PICK g \in Nat, k \in Nat : g = Len(kept) /\ k = Len(o.all)
    BY <2>2, OpFields
  <2>4. /\ R!Run(from, kept) /\ g <= want
        /\ g = want \/ x + skip = from + g
        /\ want \in 1..(len - k)
        /\ b.status = 200 => b.said = close + 1 /\ want = len - k
        /\ b.status = 206 => b.said = from + want
    BY <1>4, <2>2, <2>3 DEF R!BodyOK
  <2>5. b.status \in {200, 206} /\ b.status \in Nat /\ b.said \in Int
    BY DEF R!BodyTypes
  <2>6. g = want \/ (b.status = 200 /\ x > close)
    <3>2. g >= want \/ x > close
      BY <1>2, <1>3, <2>2, <2>3 DEF R!EndBody
    <3>3. ~(b.status = 206 /\ g # want)
      BY <1>2, <1>3, <1>6, <2>2, <2>3
    <3> QED BY <2>4, <2>5, <3>2, <3>3
  <2>7. g < len - k => b.said <= from + g
    <3>1. CASE b.status = 200
      BY <2>4, <2>6, <3>1
    <3>2. CASE b.status = 206
      BY <2>4, <2>6, <3>2
    <3> QED BY <2>5, <3>1, <3>2
  <2>8. kept = <<>> => b.status # 206
    <3>1. kept = <<>> => g = 0
      BY <2>3, EmptyRun
    <3> QED BY <2>4, <2>6, <3>1
  <2>9. g <= len - k
    BY <2>4
  <2>10. /\ Len(kept) <= op.len - Len(op.all) /\ R!Run(op.from, kept)
         /\ R!Finish(kept, b.status, b.said)
         /\ Len(kept) < op.len - Len(op.all) => b.said <= op.from + Len(kept)
    BY <1>2, <2>1, <2>2, <2>3, <2>4, <2>7, <2>9
  <2>11. op.st \in {"get", "body"}
    BY <1>1
  <2> QED BY <1>1, <2>5, <2>8, <2>10, <2>11, FinishKeeps
<1> QED BY <1>5, <1>6

\* Every step keeps the invariant, and moves the position by what it answers.
LEMMA FileStep == R!IInv /\ [R!Next]_fileVars => R!IInv' /\ [Continues]_fileVars
<1> SUFFICES ASSUME R!IInv, [R!Next]_fileVars PROVE R!IInv' /\ [Continues]_fileVars
  OBVIOUS
<1>1. CASE UNCHANGED fileVars
  <2>1. R!IInv'
    BY <1>1 DEF fileVars, R!IInv, R!TypeOK, R!DataIsTheFiles
  <2> QED BY <1>1, <2>1
<1>2. CASE R!Operations
  BY <1>2, ReadKeeps, ReadAllKeeps, DropKeeps, SeekKeeps DEF R!Operations
<1>3. CASE R!Serving
  BY <1>3, MetadataKeeps, RespondKeeps, TransportErrorKeeps, ChunkKeeps, EndBodyKeeps,
     ReadMoreKeeps DEF R!Serving
<1> QED BY <1>1, <1>2, <1>3 DEF R!Next

\* A file opens at its first byte.
LEMMA FileInit == R!Init => R!IInv
<1> SUFFICES ASSUME R!Init PROVE R!IInv
  OBVIOUS
<1>1. R!TypeOK
  BY NothingFields DEF R!Init, R!TypeOK
<1>2. R!DataIsTheFiles
  BY NothingFields DEF R!Init, R!DataIsTheFiles
<1> QED BY <1>1, <1>2 DEF R!Init, R!IInv

\* A read that succeeds answers the file's bytes from where it started, no more than
\* was asked for or announced, whatever the server does with ranges, headers, chunks
\* and the end of its body.  It is short only when its last response went no further,
\* and for read_all only when that was a 416 or a body that ignored the range.
THEOREM DataArrives == PageSpec => []DataIsTheFiles
<1>1. PageInit => R!IInv
  BY FileInit DEF PageInit
<1>2. R!IInv /\ [PageNext]_pageVars => R!IInv'
  <2>1. [PageNext]_pageVars => [R!Next]_fileVars
    BY DEF PageNext, pageVars, fileVars
  <2> QED BY <2>1, FileStep
<1>3. R!IInv => DataIsTheFiles
  BY DEF R!IInv, DataIsTheFiles
<1> QED BY <1>1, <1>2, <1>3, PTL DEF PageSpec

\* The position moves by exactly what was answered.  A read that fails or is dropped
\* leaves it, a read_all leaves it after the pieces it had received.
THEOREM PositionFollows == PageSpec => ReadsContinue
<1>1. PageInit => R!IInv
  BY FileInit DEF PageInit
<1>2. R!IInv /\ [PageNext]_pageVars => R!IInv' /\ [Continues]_fileVars
  <2>1. [PageNext]_pageVars => [R!Next]_fileVars
    BY DEF PageNext, pageVars, fileVars
  <2> QED BY <2>1, FileStep
<1>3. PageSpec => [][Continues]_fileVars
  BY <1>1, <1>2, PTL DEF PageSpec
<1>4. [Continues]_fileVars =>
        [op' = R!Idle /\ last' # R!Nothing /\ (op # R!Idle \/ last' # last) =>
           pos' = last'.start + (IF last'.ok THEN Len(last'.data)
                                 ELSE IF last'.kind = "read" THEN 0 ELSE Len(op.all))]_fileVars
  BY DEF Continues
<1> QED BY <1>3, <1>4, PTL DEF ReadsContinue, R!ReadsContinue, R!vars, fileVars

\* The closures whose JavaScript function is still in the table.
Live(k) == {c \in Closures : k[c].st \in {"owned", "forgotten"}}

SlotTypes == [st : {"empty", "filled", "borrowed", "dropped"}, c : Closures \cup {"none"}]
ClTypes == [st : {"unmade", "owned", "forgotten", "gone"}, by : Closures \cup {"none"},
            id : Nat, handle : Nat]
FrameTypes == [fn : Closures, c : Closures, args : Seq(Nat)]

StatusOf(k, run, c) == IF c \notin run THEN "filled"
                       ELSE IF c \in Live(k) THEN "borrowed" ELSE "dropped"

RegTypes(s, f, k, run) ==
    /\ s \in [Arities -> Seq(SlotTypes)] /\ f \in [Arities -> Seq(Nat)]
    /\ k \in [Closures -> ClTypes] /\ run \subseteq Closures

\* The free list of an arity names each of its empty slots once.
FreeExact(s, f) ==
    \A a \in Arities :
      /\ IsInjective(f[a])
      /\ \A id \in Nat : id \in ToSet(f[a]) <=> id < Len(s[a]) /\ s[a][id + 1].st = "empty"

\* A slot that is not empty has a closure whose id it is.
Occupied(s, k, run) ==
    \A a \in Arities : \A id \in Nat :
      id < Len(s[a]) /\ s[a][id + 1].st # "empty" =>
        /\ s[a][id + 1].c \in Live(k) \cup run
        /\ ArityOf(s[a][id + 1].c) = a /\ k[s[a][id + 1].c].id = id

\* A closure that is live or runs is in the slot of its id.
Behind(s, k, run) ==
    \A c \in Live(k) \cup run :
      /\ k[c].id < Len(s[ArityOf(c)])
      /\ s[ArityOf(c)][k[c].id + 1] = [st |-> StatusOf(k, run, c), c |-> c]

\* A closure that was made keeps an id of its registry.
Made(s, k, run) ==
    \A c \in Closures : IF k[c].st = "unmade" THEN k[c] = Unmade /\ c \notin run
                        ELSE k[c].id < Len(s[ArityOf(c)])

RegOK(s, f, k, run) == RegTypes(s, f, k, run) /\ FreeExact(s, f) /\ Occupied(s, k, run)
                       /\ Behind(s, k, run) /\ Made(s, k, run)

TableOK(t) ==
    /\ \E n \in Nat : n >= 4 /\ n <= MaxIndex + 1 /\ DOMAIN t.heap = 0..(n - 1)
    /\ t.free \in Seq(DOMAIN t.heap \ Reserved) /\ IsInjective(t.free)

\* The indices that are taken belong to own, or to one live closure each.
OwnersOK(t, k, own) ==
    /\ Allocated(t) = own \cup {k[c].handle : c \in Live(k)}
    /\ \A c \in Live(k) : k[c].handle \notin own
    /\ \A c, d \in Live(k) : k[c].handle = k[d].handle => c = d

RunOf(st) == {st[i].c : i \in 1..Len(st)}
ArgsOf(st) == UNION {ToSet(st[i].args) : i \in 1..Len(st)}

\* A closure runs once at a time, and an argument is of one call.
StackOK(st) ==
    /\ st \in Seq(FrameTypes)
    /\ \A i \in 1..Len(st) : Len(st[i].args) <= 1
    /\ \A i, j \in 1..Len(st) : i # j => /\ st[i].c # st[j].c
                                         /\ ToSet(st[i].args) \cap ToSet(st[j].args) = {}

IInv ==
    ~dead =>
      /\ RegOK(slots, free, cl, RunOf(stack)) /\ TableOK(table)
      /\ OwnersOK(table, cl, held \cup ArgsOf(stack))
      /\ StackOK(stack) /\ held \cap ArgsOf(stack) = {} /\ IsFiniteSet(held)

(***************************************************************************)
(* Sequences without repetitions.                                          *)
(***************************************************************************)

LEMMA FrontLast ==
  ASSUME NEW S, NEW q \in Seq(S), q # <<>>
  PROVE  /\ Len(q) \in Nat /\ Len(q) >= 1
         /\ Front(q) \in Seq(S) /\ Len(Front(q)) = Len(q) - 1
         /\ \A i \in 1..(Len(q) - 1) : Front(q)[i] = q[i]
         /\ Last(q) \in S /\ Last(q) = q[Len(q)]
<1>1. PICK n \in Nat : n = Len(q) /\ n >= 1
  BY EmptySeq, LenProperties
<1>2. \A i \in 1..(n - 1) : q[i] \in S
  BY <1>1, ElementOfSeq
<1>3. /\ SubSeq(q, 1, n - 1) \in Seq(S)
      /\ Len(SubSeq(q, 1, n - 1)) = IF 1 <= n - 1 THEN (n - 1) - 1 + 1 ELSE 0
      /\ \A i \in 1..((n - 1) - 1 + 1) : SubSeq(q, 1, n - 1)[i] = q[1 + i - 1]
  <2>1. n - 1 \in Int /\ 1 \in Int
    OBVIOUS
  <2> QED BY <1>2, <2>1, SubSeqProperties
<1>4. Front(q) = SubSeq(q, 1, n - 1)
  BY <1>1 DEF Front
<1>5. PICK u : u = SubSeq(q, 1, n - 1)
  OBVIOUS
<1>6. u \in Seq(S) /\ Len(u) = n - 1 /\ \A i \in 1..(n - 1) : u[i] = q[i]
  BY <1>1, <1>3, <1>5
<1>7. q[n] \in S
  BY <1>1, ElementOfSeq
<1> QED BY <1>1, <1>4, <1>5, <1>6, <1>7 DEF Last

LEMMA ToSetIs ==
  ASSUME NEW S, NEW q \in Seq(S)
  PROVE  /\ \A i \in 1..Len(q) : q[i] \in ToSet(q)
         /\ \A x \in ToSet(q) : x \in S /\ \E i \in 1..Len(q) : q[i] = x
         /\ ToSet(q) \subseteq S
  BY LenProperties, ElementOfSeq DEF ToSet

LEMMA AppendSet ==
  ASSUME NEW S, NEW q \in Seq(S), NEW x \in S
  PROVE  /\ Append(q, x) \in Seq(S) /\ ToSet(Append(q, x)) = ToSet(q) \cup {x}
         /\ IsInjective(q) /\ x \notin ToSet(q) => IsInjective(Append(q, x))
<1>1. PICK n \in Nat : n = Len(q)
  BY LenProperties
<1>2. PICK u : u = Append(q, x)
  OBVIOUS
<1>3. /\ u \in Seq(S) /\ Len(u) = n + 1 /\ u[n + 1] = x
      /\ \A i \in 1..n : u[i] = q[i]
  BY <1>1, <1>2, AppendProperties
<1>4. DOMAIN u = 1..(n + 1) /\ DOMAIN q = 1..n
  BY <1>1, <1>3, LenProperties
<1>5. ToSet(u) = ToSet(q) \cup {x}
  <2>1. 1..(n + 1) = (1..n) \cup {n + 1}
    OBVIOUS
  <2> QED BY <2>1, <1>3, <1>4 DEF ToSet
<1>6. ASSUME IsInjective(q), x \notin ToSet(q) PROVE IsInjective(u)
  <2> SUFFICES ASSUME NEW i \in 1..(n + 1), NEW j \in 1..(n + 1), u[i] = u[j] PROVE i = j
    BY <1>4 DEF IsInjective
  <2>1. \A m \in 1..n : q[m] # x
    BY <1>4, <1>6 DEF ToSet
  <2>2. \A l, m \in 1..n : q[l] = q[m] => l = m
    BY <1>4, <1>6 DEF IsInjective
  <2>3. CASE i \in 1..n /\ j \in 1..n
    BY <1>3, <2>2, <2>3
  <2>4. CASE i = n + 1 \/ j = n + 1
    <3>1. \A m \in 1..n : u[m] # u[n + 1]
      BY <1>3, <2>1
    <3> QED BY <2>4, <3>1
  <2> QED BY <2>3, <2>4
<1> QED BY <1>2, <1>3, <1>5, <1>6

LEMMA FrontSet ==
  ASSUME NEW S, NEW q \in Seq(S), q # <<>>, IsInjective(q)
  PROVE  /\ Front(q) \in Seq(S) /\ IsInjective(Front(q))
         /\ Last(q) \in ToSet(q) /\ ToSet(Front(q)) = ToSet(q) \ {Last(q)}
<1>1. PICK n \in Nat : n = Len(q) /\ n >= 1
  BY FrontLast
<1>2. PICK u : u = Front(q)
  OBVIOUS
<1>3. /\ u \in Seq(S) /\ Len(u) = n - 1 /\ Last(q) = q[n]
      /\ \A i \in 1..(n - 1) : u[i] = q[i]
  BY <1>1, <1>2, FrontLast
<1>4. DOMAIN u = 1..(n - 1) /\ DOMAIN q = 1..n
  BY <1>1, <1>3, LenProperties
<1>5. \A l, m \in 1..n : q[l] = q[m] => l = m
  BY <1>4 DEF IsInjective
<1>6. IsInjective(u)
  BY <1>3, <1>4, <1>5 DEF IsInjective
<1>7. ToSet(u) = {q[i] : i \in 1..(n - 1)} /\ ToSet(q) = {q[i] : i \in 1..n}
  BY <1>3, <1>4 DEF ToSet
<1>8. \A i \in 1..(n - 1) : i \in 1..n /\ i # n
  BY <1>1
<1>9. \A i \in 1..n : i = n \/ i \in 1..(n - 1)
  BY <1>1
<1>10. n \in 1..n
  BY <1>1
<1>11. {q[i] : i \in 1..(n - 1)} = {q[i] : i \in 1..n} \ {q[n]}
  BY <1>5, <1>8, <1>9, <1>10
<1> QED BY <1>2, <1>3, <1>6, <1>7, <1>10, <1>11

(***************************************************************************)
(* The value table.                                                        *)
(***************************************************************************)

LEMMA InitialTable == TableOK(NewTable) /\ Allocated(NewTable) = {}
<1> USE DEF NewTable, Reserved
<1>1. DOMAIN NewTable.heap = 0..3
  OBVIOUS
<1>2. NewTable.free = <<>> /\ ToSet(NewTable.free) = {} /\ IsInjective(NewTable.free)
  BY DEF ToSet, IsInjective
<1>3. NewTable.free \in Seq(DOMAIN NewTable.heap \ Reserved)
  <2> SUFFICES ASSUME NEW S PROVE <<>> \in Seq(S)
    BY <1>2
  <2> QED BY EmptySeq
<1>4. 4 \in Nat /\ 4 <= MaxIndex + 1 /\ 0..3 = 0..(4 - 1)
  BY ClosureAssumption
<1>5. TableOK(NewTable)
  BY <1>1, <1>2, <1>3, <1>4 DEF TableOK
<1>6. Allocated(NewTable) = {}
  BY <1>1, <1>2 DEF Allocated
<1> QED BY <1>5, <1>6

\* A value that enters the table takes an index that nobody has.
LEMMA Enters ==
  ASSUME NEW t, TableOK(t), NewIndex(t) <= MaxIndex, NEW v
  PROVE  /\ TableOK(Add(t, v)) /\ NewIndex(t) \in Nat /\ NewIndex(t) \notin Allocated(t)
         /\ Allocated(Add(t, v)) = Allocated(t) \cup {NewIndex(t)}
<1>1. PICK n \in Nat : n >= 4 /\ n <= MaxIndex + 1 /\ DOMAIN t.heap = 0..(n - 1)
  BY DEF TableOK
<1>2. t.free \in Seq(DOMAIN t.heap \ Reserved) /\ IsInjective(t.free)
  BY DEF TableOK
<1>3. PICK u : u = Add(t, v)
  OBVIOUS
<1>4. PICK i : i = NewIndex(t)
  OBVIOUS
<1>5. /\ DOMAIN u.heap = {i} \cup DOMAIN t.heap
      /\ u.free = IF t.free = <<>> THEN <<>> ELSE Front(t.free)
  BY <1>3, <1>4 DEF Add
<1>6. CASE t.free = <<>>
  <2>1. i = n
    <3>1. Cardinality(0..(n - 1)) = n
      <4>1. PICK m \in Int : m = n - 1
        BY <1>1
      <4>2. Cardinality(0..m) = IF 0 > m THEN 0 ELSE m - 0 + 1
        BY FS_Interval
      <4> QED BY <1>1, <4>1, <4>2
    <3> QED BY <1>1, <1>4, <1>6, <3>1 DEF NewIndex
  <2>2. DOMAIN u.heap = 0..((n + 1) - 1)
    BY <1>1, <1>5, <2>1
  <2>3. u.free = <<>> /\ ToSet(u.free) = {} /\ ToSet(t.free) = {} /\ IsInjective(u.free)
    BY <1>5, <1>6 DEF ToSet, IsInjective
  <2>4. u.free \in Seq(DOMAIN u.heap \ Reserved)
    <3> SUFFICES ASSUME NEW S PROVE <<>> \in Seq(S)
      BY <2>3
    <3> QED BY EmptySeq
  <2>5. n <= MaxIndex
    BY <1>4, <2>1
  <2>6. TableOK(u)
    <3>1. n + 1 \in Nat /\ n + 1 >= 4 /\ n + 1 <= MaxIndex + 1
      BY <1>1, <2>5, ClosureAssumption
    <3>2. \E k \in Nat : k >= 4 /\ k <= MaxIndex + 1 /\ DOMAIN u.heap = 0..(k - 1)
      BY <2>2, <3>1
    <3> QED BY <2>3, <2>4, <3>2 DEF TableOK
  <2>7. i \notin DOMAIN t.heap /\ i \notin Reserved
    BY <1>1, <2>1 DEF Reserved
  <2>8. Allocated(u) = Allocated(t) \cup {i} /\ i \notin Allocated(t)
    BY <1>5, <2>3, <2>7 DEF Allocated
  <2> QED BY <1>1, <1>3, <1>4, <2>1, <2>6, <2>8
<1>7. CASE t.free # <<>>
  <2> DEFINE S == DOMAIN t.heap \ Reserved
  <2>1. i = Last(t.free)
    BY <1>4, <1>7 DEF NewIndex
  <2>2. /\ Front(t.free) \in Seq(S) /\ IsInjective(Front(t.free))
        /\ i \in ToSet(t.free) /\ ToSet(Front(t.free)) = ToSet(t.free) \ {i}
    BY <1>2, <1>7, <2>1, FrontSet
  <2>3. i \in DOMAIN t.heap /\ i \notin Reserved
    <3> HIDE DEF S
    <3>1. i \in S
      BY <1>2, <2>2, ToSetIs DEF S
    <3> QED BY <3>1 DEF S
  <2>4. DOMAIN u.heap = DOMAIN t.heap /\ u.free = Front(t.free)
    BY <1>5, <1>7, <2>3
  <2>5. TableOK(u)
    BY <1>1, <2>2, <2>4 DEF TableOK
  <2>6. Allocated(u) = Allocated(t) \cup {i} /\ i \notin Allocated(t)
    BY <2>2, <2>3, <2>4 DEF Allocated
  <2> QED BY <1>1, <1>3, <1>4, <2>3, <2>5, <2>6
<1> QED BY <1>6, <1>7

\* An index that somebody has is freed.
LEMMA Leaves ==
  ASSUME NEW t, TableOK(t), NEW i, i \in Allocated(t)
  PROVE  TableOK(Drop(t, i)) /\ Allocated(Drop(t, i)) = Allocated(t) \ {i}
<1>1. PICK n \in Nat : n >= 4 /\ n <= MaxIndex + 1 /\ DOMAIN t.heap = 0..(n - 1)
  BY DEF TableOK
<1> DEFINE S == DOMAIN t.heap \ Reserved
<1>2. t.free \in Seq(S) /\ IsInjective(t.free)
  BY DEF TableOK
<1>3. i \in S /\ i \notin ToSet(t.free) /\ i \notin Reserved
  BY DEF Allocated
<1>4. PICK u : u = Drop(t, i)
  OBVIOUS
<1>5. DOMAIN u.heap = DOMAIN t.heap /\ u.free = Append(t.free, i)
  BY <1>3, <1>4 DEF Drop
<1>6. /\ Append(t.free, i) \in Seq(S) /\ IsInjective(Append(t.free, i))
      /\ ToSet(Append(t.free, i)) = ToSet(t.free) \cup {i}
  <2> HIDE DEF S
  <2> QED BY <1>2, <1>3, AppendSet
<1>7. TableOK(u)
  BY <1>1, <1>5, <1>6 DEF TableOK
<1>8. Allocated(u) = Allocated(t) \ {i}
  BY <1>3, <1>5, <1>6 DEF Allocated
<1> QED BY <1>4, <1>7, <1>8

(***************************************************************************)
(* Who has which index.                                                    *)
(***************************************************************************)

LEMMA OwnEnters ==
  ASSUME NEW t, NEW k, NEW own, TableOK(t), OwnersOK(t, k, own), NewIndex(t) <= MaxIndex, NEW v
  PROVE  /\ TableOK(Add(t, v)) /\ OwnersOK(Add(t, v), k, own \cup {NewIndex(t)})
         /\ NewIndex(t) \notin own /\ NewIndex(t) \in Nat
  BY Enters DEF OwnersOK

LEMMA OwnLeaves ==
  ASSUME NEW t, NEW k, NEW own, TableOK(t), OwnersOK(t, k, own), NEW i \in own
  PROVE  TableOK(Drop(t, i)) /\ OwnersOK(Drop(t, i), k, own \ {i})
<1>1. i \in Allocated(t)
  BY DEF OwnersOK
<1> QED BY <1>1, Leaves DEF OwnersOK

\* A closure is made: its function enters the table.
LEMMA FunctionEnters ==
  ASSUME NEW t, NEW k, NEW k2, NEW own, TableOK(t), OwnersOK(t, k, own),
         NewIndex(t) <= MaxIndex, NEW v, NEW c, c \notin Live(k), Live(k2) = Live(k) \cup {c},
         k2[c].handle = NewIndex(t), \A d \in Live(k) : k2[d].handle = k[d].handle
  PROVE  TableOK(Add(t, v)) /\ OwnersOK(Add(t, v), k2, own)
<1>1. /\ TableOK(Add(t, v)) /\ NewIndex(t) \notin Allocated(t)
      /\ Allocated(Add(t, v)) = Allocated(t) \cup {NewIndex(t)}
  BY Enters
<1>2. {k2[d].handle : d \in Live(k2)} = {k[d].handle : d \in Live(k)} \cup {NewIndex(t)}
  OBVIOUS
<1>3. \A d \in Live(k) : k[d].handle # NewIndex(t)
  BY <1>1 DEF OwnersOK
<1>4. \A d \in Live(k2) : k2[d].handle \notin own
  BY <1>1 DEF OwnersOK
<1>5. \A d, e \in Live(k2) : k2[d].handle = k2[e].handle => d = e
  BY <1>3 DEF OwnersOK
<1>6. Allocated(Add(t, v)) = own \cup {k2[d].handle : d \in Live(k2)}
  BY <1>1, <1>2 DEF OwnersOK
<1> QED BY <1>1, <1>4, <1>5, <1>6 DEF OwnersOK

\* A closure is dropped: its function leaves the table.
LEMMA FunctionLeaves ==
  ASSUME NEW t, NEW k, NEW k2, NEW own, TableOK(t), OwnersOK(t, k, own),
         NEW c \in Live(k), Live(k2) = Live(k) \ {c},
         \A d \in Live(k2) : k2[d].handle = k[d].handle
  PROVE  TableOK(Drop(t, k[c].handle)) /\ OwnersOK(Drop(t, k[c].handle), k2, own)
<1> DEFINE h == k[c].handle
<1>1. h \in Allocated(t) /\ h \notin own
  BY DEF OwnersOK
<1>2. TableOK(Drop(t, h)) /\ Allocated(Drop(t, h)) = Allocated(t) \ {h}
  BY <1>1, Leaves
<1>3. {k2[d].handle : d \in Live(k2)} = {k[d].handle : d \in Live(k)} \ {h}
  BY DEF OwnersOK
<1>4. Allocated(Drop(t, h)) = own \cup {k2[d].handle : d \in Live(k2)}
  BY <1>1, <1>2, <1>3 DEF OwnersOK
<1>5. /\ \A d \in Live(k2) : k2[d].handle \notin own
      /\ \A d, e \in Live(k2) : k2[d].handle = k2[e].handle => d = e
  BY DEF OwnersOK
<1> QED BY <1>2, <1>4, <1>5 DEF OwnersOK

(***************************************************************************)
(* The registries.                                                         *)
(***************************************************************************)

\* The registries s2 are s with the value v in one slot.
SlotSet(s, s2, a, id, v) ==
    /\ s2 \in [Arities -> Seq(SlotTypes)] /\ \A b \in Arities : Len(s2[b]) = Len(s[b])
    /\ s2[a][id + 1] = v
    /\ \A b \in Arities : \A j \in Nat :
          j < Len(s[b]) /\ (b # a \/ j # id) => s2[b][j + 1] = s[b][j + 1]

LEMMA SetSlotProperties ==
  ASSUME NEW s \in [Arities -> Seq(SlotTypes)], NEW a \in Arities, NEW id \in Nat,
         id < Len(s[a]), NEW v \in SlotTypes
  PROVE  SlotSet(s, SetSlot(s, a, id, v), a, id, v)
<1>1. PICK n \in Nat : n = Len(s[a])
  BY LenProperties
<1>2. PICK q \in Seq(SlotTypes) : q = s[a]
  OBVIOUS
<1>3. id + 1 \in 1..Len(q)
  BY <1>1, <1>2
<1>4. PICK u : u = [q EXCEPT ![id + 1] = v]
  OBVIOUS
<1>5. /\ u \in Seq(SlotTypes) /\ Len(u) = Len(q)
      /\ \A j \in 1..Len(q) : u[j] = IF j = id + 1 THEN v ELSE q[j]
  BY <1>3, <1>4, ExceptSeq
<1>6. PICK w : w = SetSlot(s, a, id, v)
  OBVIOUS
<1>7. w = [s EXCEPT ![a] = u]
  BY <1>2, <1>4, <1>6 DEF SetSlot
<1>8. w \in [Arities -> Seq(SlotTypes)] /\ w[a] = u /\ \A b \in Arities \ {a} : w[b] = s[b]
  BY <1>5, <1>7
<1>9. \A b \in Arities : Len(w[b]) = Len(s[b])
  BY <1>2, <1>5, <1>8
<1>10. w[a][id + 1] = v
  BY <1>3, <1>5, <1>8
<1>11. ASSUME NEW b \in Arities, NEW j \in Nat, j < Len(s[b]), b # a \/ j # id
       PROVE  w[b][j + 1] = s[b][j + 1]
  <2>1. CASE b # a
    BY <2>1, <1>8
  <2>2. CASE b = a
    <3>1. j + 1 \in 1..Len(q) /\ j + 1 # id + 1
      BY <1>1, <1>2, <1>11, <2>2
    <3> QED BY <2>2, <3>1, <1>2, <1>5, <1>8
  <2> QED BY <2>1, <2>2
<1> QED BY <1>6, <1>8, <1>9, <1>10, <1>11 DEF SlotSet

\* The facts about the closure of a slot that is not empty.
LEMMA Occupant ==
  ASSUME NEW s, NEW f, NEW k, NEW run, RegOK(s, f, k, run), NEW a \in Arities, NEW id \in Nat,
         id < Len(s[a]), s[a][id + 1].st # "empty", NEW c, c = s[a][id + 1].c
  PROVE  /\ c \in Live(k) \cup run /\ c \in Closures /\ ArityOf(c) = a /\ k[c].id = id
         /\ \A d \in Live(k) \cup run : d # c => ArityOf(d) # a \/ k[d].id # id
<1>1. c \in Live(k) \cup run /\ ArityOf(c) = a /\ k[c].id = id
  BY DEF RegOK, Occupied
<1>2. c \in Closures
  BY <1>1 DEF RegOK, RegTypes, Live
<1>3. ASSUME NEW d \in Live(k) \cup run, ArityOf(d) = a, k[d].id = id PROVE d = c
  <2>1. s[a][id + 1] = [st |-> StatusOf(k, run, d), c |-> d]
    BY <1>3 DEF RegOK, Behind
  <2> QED BY <2>1
<1> QED BY <1>1, <1>2, <1>3

\* Nothing but whether c is live and runs changes.
OthersStay(k, run, k2, run2, c) ==
    \A d \in Closures : /\ k2[d].id = k[d].id
                        /\ k2[d].st = "unmade" => k2[d] = k[d]
                        /\ k[d].st = "unmade" => k2[d].st = "unmade"
                        /\ d # c => /\ d \in Live(k2) <=> d \in Live(k)
                                    /\ d \in run2 <=> d \in run

\* v is what is in the slot of c after that.
SlotFollows(f, f2, k2, run2, a, id, c, v) ==
    \/ /\ v = Empty /\ c \notin Live(k2) /\ c \notin run2
       /\ f2 = [f EXCEPT ![a] = Append(@, id)]
    \/ /\ v = [st |-> StatusOf(k2, run2, c), c |-> c] /\ c \in Live(k2) \cup run2
       /\ f2 = f

\* The slot of a closure changes with the closure: it is emptied and its id is
\* freed when nothing needs it, or it says what the closure does now.
LEMMA SlotChanges ==
  ASSUME NEW s, NEW f, NEW k, NEW run, RegOK(s, f, k, run), NEW a \in Arities, NEW id \in Nat,
         id < Len(s[a]), s[a][id + 1].st # "empty", NEW c, c = s[a][id + 1].c,
         NEW f2, NEW k2 \in [Closures -> ClTypes], NEW run2 \in SUBSET Closures,
         OthersStay(k, run, k2, run2, c), NEW v, SlotFollows(f, f2, k2, run2, a, id, c, v)
  PROVE  RegOK(SetSlot(s, a, id, v), f2, k2, run2)
<1> USE DEF OthersStay, SlotFollows
<1>1. /\ c \in Live(k) \cup run /\ c \in Closures /\ ArityOf(c) = a /\ k[c].id = id
      /\ \A d \in Live(k) \cup run : d # c => ArityOf(d) # a \/ k[d].id # id
  BY Occupant
<1>2. /\ s \in [Arities -> Seq(SlotTypes)] /\ f \in [Arities -> Seq(Nat)]
      /\ k \in [Closures -> ClTypes] /\ run \subseteq Closures
  BY DEF RegOK, RegTypes
<1>3. v \in SlotTypes /\ (v.st = "empty" <=> v = Empty)
  BY <1>1 DEF SlotTypes, Empty, StatusOf
<1>4. PICK s2 : s2 = SetSlot(s, a, id, v)
  OBVIOUS
<1>5. /\ s2 \in [Arities -> Seq(SlotTypes)] /\ \A b \in Arities : Len(s2[b]) = Len(s[b])
      /\ s2[a][id + 1] = v
      /\ \A b \in Arities : \A j \in Nat : j < Len(s[b]) /\ (b # a \/ j # id) =>
                s2[b][j + 1] = s[b][j + 1]
  <2>1. SlotSet(s, SetSlot(s, a, id, v), a, id, v)
    BY <1>2, <1>3, SetSlotProperties
  <2> QED BY <2>1, <1>4 DEF SlotSet
<1>6. id \notin ToSet(f[a])
  BY DEF RegOK, FreeExact
<1>7. /\ Append(f[a], id) \in Seq(Nat) /\ IsInjective(Append(f[a], id))
      /\ ToSet(Append(f[a], id)) = ToSet(f[a]) \cup {id}
  <2>1. f[a] \in Seq(Nat) /\ IsInjective(f[a])
    BY <1>2 DEF RegOK, FreeExact
  <2> QED BY <2>1, <1>6, AppendSet
<1>8. \/ /\ v = Empty /\ f2[a] = Append(f[a], id) /\ \A b \in Arities : b # a => f2[b] = f[b]
      \/ v # Empty /\ f2 = f
  <2>1. CASE v = [st |-> StatusOf(k2, run2, c), c |-> c] /\ f2 = f
    <3>1. v.st = StatusOf(k2, run2, c) /\ StatusOf(k2, run2, c) # "empty"
      BY <2>1 DEF StatusOf
    <3> QED BY <3>1, <2>1 DEF Empty
  <2>2. CASE v = Empty /\ f2 = [f EXCEPT ![a] = Append(@, id)]
    BY <2>2, <1>2
  <2> QED BY <2>1, <2>2
<1>9. RegTypes(s2, f2, k2, run2)
  BY <1>2, <1>5, <1>7 DEF RegTypes
<1>10. FreeExact(s2, f2)
  <2> SUFFICES ASSUME NEW b \in Arities
               PROVE  /\ IsInjective(f2[b])
                      /\ \A j \in Nat : j \in ToSet(f2[b]) <=>
                            j < Len(s2[b]) /\ s2[b][j + 1].st = "empty"
    BY DEF FreeExact
  <2>1. /\ IsInjective(f[b])
        /\ \A j \in Nat : j \in ToSet(f[b]) <=> j < Len(s[b]) /\ s[b][j + 1].st = "empty"
    BY DEF RegOK, FreeExact
  <2>2. CASE b # a
    BY <2>1, <2>2, <1>5, <1>8
  <2>3. CASE b = a
    <3>1. CASE v = Empty
      <4>1. f2[a] = Append(f[a], id) /\ v.st = "empty"
        BY <3>1, <1>3, <1>8
      <4>2. ASSUME NEW j \in Nat
            PROVE  j \in ToSet(f2[a]) <=> j < Len(s2[a]) /\ s2[a][j + 1].st = "empty"
        <5>1. CASE j = id
          BY <5>1, <4>1, <1>5, <1>7
        <5>2. CASE j # id
          BY <5>2, <4>1, <1>5, <1>7, <2>1, <2>3
        <5> QED BY <5>1, <5>2
      <4> QED BY <4>1, <4>2, <2>3, <1>7
    <3>2. CASE v # Empty
      <4>1. f2 = f /\ v.st # "empty"
        BY <3>2, <1>3, <1>8
      <4>2. ASSUME NEW j \in Nat
            PROVE  j \in ToSet(f2[a]) <=> j < Len(s2[a]) /\ s2[a][j + 1].st = "empty"
        <5>1. CASE j = id
          BY <5>1, <4>1, <1>5, <1>6
        <5>2. CASE j # id
          BY <5>2, <4>1, <1>5, <2>1, <2>3
        <5> QED BY <5>1, <5>2
      <4> QED BY <4>1, <4>2, <2>1, <2>3
    <3> QED BY <3>1, <3>2
  <2> QED BY <2>2, <2>3
<1>11. Occupied(s2, k2, run2)
  <2> SUFFICES ASSUME NEW b \in Arities, NEW j \in Nat, j < Len(s2[b]),
                      s2[b][j + 1].st # "empty", NEW d, d = s2[b][j + 1].c
               PROVE  d \in Live(k2) \cup run2 /\ ArityOf(d) = b /\ k2[d].id = j
    BY DEF Occupied
  <2>1. CASE b = a /\ j = id
    <3>1. v # Empty /\ v.c = d
      BY <2>1, <1>3, <1>5
    <3>2. d = c /\ c \in Live(k2) \cup run2
      BY <3>1
    <3> QED BY <3>2, <2>1, <1>1
  <2>2. CASE b # a \/ j # id
    <3>1. j < Len(s[b]) /\ s2[b][j + 1] = s[b][j + 1]
      BY <2>2, <1>5
    <3>2. d \in Live(k) \cup run /\ d \in Closures /\ ArityOf(d) = b /\ k[d].id = j
      BY <3>1, Occupant
    <3>3. d # c
      BY <2>2, <3>2, <1>1
    <3> QED BY <3>2, <3>3
  <2> QED BY <2>1, <2>2
<1>12. Behind(s2, k2, run2)
  <2> SUFFICES ASSUME NEW d \in Live(k2) \cup run2
               PROVE  /\ k2[d].id < Len(s2[ArityOf(d)])
                      /\ s2[ArityOf(d)][k2[d].id + 1] = [st |-> StatusOf(k2, run2, d), c |-> d]
    BY DEF Behind
  <2>1. d \in Closures
    BY DEF Live
  <2>2. CASE d = c
    <3>1. v = [st |-> StatusOf(k2, run2, c), c |-> c]
      BY <2>2
    <3> QED BY <3>1, <2>2, <1>1, <1>5
  <2>3. CASE d # c
    <3>1. d \in Live(k) \cup run /\ StatusOf(k2, run2, d) = StatusOf(k, run, d)
      BY <2>1, <2>3 DEF StatusOf
    <3>2. /\ k[d].id < Len(s[ArityOf(d)])
          /\ s[ArityOf(d)][k[d].id + 1] = [st |-> StatusOf(k, run, d), c |-> d]
      BY <3>1 DEF RegOK, Behind
    <3>3. ArityOf(d) # a \/ k[d].id # id
      BY <3>1, <2>3, <1>1
    <3>4. ArityOf(d) \in Arities /\ k[d].id \in Nat /\ k2[d].id = k[d].id
      BY <2>1, <1>2, ClosureAssumption DEF ClTypes
    <3>5. s2[ArityOf(d)][k[d].id + 1] = s[ArityOf(d)][k[d].id + 1]
      BY <3>2, <3>3, <3>4, <1>5
    <3> QED BY <3>1, <3>2, <3>4, <3>5, <1>5
  <2> QED BY <2>2, <2>3
<1>13. Made(s2, k2, run2)
  <2> SUFFICES ASSUME NEW d \in Closures
               PROVE  IF k2[d].st = "unmade" THEN k2[d] = Unmade /\ d \notin run2
                      ELSE k2[d].id < Len(s2[ArityOf(d)])
    BY DEF Made
  <2>1. IF k[d].st = "unmade" THEN k[d] = Unmade /\ d \notin run
        ELSE k[d].id < Len(s[ArityOf(d)])
    BY DEF RegOK, Made
  <2>2. k[c].st # "unmade"
    <3>1. k[c].st = "unmade" => c \notin run /\ c \notin Live(k)
      BY <1>1 DEF RegOK, Made, Live
    <3> QED BY <3>1, <1>1
  <2>3. CASE k[d].st = "unmade"
    BY <2>1, <2>2, <2>3
  <2>4. CASE k[d].st # "unmade"
    <3>1. k2[d].st # "unmade" /\ k2[d].id = k[d].id /\ ArityOf(d) \in Arities
      BY <2>4, ClosureAssumption
    <3> QED BY <2>1, <2>4, <3>1, <1>5
  <2> QED BY <2>3, <2>4
<1> QED BY <1>4, <1>9, <1>10, <1>11, <1>12, <1>13 DEF RegOK

\* A closure that is made takes a slot that is free, or a new one.
Joins(k, k2, c) ==
    /\ k[c] = Unmade /\ k2 \in [Closures -> ClTypes] /\ k2[c].st = "owned"
    /\ \A d \in Closures : d # c => /\ k2[d].id = k[d].id /\ k2[d].st = k[d].st
                                    /\ k2[d].st = "unmade" => k2[d] = k[d]
TakesSlot(s, f, s2, f2, a, id, v) ==
    /\ id = IF f[a] # <<>> THEN Last(f[a]) ELSE Len(s[a])
    /\ s2 = IF f[a] # <<>> THEN SetSlot(s, a, id, v) ELSE [s EXCEPT ![a] = Append(@, v)]
    /\ f2 = IF f[a] # <<>> THEN [f EXCEPT ![a] = Front(@)] ELSE f

LEMMA Registers ==
  ASSUME NEW s, NEW f, NEW k, NEW run, RegOK(s, f, k, run), NEW c \in Closures,
         NEW k2, Joins(k, k2, c), NEW s2, NEW f2, NEW v, v = [st |-> "filled", c |-> c],
         TakesSlot(s, f, s2, f2, ArityOf(c), k2[c].id, v)
  PROVE  RegOK(s2, f2, k2, run) /\ Live(k2) = Live(k) \cup {c} /\ c \notin Live(k)
<1> SUFFICES
      ASSUME NEW a, a = ArityOf(c), k[c] = Unmade, k2 \in [Closures -> ClTypes], k2[c].st = "owned",
             \A d \in Closures : d # c => /\ k2[d].id = k[d].id /\ k2[d].st = k[d].st
                                          /\ k2[d].st = "unmade" => k2[d] = k[d],
             k2[c].id = IF f[a] # <<>> THEN Last(f[a]) ELSE Len(s[a]),
             s2 = IF f[a] # <<>> THEN SetSlot(s, a, k2[c].id, v)
                  ELSE [s EXCEPT ![a] = Append(@, v)],
             f2 = IF f[a] # <<>> THEN [f EXCEPT ![a] = Front(@)] ELSE f
      PROVE  RegOK(s2, f2, k2, run) /\ Live(k2) = Live(k) \cup {c} /\ c \notin Live(k)
  BY DEF Joins, TakesSlot
<1>1. /\ s \in [Arities -> Seq(SlotTypes)] /\ f \in [Arities -> Seq(Nat)]
      /\ k \in [Closures -> ClTypes] /\ run \subseteq Closures /\ a \in Arities
      /\ s[a] \in Seq(SlotTypes) /\ f[a] \in Seq(Nat)
  BY ClosureAssumption DEF RegOK, RegTypes
<1>2. Live(k2) = Live(k) \cup {c} /\ c \notin Live(k) /\ c \notin run
  BY DEF Live, Unmade, RegOK, Made
<1>3. PICK id : id = k2[c].id
  OBVIOUS
<1>4. v \in SlotTypes /\ v.st # "empty" /\ v.c = c
  BY DEF SlotTypes
<1>5. /\ IsInjective(f[a])
      /\ \A j \in Nat : j \in ToSet(f[a]) <=> j < Len(s[a]) /\ s[a][j + 1].st = "empty"
  BY <1>1 DEF RegOK, FreeExact
<1>6. /\ id \in Nat /\ id < Len(s2[a]) /\ s2 \in [Arities -> Seq(SlotTypes)]
      /\ s2[a][id + 1] = v /\ \A b \in Arities : b # a => s2[b] = s[b]
      /\ \A j \in Nat : j # id => (j < Len(s2[a]) <=> j < Len(s[a]))
      /\ \A j \in Nat : j # id /\ j < Len(s[a]) => s2[a][j + 1] = s[a][j + 1]
      /\ Len(s[a]) <= Len(s2[a])
      /\ id < Len(s[a]) => s[a][id + 1].st = "empty"
      /\ f2 \in [Arities -> Seq(Nat)] /\ \A b \in Arities : b # a => f2[b] = f[b]
      /\ IsInjective(f2[a]) /\ ToSet(f2[a]) = ToSet(f[a]) \ {id}
  <2>1. CASE f[a] # <<>>
    <3>1. /\ id = Last(f[a]) /\ id \in ToSet(f[a]) /\ ToSet(Front(f[a])) = ToSet(f[a]) \ {id}
          /\ Front(f[a]) \in Seq(Nat) /\ IsInjective(Front(f[a]))
      BY <2>1, <1>1, <1>3, <1>5, FrontSet
    <3>2. id \in Nat /\ id < Len(s[a]) /\ s[a][id + 1].st = "empty"
      <4>1. id \in Nat
        BY <3>1, <1>1, ToSetIs
      <4> QED BY <4>1, <3>1, <1>5
    <3>3. SlotSet(s, s2, a, id, v)
      <4>1. s2 = SetSlot(s, a, id, v)
        BY <2>1, <1>3
      <4>2. SlotSet(s, SetSlot(s, a, id, v), a, id, v)
        BY <3>2, <1>1, <1>4, SetSlotProperties
      <4> QED BY <4>1, <4>2
    <3>4. f2 = [f EXCEPT ![a] = Front(f[a])]
      BY <2>1
    <3>5. /\ f2 \in [Arities -> Seq(Nat)] /\ f2[a] = Front(f[a])
          /\ \A b \in Arities : b # a => f2[b] = f[b]
      BY <3>1, <3>4, <1>1
    <3>6. /\ s2 \in [Arities -> Seq(SlotTypes)] /\ Len(s2[a]) = Len(s[a])
          /\ s2[a][id + 1] = v
          /\ \A j \in Nat : j # id /\ j < Len(s[a]) => s2[a][j + 1] = s[a][j + 1]
      BY <3>3, <1>1 DEF SlotSet
    <3>7. \A b \in Arities : b # a => s2[b] = s[b]
      <4>1. s2 = SetSlot(s, a, id, v)
        BY <2>1, <1>3
      <4> QED BY <4>1, <1>1 DEF SetSlot
    <3> QED BY <3>1, <3>2, <3>5, <3>6, <3>7, <1>1, LenProperties
  <2>2. CASE f[a] = <<>>
    <3>1. PICK q \in Seq(SlotTypes) : q = s[a]
      BY <1>1
    <3>2. PICK n \in Nat : n = Len(q)
      BY LenProperties
    <3>3. PICK u : u = Append(q, v)
      OBVIOUS
    <3>4. /\ u \in Seq(SlotTypes) /\ Len(u) = n + 1 /\ u[n + 1] = v
          /\ \A i \in 1..n : u[i] = q[i]
      BY <3>2, <3>3, <1>4, AppendProperties
    <3>5. s2 = [s EXCEPT ![a] = u] /\ f2 = f /\ id = n
      BY <2>2, <3>1, <3>2, <3>3, <1>3
    <3>6. /\ s2 \in [Arities -> Seq(SlotTypes)] /\ s2[a] = u
          /\ \A b \in Arities : b # a => s2[b] = s[b]
      BY <3>4, <3>5, <1>1
    <3>7. ASSUME NEW j \in Nat, j # id
          PROVE  /\ j < Len(s2[a]) <=> j < Len(s[a])
                 /\ j < Len(s[a]) => s2[a][j + 1] = s[a][j + 1]
      <4>1. j < n => j + 1 \in 1..n
        OBVIOUS
      <4> QED BY <4>1, <3>1, <3>2, <3>4, <3>5, <3>6, <3>7
    <3>8. ToSet(f[a]) = ToSet(f[a]) \ {id}
      <4>1. id \notin ToSet(f[a])
        BY <3>1, <3>2, <3>5, <1>5
      <4> QED BY <4>1
    <3>9. id < Len(s2[a]) /\ ~(id < Len(s[a])) /\ Len(s[a]) <= Len(s2[a]) /\ s2[a][id + 1] = v
      BY <3>1, <3>2, <3>4, <3>5, <3>6
    <3> QED BY <3>5, <3>6, <3>7, <3>8, <3>9, <1>1, <1>5
  <2> QED BY <2>1, <2>2
<1>7. RegTypes(s2, f2, k2, run)
  BY <1>1, <1>6 DEF RegTypes
<1>8. FreeExact(s2, f2)
  <2> SUFFICES ASSUME NEW b \in Arities
               PROVE  /\ IsInjective(f2[b])
                      /\ \A j \in Nat : j \in ToSet(f2[b]) <=>
                            j < Len(s2[b]) /\ s2[b][j + 1].st = "empty"
    BY DEF FreeExact
  <2>1. /\ IsInjective(f[b])
        /\ \A j \in Nat : j \in ToSet(f[b]) <=> j < Len(s[b]) /\ s[b][j + 1].st = "empty"
    BY DEF RegOK, FreeExact
  <2>2. CASE b # a
    BY <2>1, <2>2, <1>6
  <2>3. ASSUME NEW j \in Nat
        PROVE  j \in ToSet(f2[a]) <=> j < Len(s2[a]) /\ s2[a][j + 1].st = "empty"
    <3>1. CASE j = id
      BY <3>1, <1>4, <1>6
    <3>2. CASE j # id
      <4>1. j \in ToSet(f2[a]) <=> j \in ToSet(f[a])
        BY <3>2, <1>6
      <4>2. j \in ToSet(f[a]) <=> j < Len(s[a]) /\ s[a][j + 1].st = "empty"
        BY <1>5
      <4>3. j < Len(s2[a]) <=> j < Len(s[a])
        BY <3>2, <1>6
      <4>4. j < Len(s[a]) => s2[a][j + 1] = s[a][j + 1]
        BY <3>2, <1>6
      <4> QED BY <4>1, <4>2, <4>3, <4>4
    <3> QED BY <3>1, <3>2
  <2> QED BY <2>2, <2>3, <1>6
<1>9. Occupied(s2, k2, run)
  <2> SUFFICES ASSUME NEW b \in Arities, NEW j \in Nat, j < Len(s2[b]),
                      s2[b][j + 1].st # "empty", NEW d, d = s2[b][j + 1].c
               PROVE  d \in Live(k2) \cup run /\ ArityOf(d) = b /\ k2[d].id = j
    BY DEF Occupied
  <2>1. CASE b = a /\ j = id
    BY <2>1, <1>2, <1>3, <1>4, <1>6
  <2>2. CASE b # a \/ j # id
    <3>1. j < Len(s[b]) /\ s2[b][j + 1] = s[b][j + 1]
      <4>1. CASE b # a
        BY <4>1, <1>6
      <4>2. CASE b = a
        <5>1. j # id /\ j < Len(s2[a])
          BY <2>2, <4>2
        <5> QED BY <4>2, <5>1, <1>6
      <4> QED BY <4>1, <4>2
    <3>2. d \in Live(k) \cup run /\ d \in Closures /\ ArityOf(d) = b /\ k[d].id = j
      BY <3>1, Occupant
    <3> QED BY <3>2, <1>2
  <2> QED BY <2>1, <2>2
<1>10. Behind(s2, k2, run)
  <2> SUFFICES ASSUME NEW d \in Live(k2) \cup run
               PROVE  /\ k2[d].id < Len(s2[ArityOf(d)])
                      /\ s2[ArityOf(d)][k2[d].id + 1] = [st |-> StatusOf(k2, run, d), c |-> d]
    BY DEF Behind
  <2>1. CASE d = c
    BY <2>1, <1>2, <1>3, <1>6 DEF StatusOf
  <2>2. CASE d # c
    <3>1. /\ d \in Live(k) \cup run /\ StatusOf(k2, run, d) = StatusOf(k, run, d)
          /\ d \in Closures
      BY <2>2, <1>1, <1>2 DEF StatusOf, Live
    <3>2. /\ k[d].id < Len(s[ArityOf(d)])
          /\ s[ArityOf(d)][k[d].id + 1] = [st |-> StatusOf(k, run, d), c |-> d]
      BY <3>1 DEF RegOK, Behind
    <3>3. ArityOf(d) \in Arities /\ k[d].id \in Nat /\ k2[d].id = k[d].id
      BY <2>2, <3>1, <1>1, ClosureAssumption DEF ClTypes
    <3>4. CASE ArityOf(d) # a
      BY <3>1, <3>2, <3>3, <3>4, <1>6
    <3>5. CASE ArityOf(d) = a
      <4>1. k[d].id # id
        <5>1. s[a][k[d].id + 1].st # "empty"
          BY <3>2, <3>5 DEF StatusOf
        <5> QED BY <5>1, <3>2, <3>5, <1>6
      <4>2. k[d].id < Len(s2[a]) /\ s2[a][k[d].id + 1] = s[a][k[d].id + 1]
        BY <4>1, <3>2, <3>3, <3>5, <1>6
      <4> QED BY <4>2, <3>1, <3>2, <3>3, <3>5
    <3> QED BY <3>4, <3>5
  <2> QED BY <2>1, <2>2
<1>11. Made(s2, k2, run)
  <2> SUFFICES ASSUME NEW d \in Closures
               PROVE  IF k2[d].st = "unmade" THEN k2[d] = Unmade /\ d \notin run
                      ELSE k2[d].id < Len(s2[ArityOf(d)])
    BY DEF Made
  <2>1. CASE d = c
    BY <2>1, <1>3, <1>6
  <2>2. CASE d # c
    <3>1. IF k[d].st = "unmade" THEN k[d] = Unmade /\ d \notin run
          ELSE k[d].id < Len(s[ArityOf(d)])
      BY DEF RegOK, Made
    <3>2. ArityOf(d) \in Arities /\ k[d].id \in Nat
      BY <1>1, ClosureAssumption DEF ClTypes
    <3>3. Len(s[ArityOf(d)]) \in Nat /\ Len(s2[ArityOf(d)]) \in Nat
      BY <3>2, <1>1, <1>6, LenProperties
    <3>4. Len(s[ArityOf(d)]) <= Len(s2[ArityOf(d)])
      <4>1. CASE ArityOf(d) # a
        BY <4>1, <3>2, <3>3, <1>6
      <4>2. CASE ArityOf(d) = a
        BY <4>2, <1>6
      <4> QED BY <4>1, <4>2
    <3> QED BY <2>2, <3>1, <3>2, <3>3, <3>4
  <2> QED BY <2>1, <2>2
<1> QED BY <1>2, <1>7, <1>8, <1>9, <1>10, <1>11 DEF RegOK

\* The registries and the table with the closures run that run, and the indices
\* own that are no closure's.
GoodReg(r, run, own) ==
    /\ RegOK(r.slots, r.free, r.cl, run) /\ TableOK(r.table) /\ OwnersOK(r.table, r.cl, own)

\* A closure is dropped.
LEMMA Unregisters ==
  ASSUME NEW r, NEW run, NEW own, GoodReg(r, run, own), NEW c \in Live(r.cl)
  PROVE  GoodReg(Unregister(r, c), run, own) /\ Live(Unregister(r, c).cl) = Live(r.cl) \ {c}
<1>1. PICK s, f, k, t : s = r.slots /\ f = r.free /\ k = r.cl /\ t = r.table
  OBVIOUS
<1>2. RegOK(s, f, k, run) /\ TableOK(t) /\ OwnersOK(t, k, own) /\ c \in Live(k)
  BY <1>1 DEF GoodReg
<1>3. PICK a, id : a = ArityOf(c) /\ id = k[c].id
  OBVIOUS
<1>4. /\ c \in Closures /\ a \in Arities /\ id \in Nat /\ id < Len(s[a])
      /\ s[a][id + 1] = [st |-> StatusOf(k, run, c), c |-> c]
      /\ k \in [Closures -> ClTypes] /\ run \subseteq Closures
  BY <1>2, <1>3, ClosureAssumption DEF Live, RegOK, RegTypes, Behind, ClTypes
<1>5. PICK k2 : k2 = [k EXCEPT ![c].st = "gone"]
  OBVIOUS
<1>6. /\ k2 \in [Closures -> ClTypes] /\ k2[c].st = "gone" /\ k2[c].id = k[c].id
      /\ k2[c].handle = k[c].handle /\ \A d \in Closures : d # c => k2[d] = k[d]
  BY <1>4, <1>5 DEF ClTypes
<1>7. Live(k2) = Live(k) \ {c}
  BY <1>2, <1>6 DEF Live
<1>8. PICK v : v = IF s[a][id + 1].st = "borrowed" THEN [s[a][id + 1] EXCEPT !.st = "dropped"]
                   ELSE Empty
  OBVIOUS
<1>9. PICK f2 : f2 = IF s[a][id + 1].st = "borrowed" THEN f ELSE [f EXCEPT ![a] = Append(@, id)]
  OBVIOUS
<1>10. PICK u : u = Unregister(r, c)
  OBVIOUS
<1>11. /\ u.slots = SetSlot(s, a, id, v) /\ u.free = f2 /\ u.table = Drop(t, k[c].handle)
       /\ u.cl = k2
  BY <1>1, <1>3, <1>5, <1>8, <1>9, <1>10 DEF Unregister
<1>12. SlotFollows(f, f2, k2, run, a, id, c, v)
  <2>1. CASE c \in run
    <3>1. s[a][id + 1] = [st |-> "borrowed", c |-> c]
      BY <2>1, <1>2, <1>4 DEF StatusOf
    <3>2. v = [st |-> "dropped", c |-> c] /\ f2 = f
      BY <3>1, <1>8, <1>9
    <3> QED BY <2>1, <3>2, <1>7 DEF StatusOf, SlotFollows
  <2>2. CASE c \notin run
    <3>1. s[a][id + 1] = [st |-> "filled", c |-> c]
      BY <2>2, <1>4 DEF StatusOf
    <3> QED BY <2>2, <3>1, <1>7, <1>8, <1>9 DEF SlotFollows
  <2> QED BY <2>1, <2>2
<1>13. RegOK(SetSlot(s, a, id, v), f2, k2, run)
  <2>1. s[a][id + 1].st # "empty" /\ c = s[a][id + 1].c
    BY <1>4 DEF StatusOf
  <2>2. OthersStay(k, run, k2, run, c)
    BY <1>2, <1>6, <1>7 DEF Live, OthersStay
  <2> QED BY <2>1, <2>2, <1>2, <1>4, <1>6, <1>12, SlotChanges
<1>14. TableOK(Drop(t, k[c].handle)) /\ OwnersOK(Drop(t, k[c].handle), k2, own)
  <2>1. \A d \in Live(k2) : k2[d].handle = k[d].handle
    BY <1>6 DEF Live
  <2> QED BY <2>1, <1>2, <1>7, FunctionLeaves
<1> QED BY <1>1, <1>7, <1>10, <1>11, <1>13, <1>14 DEF GoodReg

(***************************************************************************)
(* What a closure owns is destroyed with it, one after the other.          *)
(***************************************************************************)

Below == {ss \in Nat \X Nat : ss[1] < ss[2]}
LEMMA BelowWellFounded == IsWellFoundedOn(Below, Nat)
  BY NatLessThanWellFounded DEF OpToRel, Below

\* Induction over the natural numbers, of a set.
LEMMA SetInduction ==
  ASSUME NEW S, 0 \in S, \A n \in Nat : n \in S => n + 1 \in S
  PROVE  Nat \subseteq S
<1> DEFINE T == Nat \ S
<1>1. \A x, y \in Nat : x < y => <<x, y>> \in Below
  BY DEF Below
<1>2. ASSUME T # {} PROVE FALSE
  <2>1. T \subseteq Nat
    OBVIOUS
  <2>2. PICK x \in T : \A y \in T : ~ (<<y, x>> \in Below)
    <3> HIDE DEF T
    <3> QED BY BelowWellFounded, <1>2, <2>1, WFMin
  <2>3. x \in Nat /\ x # 0 /\ x \notin S
    OBVIOUS
  <2>4. x - 1 \in Nat /\ x - 1 < x /\ (x - 1) + 1 = x
    BY <2>3
  <2>5. x - 1 \notin T
    BY <1>1, <2>2, <2>3, <2>4
  <2> QED BY <2>3, <2>4, <2>5
<1> QED BY <1>2

\* A finite set in some order.
LEMMA InSomeOrder ==
  ASSUME NEW S, IsFiniteSet(S)
  PROVE  \E n \in Nat : /\ SetToSeq(S) \in [1..n -> S] /\ Len(SetToSeq(S)) = n
                        /\ \A i, j \in 1..n : SetToSeq(S)[i] = SetToSeq(S)[j] => i = j
<1>1. PICK n \in Nat : n = Cardinality(S)
  BY FS_CardinalityType
<1>2. PICK g \in [1..n -> S] : IsInjective(g)
  <2>1. PICK g \in Bijection(1..n, S) : TRUE
    BY <1>1, FS_CardinalityType DEF ExistsBijection
  <2>2. g \in [1..n -> S] /\ \A i, j \in 1..n : g[i] = g[j] => i = j
    BY <2>1 DEF Bijection, Injection, IsInjective
  <2>3. DOMAIN g = 1..n
    BY <2>2
  <2> QED BY <2>2, <2>3 DEF IsInjective
<1>3. SetToSeq(S) \in [1..n -> S] /\ IsInjective(SetToSeq(S))
  BY <1>1, <1>2 DEF SetToSeq
<1>4. PICK q : q = SetToSeq(S)
  OBVIOUS
<1>5. q \in [1..n -> S] /\ DOMAIN q = 1..n /\ IsInjective(q)
  BY <1>3, <1>4
<1>6. Len(q) = n
  BY <1>5
<1> QED BY <1>4, <1>5, <1>6 DEF IsInjective

LEMMA HeldGo ==
  ASSUME NEW r, NEW run, NEW own, GoodReg(r, run, own), NEW c, Held(c) \subseteq Live(r.cl)
  PROVE  /\ GoodReg(WithHeld(r, c), run, own)
         /\ Live(r.cl) \ Held(c) \subseteq Live(WithHeld(r, c).cl)
<1>1. IsFiniteSet(Held(c))
  BY ClosureAssumption, FS_Subset DEF Held
<1>2. PICK N, each : /\ N \in Nat /\ each = SetToSeq(Held(c)) /\ Len(each) = N
                             /\ each \in [1..N -> Held(c)]
                             /\ \A i, j \in 1..N : each[i] = each[j] => i = j
  BY <1>1, InSomeOrder
<1> DEFINE Body(w, m) == [n \in 0..m |-> IF n = 0 THEN r ELSE Unregister(w[n - 1], each[n])]
<1>3. \E w : w = Body(w, N)
  <2> DEFINE S == {m \in Nat : \E w : w = Body(w, m)}
  <2>1. 0 \in S
    <3>1. PICK w : w = [n \in 0..0 |-> r]
      OBVIOUS
    <3>2. w = Body(w, 0)
      BY <3>1
    <3> QED BY <3>2
  <2>2. ASSUME NEW m \in Nat, m \in S PROVE m + 1 \in S
    <3>1. PICK w : w = Body(w, m)
      BY <2>2
    <3>2. PICK x : x = [n \in 0..(m + 1) |-> IF n = m + 1 THEN Unregister(w[m], each[m + 1])
                                           ELSE w[n]]
      OBVIOUS
    <3>3. \A n \in 0..m : x[n] = w[n]
      BY <3>2
    <3>4. \A n \in 0..m : w[n] = IF n = 0 THEN r ELSE Unregister(w[n - 1], each[n])
      BY <3>1
    <3>5. ASSUME NEW n \in 0..(m + 1)
          PROVE  x[n] = IF n = 0 THEN r ELSE Unregister(x[n - 1], each[n])
      <4>1. CASE n = 0
        <5>1. 0 \in 0..m
          OBVIOUS
        <5> QED BY <4>1, <5>1, <3>3, <3>4
      <4>2. CASE n # 0 /\ n <= m
        <5>1. n \in 0..m /\ n - 1 \in 0..m
          BY <4>2
        <5> QED BY <4>2, <5>1, <3>3, <3>4
      <4>3. CASE n = m + 1
        <5>1. n # 0 /\ n - 1 = m /\ m \in 0..m
          BY <4>3
        <5>2. x[n] = Unregister(w[m], each[m + 1]) /\ x[m] = w[m]
          BY <4>3, <5>1, <3>2, <3>3
        <5> QED BY <4>3, <5>1, <5>2
      <4> QED BY <4>1, <4>2, <4>3
    <3>6. x = [n \in 0..(m + 1) |-> x[n]]
      BY <3>2
    <3>7. x = Body(x, m + 1)
      BY <3>5, <3>6
    <3> QED BY <3>7
  <2> HIDE DEF S
  <2>3. Nat \subseteq S
    BY <2>1, <2>2, SetInduction
  <2>4. N \in S
    BY <1>2, <2>3
  <2> QED BY <2>4 DEF S
<1>4. PICK w : w = Body(w, N) /\ WithHeld(r, c) = w[N]
  <2>1. WithHeld(r, c) = (CHOOSE w : w = Body(w, N))[N]
    BY <1>2 DEF WithHeld
  <2> QED BY <2>1, <1>3
<1>5. \A n \in 0..N : w[n] = IF n = 0 THEN r ELSE Unregister(w[n - 1], each[n])
  BY <1>4
<1> DEFINE Upto(n) == /\ GoodReg(w[n], run, own)
                      /\ \A d \in Live(r.cl) : (\A i \in 1..n : each[i] # d) => d \in Live(w[n].cl)
           Q == {n \in Nat : n <= N => Upto(n)}
<1>6. 0 \in Q
  <2>1. w[0] = r
    BY <1>2, <1>5
  <2> QED BY <1>2, <2>1
<1>7. ASSUME NEW n \in Nat, n \in Q PROVE n + 1 \in Q
  <2> SUFFICES ASSUME n + 1 <= N PROVE Upto(n + 1)
    BY <1>2
  <2>1. Upto(n)
    BY <1>2, <1>7
  <2>2. n + 1 \in 0..N /\ n + 1 # 0 /\ (n + 1) - 1 = n /\ n + 1 \in 1..N
    BY <1>2
  <2>3. w[n + 1] = Unregister(w[n], each[n + 1])
    BY <2>2, <1>5
  <2>4. each[n + 1] \in Live(r.cl) /\ \A i \in 1..n : each[i] # each[n + 1]
    <3>1. each[n + 1] \in Held(c)
      BY <2>2, <1>2
    <3>2. \A i \in 1..n : i \in 1..N /\ i # n + 1
      BY <1>2, <2>2
    <3> QED BY <3>1, <3>2, <2>2, <1>2
  <2>5. each[n + 1] \in Live(w[n].cl)
    BY <2>1, <2>4
  <2>6. /\ GoodReg(w[n + 1], run, own)
        /\ Live(w[n + 1].cl) = Live(w[n].cl) \ {each[n + 1]}
    BY <2>1, <2>3, <2>5, Unregisters
  <2>7. ASSUME NEW d \in Live(r.cl), \A i \in 1..(n + 1) : each[i] # d PROVE d \in Live(w[n + 1].cl)
    <3>1. d # each[n + 1] /\ \A i \in 1..n : each[i] # d
      BY <2>7
    <3> QED BY <3>1, <2>1, <2>6
  <2> QED BY <2>6, <2>7
<1> HIDE DEF Q
<1>8. Nat \subseteq Q
  BY <1>6, <1>7, SetInduction
<1>9. Upto(N)
  BY <1>2, <1>8 DEF Q
<1>10. ASSUME NEW d \in Live(r.cl) \ Held(c) PROVE d \in Live(w[N].cl)
  <2>1. \A i \in 1..N : each[i] # d
    BY <1>2
  <2> QED BY <2>1, <1>9
<1> QED BY <1>4, <1>9, <1>10

(***************************************************************************)
(* The calls that run.                                                     *)
(***************************************************************************)

LEMMA Pushes ==
  ASSUME NEW st, StackOK(st), NEW fr \in FrameTypes, fr.c \notin RunOf(st), Len(fr.args) <= 1,
         ToSet(fr.args) \cap ArgsOf(st) = {}
  PROVE  /\ StackOK(Append(st, fr)) /\ RunOf(Append(st, fr)) = RunOf(st) \cup {fr.c}
         /\ ArgsOf(Append(st, fr)) = ArgsOf(st) \cup ToSet(fr.args)
<1>1. PICK n \in Nat : n = Len(st) /\ st \in Seq(FrameTypes)
  BY LenProperties DEF StackOK
<1>2. PICK u : u = Append(st, fr)
  OBVIOUS
<1>3. /\ u \in Seq(FrameTypes) /\ Len(u) = n + 1 /\ u[n + 1] = fr
      /\ \A i \in 1..n : u[i] = st[i]
  BY <1>1, <1>2, AppendProperties
<1>4. 1..(n + 1) = (1..n) \cup {n + 1}
  OBVIOUS
<1>5. RunOf(u) = RunOf(st) \cup {fr.c}
  BY <1>1, <1>3, <1>4 DEF RunOf
<1>6. ArgsOf(u) = ArgsOf(st) \cup ToSet(fr.args)
  <2>1. \A i \in 1..n : ToSet(u[i].args) = ToSet(st[i].args)
    BY <1>3
  <2>2. {ToSet(u[i].args) : i \in 1..(n + 1)}
            = {ToSet(st[i].args) : i \in 1..n} \cup {ToSet(fr.args)}
    BY <1>3, <1>4, <2>1
  <2> QED BY <2>2, <1>1, <1>3 DEF ArgsOf
<1>7. /\ \A i \in 1..n : /\ Len(st[i].args) <= 1 /\ st[i].c # fr.c
                         /\ ToSet(st[i].args) \cap ToSet(fr.args) = {}
      /\ \A i, j \in 1..n : i # j => /\ st[i].c # st[j].c
                                     /\ ToSet(st[i].args) \cap ToSet(st[j].args) = {}
  BY <1>1 DEF StackOK, RunOf, ArgsOf
<1>8. ASSUME NEW i \in 1..(n + 1), NEW j \in 1..(n + 1), i # j
      PROVE  u[i].c # u[j].c /\ ToSet(u[i].args) \cap ToSet(u[j].args) = {}
  <2>1. CASE i \in 1..n /\ j \in 1..n
    BY <2>1, <1>3, <1>7, <1>8
  <2>2. CASE i = n + 1 /\ j \in 1..n
    BY <2>2, <1>3, <1>7
  <2>3. CASE j = n + 1 /\ i \in 1..n
    BY <2>3, <1>3, <1>7
  <2> QED BY <2>1, <2>2, <2>3, <1>4, <1>8
<1>9. \A i \in 1..(n + 1) : Len(u[i].args) <= 1
  BY <1>3, <1>4, <1>7
<1>10. StackOK(u)
  BY <1>3, <1>8, <1>9 DEF StackOK
<1> QED BY <1>2, <1>5, <1>6, <1>10

LEMMA Pops ==
  ASSUME NEW st, StackOK(st), st # <<>>
  PROVE  /\ StackOK(Front(st)) /\ RunOf(Front(st)) = RunOf(st) \ {Last(st).c}
         /\ ArgsOf(Front(st)) = ArgsOf(st) \ ToSet(Last(st).args)
         /\ Last(st) \in FrameTypes /\ Last(st).c \in RunOf(st)
         /\ ToSet(Last(st).args) \subseteq ArgsOf(st) /\ Len(Last(st).args) <= 1
<1>1. PICK n \in Nat : n = Len(st) /\ n >= 1 /\ st \in Seq(FrameTypes)
  BY FrontLast DEF StackOK
<1>2. PICK u, l : u = Front(st) /\ l = Last(st)
  OBVIOUS
<1>3. /\ u \in Seq(FrameTypes) /\ Len(u) = n - 1 /\ st[n] = l /\ l \in FrameTypes
      /\ \A i \in 1..(n - 1) : u[i] = st[i]
  BY <1>1, <1>2, FrontLast
<1>4. 1..n = (1..(n - 1)) \cup {n} /\ n \notin 1..(n - 1)
  BY <1>1
<1>5. /\ \A i \in 1..n : Len(st[i].args) <= 1
      /\ \A i, j \in 1..n : i # j => /\ st[i].c # st[j].c
                                     /\ ToSet(st[i].args) \cap ToSet(st[j].args) = {}
  BY <1>1 DEF StackOK
<1>6. RunOf(st) = {st[i].c : i \in 1..n} /\ RunOf(u) = {st[i].c : i \in 1..(n - 1)}
  BY <1>1, <1>3 DEF RunOf
<1>7. \A i \in 1..(n - 1) : st[i].c # l.c /\ ToSet(st[i].args) \cap ToSet(l.args) = {}
  BY <1>3, <1>4, <1>5
<1>8. RunOf(u) = RunOf(st) \ {l.c} /\ l.c \in RunOf(st)
  BY <1>3, <1>4, <1>6, <1>7
<1>9. /\ ArgsOf(st) = UNION {ToSet(st[i].args) : i \in 1..n}
      /\ ArgsOf(u) = UNION {ToSet(st[i].args) : i \in 1..(n - 1)}
  <2>1. \A i \in 1..(n - 1) : ToSet(u[i].args) = ToSet(st[i].args)
    BY <1>3
  <2> QED BY <2>1, <1>1, <1>3 DEF ArgsOf
<1>10. ArgsOf(u) = ArgsOf(st) \ ToSet(l.args) /\ ToSet(l.args) \subseteq ArgsOf(st)
  BY <1>3, <1>4, <1>7, <1>9
<1>11. StackOK(u)
  <2>1. \A i \in 1..(n - 1) : u[i] = st[i] /\ i \in 1..n
    BY <1>3, <1>4
  <2> QED BY <2>1, <1>3, <1>5 DEF StackOK
<1>12. Len(l.args) <= 1
  BY <1>3, <1>4, <1>5
<1> QED BY <1>2, <1>3, <1>8, <1>10, <1>11, <1>12

LEMMA EmptyStack == StackOK(<<>>) /\ RunOf(<<>>) = {} /\ ArgsOf(<<>>) = {}
<1> SUFFICES ASSUME NEW e, e = <<>> PROVE StackOK(e) /\ RunOf(e) = {} /\ ArgsOf(e) = {}
  OBVIOUS
<1>1. e \in Seq(FrameTypes) /\ Len(e) = 0
  BY EmptySeq
<1>2. 1..Len(e) = {}
  BY <1>1
<1> QED BY <1>1, <1>2 DEF StackOK, RunOf, ArgsOf

\* A sequence of one element at most, and its elements.
LEMMA OneAtMost ==
  ASSUME NEW S, NEW q \in Seq(S), Len(q) <= 1
  PROVE  \/ q = <<>> /\ ToSet(q) = {}
         \/ q # <<>> /\ ToSet(q) = {Head(q)} /\ Head(q) \in S
<1>1. PICK n \in Nat : n = Len(q) /\ DOMAIN q = 1..n
  BY LenProperties
<1>2. CASE q = <<>>
  BY <1>2 DEF ToSet
<1>3. CASE q # <<>>
  <2>1. n # 0
    BY <1>1, <1>3, EmptySeq
  <2>2. n = 1
    BY <2>1, <1>1
  <2>3. Head(q) = q[1] /\ q[1] \in S
    BY <1>1, <2>2, ElementOfSeq
  <2>4. 1..1 = {1}
    OBVIOUS
  <2> QED BY <1>1, <1>3, <2>2, <2>3, <2>4 DEF ToSet
<1> QED BY <1>2, <1>3

(***************************************************************************)
(* The invariant, for the registry state r, the calls st and the handles h. *)
(***************************************************************************)

Good(r, st, h) == /\ GoodReg(r, RunOf(st), h \cup ArgsOf(st)) /\ StackOK(st)
                  /\ h \cap ArgsOf(st) = {} /\ IsFiniteSet(h)

LEMMA GoodNow ==
  ASSUME IInv, ~dead
  PROVE  Good(Registry, stack, held)
  BY DEF IInv, Good, GoodReg, Registry

LEMMA GoodNext ==
  ASSUME NEW r, NEW st, NEW h, Good(r, st, h), stack' = st, held' = h,
         slots' = r.slots, free' = r.free, table' = r.table, cl' = r.cl
  PROVE  IInv'
  BY DEF IInv, Good, GoodReg

LEMMA InitIInv == Init => IInv
<1> SUFFICES ASSUME Init PROVE IInv
  OBVIOUS
<1>1. /\ table = NewTable /\ held = {} /\ stack = <<>>
      /\ slots = [a \in Arities |-> <<>>] /\ free = [a \in Arities |-> <<>>]
      /\ cl = [c \in Closures |-> Unmade]
  BY DEF Init
<1>2. StackOK(stack) /\ RunOf(stack) = {} /\ ArgsOf(stack) = {}
  BY <1>1, EmptyStack
<1>3. Live(cl) = {}
  BY <1>1 DEF Live, Unmade
<1>4. PICK e : e = <<>>
  OBVIOUS
<1>5. e \in Seq(SlotTypes) /\ e \in Seq(Nat) /\ Len(e) = 0 /\ ToSet(e) = {} /\ IsInjective(e)
  BY <1>4, EmptySeq DEF ToSet, IsInjective
<1>6. RegOK(slots, free, cl, RunOf(stack))
  <2>1. slots = [a \in Arities |-> e] /\ free = [a \in Arities |-> e]
    BY <1>1, <1>4
  <2>2. RegTypes(slots, free, cl, {})
    BY <1>1, <1>5, <2>1 DEF RegTypes, ClTypes, Unmade
  <2>3. FreeExact(slots, free)
    BY <1>5, <2>1 DEF FreeExact
  <2>4. Occupied(slots, cl, {})
    BY <1>5, <2>1 DEF Occupied
  <2>5. Behind(slots, cl, {}) /\ Made(slots, cl, {})
    BY <1>1, <1>3 DEF Behind, Made, Unmade
  <2> QED BY <1>2, <2>2, <2>3, <2>4, <2>5 DEF RegOK
<1>7. TableOK(table) /\ OwnersOK(table, cl, held \cup ArgsOf(stack))
  BY <1>1, <1>2, <1>3, InitialTable DEF OwnersOK
<1>8. IsFiniteSet(held)
  BY <1>1, FS_EmptySet
<1> QED BY <1>1, <1>2, <1>6, <1>7, <1>8 DEF IInv

\* An index of the table survives the sign a trampoline gives its answer.
LEMMA DecodesAs ==
  ASSUME NEW i \in Nat, i <= MaxIndex, NEW throws \in BOOLEAN
  PROVE  Decode(Encode(i, throws)) = i
<1>1. i + 1 < 64
  BY ClosureAssumption DEF HighBit
<1>2. (i + 1) % 64 = i + 1 /\ (i + 1 + 64) % 64 = i + 1
  BY <1>1
<1> QED BY <1>2 DEF Decode, Encode, HighBit

LEMMA OwnedIndex ==
  ASSUME NEW t, NEW k, NEW own, TableOK(t), OwnersOK(t, k, own), NEW i \in own
  PROVE  i \in Nat /\ i <= MaxIndex
<1>1. i \in DOMAIN t.heap
  BY DEF OwnersOK, Allocated
<1>2. PICK n \in Nat : n <= MaxIndex + 1 /\ DOMAIN t.heap = 0..(n - 1)
  BY DEF TableOK
<1> QED BY <1>1, <1>2, ClosureAssumption

(***************************************************************************)
(* Handles.                                                                *)
(***************************************************************************)

\* A handle that Rust gets.
LEMMA HandleEnters ==
  ASSUME IInv, ~dead, Room, NEW v, table' = Add(table, v), held' = held \cup {NewIndex(table)},
         UNCHANGED <<slots, free, cl, stack>>
  PROVE  IInv'
<1>1. Good(Registry, stack, held)
  BY GoodNow
<1>2. PICK r : r = [slots |-> slots, free |-> free, table |-> Add(table, v), cl |-> cl]
  OBVIOUS
<1>3. r.slots = slots /\ r.free = free /\ r.table = Add(table, v) /\ r.cl = cl
  BY <1>2
<1>4. PICK h : h = held \cup {NewIndex(table)}
  OBVIOUS
<1>5. PICK i : i = NewIndex(table)
  OBVIOUS
<1>6. /\ TableOK(table) /\ OwnersOK(table, cl, held \cup ArgsOf(stack))
      /\ RegOK(slots, free, cl, RunOf(stack))
  BY <1>1 DEF Good, GoodReg, Registry
<1>7. /\ TableOK(Add(table, v)) /\ OwnersOK(Add(table, v), cl, (held \cup ArgsOf(stack)) \cup {i})
      /\ i \notin held \cup ArgsOf(stack)
  BY <1>5, <1>6, OwnEnters DEF Room
<1>8. (held \cup ArgsOf(stack)) \cup {i} = h \cup ArgsOf(stack)
  BY <1>4, <1>5
<1>9. IsFiniteSet(h)
  BY <1>1, <1>4, FS_AddElement DEF Good
<1>10. Good(r, stack, h)
  BY <1>1, <1>3, <1>4, <1>5, <1>6, <1>7, <1>8, <1>9 DEF Good, GoodReg
<1> QED BY <1>3, <1>4, <1>10, GoodNext

\* A handle that Rust drops.
LEMMA HandleLeaves ==
  ASSUME IInv, ~dead, NEW i \in held, table' = Drop(table, i), held' = held \ {i},
         UNCHANGED <<slots, free, cl, stack>>
  PROVE  IInv'
<1>1. Good(Registry, stack, held)
  BY GoodNow
<1>2. PICK r : r = [slots |-> slots, free |-> free, table |-> Drop(table, i), cl |-> cl]
  OBVIOUS
<1>3. r.slots = slots /\ r.free = free /\ r.table = Drop(table, i) /\ r.cl = cl
  BY <1>2
<1>4. PICK h : h = held \ {i}
  OBVIOUS
<1>5. /\ TableOK(table) /\ OwnersOK(table, cl, held \cup ArgsOf(stack))
      /\ RegOK(slots, free, cl, RunOf(stack)) /\ held \cap ArgsOf(stack) = {}
  BY <1>1 DEF Good, GoodReg, Registry
<1>6. TableOK(Drop(table, i)) /\ OwnersOK(Drop(table, i), cl, (held \cup ArgsOf(stack)) \ {i})
  BY <1>5, OwnLeaves
<1>7. (held \cup ArgsOf(stack)) \ {i} = h \cup ArgsOf(stack)
  BY <1>4, <1>5
<1>8. IsFiniteSet(h)
  BY <1>1, <1>4, FS_RemoveElement DEF Good
<1>9. Good(r, stack, h)
  BY <1>1, <1>3, <1>4, <1>5, <1>6, <1>7, <1>8 DEF Good, GoodReg
<1> QED BY <1>3, <1>4, <1>9, GoodNext

LEMMA HandlesKeep ==
  ASSUME IInv, ~dead, Handles
  PROVE  IInv'
<1>1. ASSUME NEW v \in Payloads, Make(v) \/ ToWasmLite(v) PROVE IInv'
  BY <1>1, HandleEnters DEF Make, ToWasmLite
<1>2. ASSUME NEW i \in held, Clone(i) PROVE IInv'
  BY <1>2, HandleEnters DEF Clone
<1>3. ASSUME NEW i \in held, DropHandle(i) \/ ToWasmBindgen(i) PROVE IInv'
  BY <1>3, HandleLeaves DEF DropHandle, ToWasmBindgen
<1> QED BY <1>1, <1>2, <1>3 DEF Handles

(***************************************************************************)
(* Closures are made, dropped and forgotten.                               *)
(***************************************************************************)

LEMMA NewKeeps ==
  ASSUME IInv, ~dead, NEW c \in Closures, NEW S \in SUBSET Closures, New(c, S)
  PROVE  IInv'
<1>1. /\ Good(Registry, stack, held) /\ TableOK(table)
      /\ OwnersOK(table, cl, held \cup ArgsOf(stack))
      /\ RegOK(slots, free, cl, RunOf(stack))
  BY GoodNow DEF Good, GoodReg, Registry
<1>2. PICK a, k, s, f, t : a = ArityOf(c) /\ k = cl' /\ s = slots' /\ f = free' /\ t = table'
  OBVIOUS
<1>3. PICK id : id = IF free[a] # <<>> THEN Last(free[a]) ELSE Len(slots[a])
  OBVIOUS
<1>4. PICK v : v = [st |-> "filled", c |-> c]
  OBVIOUS
<1>5. /\ cl[c] = Unmade /\ NewIndex(table) <= MaxIndex
      /\ s = IF free[a] # <<>> THEN SetSlot(slots, a, id, v)
             ELSE [slots EXCEPT ![a] = Append(@, v)]
      /\ f = IF free[a] # <<>> THEN [free EXCEPT ![a] = Front(@)] ELSE free
      /\ t = Add(table, c) /\ stack' = stack /\ held' = held
  BY <1>2, <1>3, <1>4 DEF New, Room
<1>6. k = [d \in Closures |->
             IF d = c THEN [st |-> "owned", by |-> "none", id |-> id, handle |-> NewIndex(table)]
             ELSE IF d \in S THEN [cl[d] EXCEPT !.by = c] ELSE cl[d]]
  BY <1>2, <1>3 DEF New
<1>7. S \subseteq Live(cl)
  BY DEF New, Owned, Live
<1>8. cl \in [Closures -> ClTypes] /\ a \in Arities /\ free[a] \in Seq(Nat)
      /\ slots[a] \in Seq(SlotTypes)
  BY <1>1, <1>2, ClosureAssumption DEF RegOK, RegTypes
<1>9. id \in Nat /\ NewIndex(table) \in Nat
  <2>1. free[a] # <<>> => Last(free[a]) \in Nat
    BY <1>8, FrontLast
  <2>2. Len(slots[a]) \in Nat
    BY <1>8, LenProperties
  <2> QED BY <2>1, <2>2, <1>1, <1>3, <1>5, Enters
<1>10. /\ k[c].st = "owned" /\ k[c].id = id /\ k[c].handle = NewIndex(table)
       /\ k[c] \in ClTypes
  BY <1>6, <1>9 DEF ClTypes
<1>11. \A d \in Closures : d # c => k[d] = IF d \in S THEN [cl[d] EXCEPT !.by = c] ELSE cl[d]
  BY <1>6
<1>12. ASSUME NEW d \in Closures, d # c
       PROVE  /\ k[d].st = cl[d].st /\ k[d].id = cl[d].id /\ k[d].handle = cl[d].handle
              /\ k[d] \in ClTypes /\ (k[d].st = "unmade" => k[d] = cl[d])
  <2>1. cl[d] \in ClTypes
    BY <1>8
  <2>2. CASE d \in S
    <3>1. k[d] = [cl[d] EXCEPT !.by = c]
      BY <2>2, <1>11, <1>12
    <3>2. cl[d].st # "unmade"
      BY <2>2, <1>7 DEF Live
    <3> QED BY <2>1, <3>1, <3>2 DEF ClTypes
  <2>3. CASE d \notin S
    BY <2>1, <2>3, <1>11, <1>12
  <2> QED BY <2>2, <2>3
<1>13. k \in [Closures -> ClTypes]
  BY <1>6, <1>10, <1>12
<1>14. RegOK(s, f, k, RunOf(stack)) /\ Live(k) = Live(cl) \cup {c} /\ c \notin Live(cl)
  <2>1. Joins(cl, k, c)
    BY <1>5, <1>10, <1>12, <1>13 DEF Joins
  <2>2. TakesSlot(slots, free, s, f, ArityOf(c), k[c].id, v)
    BY <1>2, <1>3, <1>5, <1>10 DEF TakesSlot
  <2> QED BY <1>1, <1>4, <2>1, <2>2, Registers
<1>15. TableOK(t) /\ OwnersOK(t, k, held \cup ArgsOf(stack))
  <2>1. \A d \in Live(cl) : k[d].handle = cl[d].handle
    BY <1>12, <1>14 DEF Live
  <2> QED BY <2>1, <1>1, <1>5, <1>10, <1>14, FunctionEnters
<1>16. PICK r : r = [slots |-> s, free |-> f, table |-> t, cl |-> k]
  OBVIOUS
<1>17. r.slots = s /\ r.free = f /\ r.table = t /\ r.cl = k
  BY <1>16
<1>18. Good(r, stack, held)
  BY <1>1, <1>14, <1>15, <1>17 DEF Good, GoodReg
<1> QED BY <1>2, <1>5, <1>17, <1>18, GoodNext

\* The rest of the state goes on with other registries.
LEMMA RegistryMoves ==
  ASSUME NEW r, NEW r2, NEW st, NEW h, Good(r, st, h), GoodReg(r2, RunOf(st), h \cup ArgsOf(st))
  PROVE  Good(r2, st, h)
  BY DEF Good

LEMMA DropClosureKeeps ==
  ASSUME IInv, ~dead, NEW c \in Closures, DropClosure(c)
  PROVE  IInv'
<1>1. Good(Registry, stack, held)
  BY GoodNow
<1>2. PICK r, run, own : r = Registry /\ run = RunOf(stack) /\ own = held \cup ArgsOf(stack)
  OBVIOUS
<1>3. GoodReg(r, run, own) /\ c \in Live(r.cl) /\ r.cl = cl
  BY <1>1, <1>2 DEF Good, DropClosure, Owned, Live, Registry
<1>4. stack' = stack /\ held' = held
  BY DEF DropClosure
<1>5. CASE Becomes(Unregister(Registry, c))
  <2>1. PICK r2 : r2 = Unregister(r, c)
    OBVIOUS
  <2>2. GoodReg(r2, run, own)
    BY <2>1, <1>3, Unregisters
  <2>3. Good(r2, stack, held)
    BY <1>1, <1>2, <2>2, RegistryMoves
  <2>4. slots' = r2.slots /\ free' = r2.free /\ table' = r2.table /\ cl' = r2.cl
    BY <1>2, <1>5, <2>1 DEF Becomes
  <2> QED BY <1>4, <2>3, <2>4, GoodNext
<1>6. CASE Becomes(Unregister(WithHeld(Registry, c), c))
  <2>1. PICK r1, r2 : r1 = WithHeld(r, c) /\ r2 = Unregister(r1, c)
    OBVIOUS
  <2>2. Held(c) \subseteq Live(r.cl)
    BY <1>3 DEF Held, Live
  <2>3. c \notin Held(c)
    BY ClosureAssumption DEF Held, DropClosure, Owned
  <2>4. GoodReg(r1, run, own) /\ c \in Live(r1.cl)
    BY <1>3, <2>1, <2>2, <2>3, HeldGo
  <2>5. GoodReg(r2, run, own)
    BY <2>1, <2>4, Unregisters
  <2>6. Good(r2, stack, held)
    BY <1>1, <1>2, <2>5, RegistryMoves
  <2>7. slots' = r2.slots /\ free' = r2.free /\ table' = r2.table /\ cl' = r2.cl
    BY <1>2, <1>6, <2>1 DEF Becomes
  <2> QED BY <1>4, <2>6, <2>7, GoodNext
<1>7. CASE dead'
  BY <1>7 DEF IInv
<1> QED BY <1>5, <1>6, <1>7 DEF DropClosure

LEMMA ForgetKeeps ==
  ASSUME IInv, ~dead, NEW c \in Closures, Forget(c)
  PROVE  IInv'
<1>1. /\ Good(Registry, stack, held) /\ TableOK(table)
      /\ OwnersOK(table, cl, held \cup ArgsOf(stack))
      /\ RegOK(slots, free, cl, RunOf(stack))
  BY GoodNow DEF Good, GoodReg, Registry
<1>2. PICK k : k = [cl EXCEPT ![c].st = "forgotten"]
  OBVIOUS
<1>3. cl \in [Closures -> ClTypes] /\ c \in Live(cl)
  BY <1>1 DEF RegOK, RegTypes, Forget, Owned, Live
<1>4. /\ k \in [Closures -> ClTypes] /\ k[c].st = "forgotten"
      /\ \A d \in Closures : k[d].id = cl[d].id /\ k[d].handle = cl[d].handle
      /\ \A d \in Closures : d # c => k[d] = cl[d]
  BY <1>2, <1>3 DEF ClTypes
<1>5. Live(k) = Live(cl)
  BY <1>3, <1>4 DEF Live
<1>6. RegOK(slots, free, k, RunOf(stack))
  <2>1. RegTypes(slots, free, k, RunOf(stack)) /\ FreeExact(slots, free)
    BY <1>1, <1>4 DEF RegOK, RegTypes
  <2>2. RunOf(stack) \subseteq Closures
    BY <1>1 DEF RegOK, RegTypes
  <2>3. Occupied(slots, k, RunOf(stack))
    <3>1. Occupied(slots, cl, RunOf(stack))
      BY <1>1 DEF RegOK
    <3> QED BY <3>1, <1>4, <1>5, <2>2 DEF Occupied, Live
  <2>4. Behind(slots, k, RunOf(stack))
    <3>1. Behind(slots, cl, RunOf(stack))
      BY <1>1 DEF RegOK
    <3>2. \A d \in Closures : StatusOf(k, RunOf(stack), d) = StatusOf(cl, RunOf(stack), d)
      BY <1>5 DEF StatusOf
    <3> QED BY <3>1, <3>2, <1>4, <1>5, <2>2 DEF Behind, Live
  <2>5. Made(slots, k, RunOf(stack))
    <3>1. Made(slots, cl, RunOf(stack))
      BY <1>1 DEF RegOK
    <3>2. cl[c].st # "unmade"
      BY <1>3 DEF Live
    <3> QED BY <3>1, <3>2, <1>4 DEF Made
  <2> QED BY <2>1, <2>3, <2>4, <2>5 DEF RegOK
<1>7. OwnersOK(table, k, held \cup ArgsOf(stack))
  <2>1. {k[d].handle : d \in Live(k)} = {cl[d].handle : d \in Live(cl)}
    BY <1>4, <1>5 DEF Live
  <2>2. \A d \in Live(k) : k[d].handle = cl[d].handle
    BY <1>4 DEF Live
  <2> QED BY <2>1, <2>2, <1>1, <1>5 DEF OwnersOK
<1>8. PICK r : r = [slots |-> slots, free |-> free, table |-> table, cl |-> k]
  OBVIOUS
<1>9. r.slots = slots /\ r.free = free /\ r.table = table /\ r.cl = k
  BY <1>8
<1>10. Good(r, stack, held)
  BY <1>1, <1>6, <1>7, <1>9 DEF Good, GoodReg
<1>11. cl' = k /\ UNCHANGED <<slots, free, table, held, stack>>
  BY <1>2 DEF Forget
<1> QED BY <1>9, <1>10, <1>11, GoodNext

(***************************************************************************)
(* Calls and returns.                                                      *)
(***************************************************************************)

\* The arguments of a call that nobody keeps are freed.
LEMMA ArgumentsLeave ==
  ASSUME NEW t, NEW k, NEW own, TableOK(t), OwnersOK(t, k, own),
         NEW is \in Seq(Nat), Len(is) <= 1, ToSet(is) \subseteq own
  PROVE  TableOK(DropAll(t, is)) /\ OwnersOK(DropAll(t, is), k, own \ ToSet(is))
<1>1. CASE is = <<>> /\ ToSet(is) = {}
  <2>1. DropAll(t, is) = t /\ own \ ToSet(is) = own
    BY <1>1 DEF DropAll
  <2> QED BY <2>1
<1>2. CASE is # <<>> /\ ToSet(is) = {Head(is)}
  <2>1. PICK i \in own : i = Head(is)
    BY <1>2
  <2>2. TableOK(Drop(t, i)) /\ OwnersOK(Drop(t, i), k, own \ {i})
    BY OwnLeaves
  <2>3. DropAll(t, is) = Drop(t, i) /\ own \ ToSet(is) = own \ {i}
    BY <1>2, <2>1 DEF DropAll
  <2> QED BY <2>2, <2>3
<1> QED BY <1>1, <1>2, OneAtMost

\* The arguments of a call enter the table.
IndicesOf(t, vs) == IF vs = <<>> THEN <<>> ELSE <<NewIndex(t)>>
With(t, vs) == IF vs = <<>> THEN t ELSE Add(t, Head(vs))

LEMMA ArgumentsEnter ==
  ASSUME NEW t, NEW k, NEW own, TableOK(t), OwnersOK(t, k, own), NewIndex(t) <= MaxIndex, NEW vs
  PROVE  /\ TableOK(With(t, vs)) /\ OwnersOK(With(t, vs), k, own \cup ToSet(IndicesOf(t, vs)))
         /\ ToSet(IndicesOf(t, vs)) \cap own = {}
         /\ IndicesOf(t, vs) \in Seq(Nat) /\ Len(IndicesOf(t, vs)) <= 1
<1>1. PICK is, u : is = IndicesOf(t, vs) /\ u = With(t, vs)
  OBVIOUS
<1>2. CASE vs = <<>>
  <2>1. is = <<>> /\ u = t
    BY <1>1, <1>2 DEF IndicesOf, With
  <2>2. is \in Seq(Nat) /\ Len(is) = 0 /\ ToSet(is) = {}
    BY <2>1, EmptySeq DEF ToSet
  <2>3. own \cup ToSet(is) = own
    BY <2>2
  <2>4. OwnersOK(u, k, own \cup ToSet(is))
    BY <2>1, <2>3
  <2> QED BY <1>1, <2>1, <2>2, <2>4
<1>3. CASE vs # <<>>
  <2>1. PICK i : i = NewIndex(t)
    OBVIOUS
  <2>2. u = Add(t, Head(vs)) /\ is = <<i>>
    BY <1>1, <1>3, <2>1 DEF IndicesOf, With
  <2>3. TableOK(u) /\ OwnersOK(u, k, own \cup {i}) /\ i \notin own /\ i \in Nat
    BY <2>1, <2>2, OwnEnters
  <2>4. is \in Seq(Nat) /\ Len(is) = 1
    BY <2>2, <2>3
  <2>5. ToSet(is) = {i}
    <3>1. DOMAIN is = {1} /\ is[1] = i
      BY <2>2
    <3> QED BY <3>1 DEF ToSet
  <2>6. OwnersOK(u, k, own \cup ToSet(is))
    BY <2>3, <2>5
  <2> QED BY <1>1, <2>3, <2>4, <2>5, <2>6
<1> QED BY <1>2, <1>3

\* Arguments that entered and leave at once.
LEMMA ArgumentsPass ==
  ASSUME NEW t, NEW k, NEW own, TableOK(t), OwnersOK(t, k, own), NewIndex(t) <= MaxIndex, NEW vs
  PROVE  /\ TableOK(DropAll(With(t, vs), IndicesOf(t, vs)))
         /\ OwnersOK(DropAll(With(t, vs), IndicesOf(t, vs)), k, own)
<1>1. PICK is, u : is = IndicesOf(t, vs) /\ u = With(t, vs)
  OBVIOUS
<1>2. /\ TableOK(u) /\ OwnersOK(u, k, own \cup ToSet(is)) /\ ToSet(is) \cap own = {}
      /\ is \in Seq(Nat) /\ Len(is) <= 1
  BY <1>1, ArgumentsEnter
<1>3. PICK own2 : own2 = own \cup ToSet(is)
  OBVIOUS
<1>4. ToSet(is) \subseteq own2 /\ own2 \ ToSet(is) = own
  BY <1>2, <1>3
<1>5. TableOK(DropAll(u, is)) /\ OwnersOK(DropAll(u, is), k, own2 \ ToSet(is))
  BY <1>2, <1>3, <1>4, ArgumentsLeave
<1> QED BY <1>1, <1>4, <1>5

LEMMA CallKeeps ==
  ASSUME IInv, ~dead, NEW c \in Closures, NEW vs, Call(c, vs)
  PROVE  IInv'
<1>1. /\ Good(Registry, stack, held) /\ TableOK(table)
      /\ OwnersOK(table, cl, held \cup ArgsOf(stack)) /\ RegOK(slots, free, cl, RunOf(stack))
  BY GoodNow DEF Good, GoodReg, Registry
<1>2. PICK a, id, is, u, run, own :
        /\ a = ArityOf(c) /\ id = cl[c].id /\ is = IndicesOf(table, vs) /\ u = With(table, vs)
        /\ run = RunOf(stack) /\ own = held \cup ArgsOf(stack)
  OBVIOUS
<1>3. /\ cl[c] # Unmade /\ NewIndex(table) <= MaxIndex
      /\ held' = held /\ free' = free /\ cl' = cl
      /\ \/ /\ slots[a][id + 1].st = "filled"
            /\ slots' = SetSlot(slots, a, id, [slots[a][id + 1] EXCEPT !.st = "borrowed"])
            /\ stack' = Append(stack, [fn |-> c, c |-> slots[a][id + 1].c, args |-> is])
            /\ table' = u
         \/ table' = DropAll(u, is) /\ UNCHANGED <<slots, stack>>
  BY <1>2 DEF Call, Room, Slot, IndicesOf, With
<1>4. /\ a \in Arities /\ id \in Nat /\ id < Len(slots[a]) /\ run \subseteq Closures
      /\ cl \in [Closures -> ClTypes]
  <2>1. cl[c].st # "unmade"
    BY <1>1, <1>3 DEF RegOK, Made
  <2> QED BY <1>1, <1>2, <2>1, ClosureAssumption DEF RegOK, RegTypes, Made, ClTypes
<1>5. /\ TableOK(u) /\ OwnersOK(u, cl, own \cup ToSet(is)) /\ ToSet(is) \cap own = {}
      /\ is \in Seq(Nat) /\ Len(is) <= 1
      /\ TableOK(DropAll(u, is)) /\ OwnersOK(DropAll(u, is), cl, own)
  BY <1>1, <1>2, <1>3, ArgumentsEnter, ArgumentsPass
<1>6. CASE table' = DropAll(u, is) /\ UNCHANGED <<slots, stack>>
  <2>1. PICK r : r = [slots |-> slots, free |-> free, table |-> DropAll(u, is), cl |-> cl]
    OBVIOUS
  <2>2. r.slots = slots /\ r.free = free /\ r.table = DropAll(u, is) /\ r.cl = cl
    BY <2>1
  <2>3. Good(r, stack, held)
    BY <1>1, <1>2, <1>5, <2>2 DEF Good, GoodReg
  <2> QED BY <1>3, <1>6, <2>2, <2>3, GoodNext
<1>7. CASE /\ slots[a][id + 1].st = "filled"
           /\ slots' = SetSlot(slots, a, id, [slots[a][id + 1] EXCEPT !.st = "borrowed"])
           /\ stack' = Append(stack, [fn |-> c, c |-> slots[a][id + 1].c, args |-> is])
           /\ table' = u
  <2>1. PICK d : d = slots[a][id + 1].c
    OBVIOUS
  <2>2. d \in Live(cl) \cup run /\ d \in Closures /\ ArityOf(d) = a /\ cl[d].id = id
    BY <1>1, <1>2, <1>4, <1>7, <2>1, Occupant
  <2>3. slots[a][id + 1] = [st |-> StatusOf(cl, run, d), c |-> d]
    BY <1>1, <1>2, <2>2 DEF RegOK, Behind
  <2>4. d \notin run /\ d \in Live(cl)
    BY <1>7, <2>2, <2>3 DEF StatusOf
  <2>5. PICK v : v = [slots[a][id + 1] EXCEPT !.st = "borrowed"]
    OBVIOUS
  <2>6. v = [st |-> "borrowed", c |-> d]
    BY <2>3, <2>5
  <2>7. PICK run2 : run2 = run \cup {d}
    OBVIOUS
  <2>8. SlotFollows(free, free, cl, run2, a, id, d, v)
    BY <2>4, <2>6, <2>7 DEF SlotFollows, StatusOf
  <2>9. OthersStay(cl, run, cl, run2, d)
    BY <2>7 DEF OthersStay
  <2>10. RegOK(SetSlot(slots, a, id, v), free, cl, run2)
    <3>1. slots[a][id + 1].st # "empty" /\ run2 \in SUBSET Closures
      BY <1>4, <1>7, <2>2, <2>7
    <3> QED BY <1>1, <1>2, <1>4, <2>1, <2>8, <2>9, <3>1, SlotChanges
  <2>11. PICK fr : fr = [fn |-> c, c |-> d, args |-> is]
    OBVIOUS
  <2>12. fr \in FrameTypes /\ fr.c = d /\ fr.args = is
    BY <1>5, <2>2, <2>11 DEF FrameTypes
  <2>13. PICK st : st = Append(stack, fr)
    OBVIOUS
  <2>14. StackOK(st) /\ RunOf(st) = run2 /\ ArgsOf(st) = ArgsOf(stack) \cup ToSet(is)
    <3>1. StackOK(stack) /\ ToSet(fr.args) \cap ArgsOf(stack) = {}
      BY <1>1, <1>2, <1>5, <2>12 DEF Good
    <3>2. fr.c \notin RunOf(stack) /\ Len(fr.args) <= 1
      BY <1>2, <1>5, <2>4, <2>12
    <3> QED BY <1>2, <2>7, <2>12, <2>13, <3>1, <3>2, Pushes
  <2>15. own \cup ToSet(is) = held \cup ArgsOf(st) /\ held \cap ArgsOf(st) = {}
    BY <1>1, <1>2, <1>5, <2>14 DEF Good
  <2>16. PICK r : r = [slots |-> SetSlot(slots, a, id, v), free |-> free, table |-> u, cl |-> cl]
    OBVIOUS
  <2>17. r.slots = SetSlot(slots, a, id, v) /\ r.free = free /\ r.table = u /\ r.cl = cl
    BY <2>16
  <2>18. IsFiniteSet(held)
    BY <1>1 DEF Good
  <2>19. Good(r, st, held)
    BY <1>5, <2>10, <2>14, <2>15, <2>17, <2>18 DEF Good, GoodReg
  <2> QED BY <1>3, <1>7, <2>1, <2>5, <2>11, <2>13, <2>17, <2>19, GoodNext
<1> QED BY <1>3, <1>6, <1>7

LEMMA KeepKeeps ==
  ASSUME IInv, ~dead, Keep
  PROVE  IInv'
<1>1. /\ Good(Registry, stack, held) /\ StackOK(stack) /\ held \cap ArgsOf(stack) = {}
      /\ IsFiniteSet(held)
  BY GoodNow DEF Good
<1>2. PICK fr, st, l, h :
        /\ l = Last(stack) /\ fr = [l EXCEPT !.args = <<>>] /\ st = Append(Front(stack), fr)
        /\ h = held \cup ToSet(l.args)
  OBVIOUS
<1>3. /\ stack # <<>> /\ stack' = st /\ held' = h
      /\ UNCHANGED <<table, foreign, slots, free, cl, dead>>
  BY <1>2 DEF Keep, Top
<1>4. /\ StackOK(Front(stack)) /\ RunOf(Front(stack)) = RunOf(stack) \ {l.c}
      /\ ArgsOf(Front(stack)) = ArgsOf(stack) \ ToSet(l.args)
      /\ l \in FrameTypes /\ l.c \in RunOf(stack)
      /\ ToSet(l.args) \subseteq ArgsOf(stack) /\ Len(l.args) <= 1
  BY <1>1, <1>2, <1>3, Pops
<1>5. PICK e : e = <<>>
  OBVIOUS
<1>6. e \in Seq(Nat) /\ Len(e) = 0 /\ ToSet(e) = {}
  BY <1>5, EmptySeq DEF ToSet
<1>7. fr \in FrameTypes /\ fr.c = l.c /\ fr.args = e
  BY <1>2, <1>4, <1>5, <1>6 DEF FrameTypes
<1>8. /\ StackOK(st) /\ RunOf(st) = RunOf(Front(stack)) \cup {l.c}
      /\ ArgsOf(st) = ArgsOf(Front(stack))
  <2>1. /\ fr.c \notin RunOf(Front(stack)) /\ Len(fr.args) <= 1 /\ ToSet(fr.args) = {}
    BY <1>4, <1>6, <1>7
  <2>2. PICK ft : ft = Front(stack) /\ st = Append(ft, fr)
    BY <1>2
  <2>3. ToSet(fr.args) \cap ArgsOf(ft) = {} /\ ArgsOf(ft) \cup ToSet(fr.args) = ArgsOf(ft)
    BY <2>1
  <2>4. /\ StackOK(st) /\ RunOf(st) = RunOf(ft) \cup {fr.c}
        /\ ArgsOf(st) = ArgsOf(ft) \cup ToSet(fr.args)
    BY <1>4, <1>7, <2>1, <2>2, <2>3, Pushes
  <2> QED BY <1>7, <2>2, <2>3, <2>4
<1>9. RunOf(st) = RunOf(stack)
  BY <1>4, <1>8
<1>10. held \cup ArgsOf(stack) = h \cup ArgsOf(st) /\ h \cap ArgsOf(st) = {}
  BY <1>1, <1>2, <1>4, <1>8
<1>11. IsFiniteSet(h)
  <2>1. ToSet(l.args) = {} \/ ToSet(l.args) = {Head(l.args)}
    <3>1. l.args \in Seq(Nat)
      BY <1>4 DEF FrameTypes
    <3> QED BY <3>1, <1>4, OneAtMost
  <2>2. CASE ToSet(l.args) = {}
    BY <1>1, <1>2, <2>2
  <2>3. CASE ToSet(l.args) = {Head(l.args)}
    BY <1>1, <1>2, <2>3, FS_AddElement
  <2> QED BY <2>1, <2>2, <2>3
<1>12. Good(Registry, st, h)
  BY <1>1, <1>8, <1>9, <1>10, <1>11 DEF Good
<1>13. PICK r : r = Registry
  OBVIOUS
<1>14. r.slots = slots /\ r.free = free /\ r.table = table /\ r.cl = cl
  BY <1>13 DEF Registry
<1> QED BY <1>3, <1>12, <1>13, <1>14, GoodNext

\* The closure c returns: it can be called again, or what is left of it goes.
LEMMA GivesBack ==
  ASSUME NEW r, r = Registry, NEW run, NEW own, GoodReg(r, run, own), NEW c \in run
  PROVE  GoodReg(GiveBack(r, c), run \ {c}, own)
<1>1. PICK s, f, k, t : s = slots /\ f = free /\ k = cl /\ t = table
  OBVIOUS
<1>2. r = [slots |-> s, free |-> f, table |-> t, cl |-> k]
  BY <1>1 DEF Registry
<1>3. r.slots = s /\ r.free = f /\ r.table = t /\ r.cl = k
  BY <1>2
<1>4. RegOK(s, f, k, run) /\ TableOK(t) /\ OwnersOK(t, k, own)
  BY <1>3 DEF GoodReg
<1>5. PICK a, id, run2 : a = ArityOf(c) /\ id = k[c].id /\ run2 = run \ {c}
  OBVIOUS
<1>6. /\ c \in Closures /\ a \in Arities /\ id \in Nat /\ id < Len(s[a])
      /\ s[a][id + 1] = [st |-> StatusOf(k, run, c), c |-> c]
      /\ k \in [Closures -> ClTypes] /\ run \subseteq Closures /\ run2 \subseteq Closures
  BY <1>4, <1>5, ClosureAssumption DEF RegOK, RegTypes, Behind, ClTypes
<1>7. s[a][id + 1].st = StatusOf(k, run, c) /\ s[a][id + 1].c = c /\ s[a][id + 1].st # "empty"
  BY <1>6 DEF StatusOf
<1>8. OthersStay(k, run, k, run2, c)
  BY <1>5 DEF OthersStay
<1>9. CASE s[a][id + 1].st = "dropped"
  <2>1. PICK f2, s2 : f2 = [f EXCEPT ![a] = Append(@, id)] /\ s2 = SetSlot(s, a, id, Empty)
    OBVIOUS
  <2>2. PICK r2 : r2 = [slots |-> s2, free |-> f2, table |-> t, cl |-> k]
    OBVIOUS
  <2>3. r2.slots = s2 /\ r2.free = f2 /\ r2.table = t /\ r2.cl = k
    BY <2>2
  <2>4. GiveBack(r, c) = WithHeld(r2, c)
    BY <1>3, <1>5, <1>9, <2>1, <2>2 DEF GiveBack
  <2>5. SlotFollows(f, f2, k, run2, a, id, c, Empty)
    <3>1. c \notin Live(k) /\ c \notin run2
      BY <1>5, <1>7, <1>9 DEF StatusOf
    <3> QED BY <2>1, <3>1 DEF SlotFollows
  <2>6. RegOK(s2, f2, k, run2)
    BY <1>4, <1>6, <1>7, <1>8, <2>1, <2>5, SlotChanges
  <2>7. GoodReg(r2, run2, own)
    BY <1>4, <2>3, <2>6 DEF GoodReg
  <2>8. Held(c) \subseteq Live(r2.cl)
    BY <1>1, <2>3 DEF Held, Live
  <2> QED BY <1>5, <2>4, <2>7, <2>8, HeldGo
<1>10. CASE s[a][id + 1].st # "dropped"
  <2>1. PICK v : v = [s[a][id + 1] EXCEPT !.st = "filled"]
    OBVIOUS
  <2>2. PICK s2 : s2 = SetSlot(s, a, id, v)
    OBVIOUS
  <2>3. PICK r2 : r2 = [slots |-> s2, free |-> f, table |-> t, cl |-> k]
    OBVIOUS
  <2>4. r2.slots = s2 /\ r2.free = f /\ r2.table = t /\ r2.cl = k
    BY <2>3
  <2>5. GiveBack(r, c) = r2
    BY <1>3, <1>5, <1>10, <2>1, <2>2, <2>3 DEF GiveBack
  <2>6. SlotFollows(f, f, k, run2, a, id, c, v)
    <3>1. c \in Live(k) /\ c \notin run2
      BY <1>5, <1>7, <1>10 DEF StatusOf
    <3>2. v = [st |-> "filled", c |-> c]
      BY <1>6, <2>1
    <3> QED BY <3>1, <3>2 DEF SlotFollows, StatusOf
  <2>7. RegOK(s2, f, k, run2)
    BY <1>4, <1>6, <1>7, <1>8, <2>2, <2>6, SlotChanges
  <2> QED BY <1>4, <1>5, <2>4, <2>5, <2>7 DEF GoodReg
<1> QED BY <1>9, <1>10

LEMMA ReturnKeeps ==
  ASSUME IInv, ~dead, NEW res \in SUBSET held, NEW throws \in BOOLEAN, Return(res, throws)
  PROVE  IInv'
<1>1. /\ Good(Registry, stack, held) /\ StackOK(stack) /\ held \cap ArgsOf(stack) = {}
      /\ IsFiniteSet(held) /\ GoodReg(Registry, RunOf(stack), held \cup ArgsOf(stack))
  BY GoodNow DEF Good
<1>2. PICK l, c, st, h, run, own :
        /\ l = Last(stack) /\ c = l.c /\ st = Front(stack) /\ h = held \ res
        /\ run = RunOf(stack) /\ own = held \cup ArgsOf(stack)
  OBVIOUS
<1>3. PICK r, back : r = Registry /\ back = GiveBack(r, c)
  OBVIOUS
<1>4. stack # <<>> /\ stack' = st
  BY <1>2 DEF Return
<1>5. CASE dead'
  BY <1>5 DEF IInv
<1>6. CASE ~dead'
  <2>1. PICK freed : freed = DropAll(back.table, l.args)
    OBVIOUS
  <2>2. /\ slots' = back.slots /\ free' = back.free /\ cl' = back.cl /\ held' = h
        /\ table' = IF res = {} THEN freed
                    ELSE Drop(freed, Decode(Encode(CHOOSE i \in res : TRUE, throws)))
        /\ res # {} => Cardinality(res) = 1
    BY <1>2, <1>3, <1>6, <2>1 DEF Return, Top
  <2>3. /\ StackOK(st) /\ RunOf(st) = run \ {c} /\ ArgsOf(st) = ArgsOf(stack) \ ToSet(l.args)
        /\ l \in FrameTypes /\ c \in run
        /\ ToSet(l.args) \subseteq ArgsOf(stack) /\ Len(l.args) <= 1
    BY <1>1, <1>2, <1>4, Pops
  <2>4. GoodReg(back, run \ {c}, own)
    BY <1>1, <1>2, <1>3, <2>3, GivesBack
  <2>5. PICK t, k : t = back.table /\ k = back.cl
    OBVIOUS
  <2>6. TableOK(t) /\ OwnersOK(t, k, own) /\ RegOK(back.slots, back.free, k, run \ {c})
    BY <2>4, <2>5 DEF GoodReg
  <2>7. PICK own2 : own2 = own \ ToSet(l.args)
    OBVIOUS
  <2>8. TableOK(freed) /\ OwnersOK(freed, k, own2)
    <3>1. l.args \in Seq(Nat) /\ ToSet(l.args) \subseteq own
      BY <1>2, <2>3 DEF FrameTypes
    <3> QED BY <2>1, <2>3, <2>5, <2>6, <2>7, <3>1, ArgumentsLeave
  <2>9. PICK t2 : t2 = table'
    OBVIOUS
  <2>10. TableOK(t2) /\ OwnersOK(t2, k, own2 \ res) /\ IsFiniteSet(h)
    <3>1. CASE res = {}
      <4>1. t2 = freed /\ own2 \ res = own2 /\ h = held
        BY <1>2, <2>2, <2>9, <3>1
      <4> QED BY <4>1, <1>1, <2>8
    <3>2. CASE res # {}
      <4>1. PICK i : res = {i}
        <5>1. IsFiniteSet(res)
          BY <1>1, FS_Subset
        <5> QED BY <2>2, <3>2, <5>1, FS_Singleton
      <4>2. i \in own2
        BY <1>1, <1>2, <2>3, <2>7, <4>1
      <4>3. i \in Nat /\ i <= MaxIndex
        BY <2>8, <4>2, OwnedIndex
      <4>4. (CHOOSE j \in res : TRUE) = i
        BY <4>1
      <4>5. Decode(Encode(i, throws)) = i
        BY <4>3, DecodesAs
      <4>6. t2 = Drop(freed, i)
        BY <2>2, <2>9, <3>2, <4>4, <4>5
      <4>7. TableOK(Drop(freed, i)) /\ OwnersOK(Drop(freed, i), k, own2 \ {i})
        BY <2>8, <4>2, OwnLeaves
      <4>8. IsFiniteSet(held \ {i})
        BY <1>1, FS_RemoveElement
      <4> QED BY <1>2, <4>1, <4>6, <4>7, <4>8
    <3> QED BY <3>1, <3>2
  <2>11. own2 \ res = h \cup ArgsOf(st) /\ h \cap ArgsOf(st) = {}
    BY <1>1, <1>2, <2>3, <2>7
  <2>12. PICK r2 : r2 = [slots |-> back.slots, free |-> back.free, table |-> t2, cl |-> k]
    OBVIOUS
  <2>13. r2.slots = back.slots /\ r2.free = back.free /\ r2.table = t2 /\ r2.cl = k
    BY <2>12
  <2>14. Good(r2, st, h)
    BY <2>3, <2>6, <2>10, <2>11, <2>13 DEF Good, GoodReg
  <2> QED BY <1>4, <2>2, <2>5, <2>9, <2>13, <2>14, GoodNext
<1> QED BY <1>5, <1>6

LEMMA StepIInv == IInv /\ [Next]_vars => IInv'
<1> SUFFICES ASSUME IInv, [Next]_vars PROVE IInv'
  OBVIOUS
<1>1. CASE UNCHANGED vars
  <2>1. UNCHANGED <<table, held, slots, free, cl, stack, dead>>
    BY <1>1 DEF vars
  <2> QED BY <2>1 DEF IInv
<1>2. CASE Next
  <2>1. ~dead
    BY <1>2 DEF Next
  <2>2. CASE Handles
    BY <2>1, <2>2, HandlesKeep
  <2>3. CASE Objects
    <3>1. ASSUME NEW c \in Closures, NEW S \in SUBSET Closures, New(c, S) PROVE IInv'
      BY <2>1, <3>1, NewKeeps
    <3>2. ASSUME NEW c \in Closures, DropClosure(c) PROVE IInv'
      BY <2>1, <3>2, DropClosureKeeps
    <3>3. ASSUME NEW c \in Closures, Forget(c) PROVE IInv'
      BY <2>1, <3>3, ForgetKeeps
    <3>4. ASSUME NEW c \in Closures, NEW vs, Call(c, vs) PROVE IInv'
      BY <2>1, <3>4, CallKeeps
    <3> QED BY <2>3, <3>1, <3>2, <3>3, <3>4 DEF Objects
  <2>4. CASE Returns
    BY <2>1, <2>4, KeepKeeps, ReturnKeeps DEF Returns
  <2> QED BY <1>2, <2>2, <2>3, <2>4 DEF Next
<1> QED BY <1>1, <1>2

\* The slots, the free lists and the table's owners agree in every state, whatever
\* is called, dropped, forgotten, kept or thrown while closures run.
THEOREM ClosuresInvariance == PageSpec => []IInv
<1>1. PageInit => IInv
  BY InitIInv DEF PageInit
<1>2. IInv /\ [PageNext]_pageVars => IInv'
  <2>1. [PageNext]_pageVars => [Next]_vars
    BY DEF PageNext, pageVars
  <2> QED BY <2>1, StepIInv
<1> QED BY <1>1, <1>2, PTL DEF PageSpec

(***************************************************************************)
(* What the invariant says.                                                *)
(***************************************************************************)

LEMMA TableCounts ==
  ASSUME IInv
  PROVE  TableBalanced
<1> SUFFICES ASSUME ~dead PROVE TableBalanced
  BY DEF TableBalanced
<1>1. /\ RegOK(slots, free, cl, RunOf(stack)) /\ TableOK(table)
      /\ OwnersOK(table, cl, held \cup ArgsOf(stack))
      /\ held \cap ArgsOf(stack) = {} /\ IsFiniteSet(held)
  BY DEF IInv
<1>2. Functions = Live(cl) /\ InCalls = ArgsOf(stack)
  BY DEF Functions, Live, InCalls, ArgsOf
<1>3. PICK H : H = {cl[c].handle : c \in Functions}
  OBVIOUS
<1>4. PICK own : own = held \cup InCalls
  OBVIOUS
<1>5. Allocated(table) = own \cup H /\ own \cap H = {} /\ held \cap InCalls = {}
  BY <1>1, <1>2, <1>3, <1>4 DEF OwnersOK
<1>6. IsFiniteSet(own) /\ IsFiniteSet(InCalls)
  <2>1. IsFiniteSet(0..MaxIndex)
    BY ClosureAssumption, FS_Interval
  <2>2. \A i \in own : i \in 0..MaxIndex
    BY <1>1, <1>2, <1>4, OwnedIndex
  <2>3. own \subseteq 0..MaxIndex /\ InCalls \subseteq own
    BY <2>2, <1>4
  <2> QED BY <2>1, <2>3, FS_Subset
<1>7. IsFiniteSet(H) /\ Cardinality(H) = Cardinality(Functions)
  <2>1. IsFiniteSet(Functions)
    BY ClosureAssumption, FS_Subset DEF Functions
  <2>2. PICK g : g = [c \in Functions |-> cl[c].handle]
    OBVIOUS
  <2>3. g \in [Functions -> H] /\ \A c \in Functions : g[c] = cl[c].handle
    BY <1>3, <2>2
  <2>4. \A c, d \in Functions : g[c] = g[d] => c = d
    BY <1>1, <1>2, <2>3 DEF OwnersOK
  <2>5. \A h \in H : \E c \in Functions : g[c] = h
    BY <1>3, <2>3
  <2>6. g \in Bijection(Functions, H)
    BY <2>3, <2>4, <2>5 DEF Bijection, Injection, Surjection, IsInjective
  <2>7. ExistsBijection(Functions, H)
    BY <2>6 DEF ExistsBijection
  <2> QED BY <2>1, <2>7, FS_Bijection
<1>8. Cardinality(own) = Cardinality(held) + Cardinality(InCalls)
  <2>1. Cardinality(own) = Cardinality(held) + Cardinality(InCalls) - Cardinality(held \cap InCalls)
    BY <1>1, <1>4, <1>6, FS_Union
  <2>2. Cardinality(held \cap InCalls) = 0
    BY <1>5, FS_EmptySet
  <2>3. Cardinality(held) \in Nat /\ Cardinality(InCalls) \in Nat
    BY <1>1, <1>6, FS_CardinalityType
  <2> QED BY <2>1, <2>2, <2>3
<1>9. Cardinality(own \cup H) = Cardinality(own) + Cardinality(H)
  <2>1. Cardinality(own \cup H) = Cardinality(own) + Cardinality(H) - Cardinality(own \cap H)
    BY <1>6, <1>7, FS_Union
  <2>2. Cardinality(own \cap H) = 0
    BY <1>5, FS_EmptySet
  <2>3. Cardinality(own) \in Nat /\ Cardinality(H) \in Nat
    BY <1>6, <1>7, FS_CardinalityType
  <2> QED BY <2>1, <2>2, <2>3
<1>10. Cardinality(Allocated(table)) = Cardinality(held) + Cardinality(InCalls)
                                       + Cardinality(Functions)
  BY <1>5, <1>7, <1>8, <1>9
<1>11. IsInjective(table.free) /\ \A a \in Arities : IsInjective(free[a])
  BY <1>1 DEF TableOK, RegOK, FreeExact
<1> QED BY <1>3, <1>4, <1>5, <1>10, <1>11 DEF TableBalanced

LEMMA RegistryIs ==
  ASSUME IInv
  PROVE  RegistryExact
<1> SUFFICES ASSUME ~dead PROVE RegistryExact
  BY DEF RegistryExact
<1>1. /\ RegTypes(slots, free, cl, RunOf(stack)) /\ FreeExact(slots, free)
      /\ Behind(slots, cl, RunOf(stack)) /\ StackOK(stack)
  BY DEF IInv, RegOK
<1>2. \A c : Running(c) <=> c \in RunOf(stack)
  BY DEF Running, RunOf
<1>3. ASSUME NEW c \in Functions
      PROVE  Slot(ArityOf(c), cl[c].id) =
                [st |-> IF Running(c) THEN "borrowed" ELSE "filled", c |-> c]
  <2>1. c \in Live(cl)
    BY DEF Functions, Live
  <2>2. Slot(ArityOf(c), cl[c].id) = [st |-> StatusOf(cl, RunOf(stack), c), c |-> c]
    BY <1>1, <2>1 DEF Behind, Slot
  <2>3. StatusOf(cl, RunOf(stack), c) = IF Running(c) THEN "borrowed" ELSE "filled"
    BY <1>2, <2>1 DEF StatusOf
  <2> QED BY <2>2, <2>3
<1>4. \A i, j \in 1..Len(stack) : i # j => stack[i].c # stack[j].c
  BY <1>1 DEF StackOK
<1>5. ASSUME NEW i \in 1..Len(stack), NEW c, c = stack[i].c
      PROVE  Slot(ArityOf(c), cl[c].id).c = c /\ cl[c].id \notin ToSet(free[ArityOf(c)])
  <2>1. c \in RunOf(stack) /\ c \in Closures
    BY <1>1, <1>5 DEF RunOf, RegTypes
  <2>2. PICK a, id : a = ArityOf(c) /\ id = cl[c].id
    OBVIOUS
  <2>3. a \in Arities /\ id \in Nat
    BY <1>1, <2>1, <2>2, ClosureAssumption DEF RegTypes, ClTypes
  <2>4. slots[a][id + 1] = [st |-> StatusOf(cl, RunOf(stack), c), c |-> c]
    BY <1>1, <2>1, <2>2 DEF Behind
  <2>5. slots[a][id + 1].st # "empty" /\ slots[a][id + 1].c = c
    BY <2>4 DEF StatusOf
  <2>6. id \notin ToSet(free[a])
    BY <1>1, <2>3, <2>5 DEF FreeExact
  <2> QED BY <2>2, <2>5, <2>6 DEF Slot
<1> QED BY <1>3, <1>4, <1>5 DEF RegistryExact

\* Every table index has one owner and every closure that was not dropped is
\* behind its id, running at most once, until its registry is found borrowed.
THEOREM ClosuresStayExact == PageSpec => []ClosuresExact
<1>1. IInv => ClosuresExact
  BY TableCounts, RegistryIs DEF ClosuresExact
<1> QED BY <1>1, ClosuresInvariance, PTL

(***************************************************************************)
(* How many bytes records have.                                            *)
(***************************************************************************)

Record == [n : Nat, from : L!Realms, seq : Nat, size : Nat]

\* The sums of the first records of s.
Sums(s, g) == /\ g \in [0..Len(s) -> Nat] /\ g[0] = 0
              /\ \A n \in 1..Len(s) : g[n] = g[n - 1] + s[n].size

LEMMA TotalIs ==
  ASSUME NEW s \in Seq(Record), NEW g, Sums(s, g)
  PROVE  L!Total(s) = g[Len(s)]
<1>1. PICK N \in Nat : N = Len(s)
  BY LenProperties
<1>2. /\ g \in [0..N -> Nat] /\ g[0] = 0
      /\ \A n \in 1..N : g[n] = g[n - 1] + s[n].size
  BY <1>1 DEF Sums
<1> DEFINE Body(w) == [n \in 0..N |-> IF n = 0 THEN 0 ELSE w[n - 1] + s[n].size]
<1>3. g = Body(g)
  <2>1. \A n \in 0..N : g[n] = IF n = 0 THEN 0 ELSE g[n - 1] + s[n].size
    BY <1>2
  <2>2. g = [n \in 0..N |-> g[n]]
    BY <1>2
  <2> QED BY <2>1, <2>2
<1>4. PICK w : w = Body(w) /\ L!Total(s) = w[N]
  <2>1. L!Total(s) = (CHOOSE w : w = Body(w))[N]
    BY <1>1 DEF L!Total
  <2> QED BY <2>1, <1>3
<1>5. \A n \in 0..N : w[n] = IF n = 0 THEN 0 ELSE w[n - 1] + s[n].size
  BY <1>4
<1> DEFINE Q == {n \in Nat : n <= N => w[n] = g[n]}
<1>6. 0 \in Q
  BY <1>1, <1>2, <1>5
<1>7. ASSUME NEW n \in Nat, n \in Q PROVE n + 1 \in Q
  <2> SUFFICES ASSUME n + 1 <= N PROVE w[n + 1] = g[n + 1]
    BY <1>1
  <2>1. n + 1 \in 0..N /\ n + 1 \in 1..N /\ n + 1 # 0 /\ (n + 1) - 1 = n /\ n <= N
    BY <1>1
  <2> QED BY <2>1, <1>2, <1>5, <1>7
<1> HIDE DEF Q
<1>8. Nat \subseteq Q
  BY <1>6, <1>7, SetInduction
<1>9. w[N] = g[N]
  BY <1>1, <1>8 DEF Q
<1> QED BY <1>1, <1>4, <1>9

LEMMA SumsExist ==
  ASSUME NEW s \in Seq(Record)
  PROVE  \E g : Sums(s, g)
<1>1. PICK N \in Nat : N = Len(s)
  BY LenProperties
<1>2. \A n \in 1..N : s[n].size \in Nat
  <2>1. ASSUME NEW n \in 1..N PROVE s[n] \in Record
    BY <1>1, ElementOfSeq
  <2> QED BY <2>1 DEF Record
<1> DEFINE Upto(g, m) == /\ g \in [0..m -> Nat] /\ g[0] = 0
                         /\ \A n \in 1..m : g[n] = g[n - 1] + s[n].size
           Q == {m \in Nat : m <= N => \E g : Upto(g, m)}
<1>3. 0 \in Q
  <2>1. PICK g : g = [n \in 0..0 |-> 0]
    OBVIOUS
  <2>2. Upto(g, 0)
    BY <2>1
  <2> QED BY <2>2
<1>4. ASSUME NEW m \in Nat, m \in Q PROVE m + 1 \in Q
  <2> SUFFICES ASSUME m + 1 <= N PROVE \E g : Upto(g, m + 1)
    BY <1>1
  <2>1. PICK g : Upto(g, m)
    BY <1>1, <1>4
  <2>2. m \in 0..m /\ g[m] \in Nat /\ m + 1 \in 1..N /\ s[m + 1].size \in Nat
    BY <1>1, <1>2, <2>1
  <2>3. PICK h : h = [n \in 0..(m + 1) |-> IF n = m + 1 THEN g[m] + s[m + 1].size ELSE g[n]]
    OBVIOUS
  <2>4. \A n \in 0..m : h[n] = g[n] /\ g[n] \in Nat
    BY <2>1, <2>3
  <2>5. h[m + 1] = g[m] + s[m + 1].size
    BY <2>3
  <2>6. h \in [0..(m + 1) -> Nat] /\ h[0] = 0
    <3>1. \A n \in 0..(m + 1) : h[n] \in Nat
      <4>1. \A n \in 0..(m + 1) : n \in 0..m \/ n = m + 1
        OBVIOUS
      <4> QED BY <4>1, <2>2, <2>4, <2>5
    <3>2. 0 \in 0..m
      OBVIOUS
    <3> QED BY <3>1, <3>2, <2>1, <2>3, <2>4
  <2>7. ASSUME NEW n \in 1..(m + 1) PROVE h[n] = h[n - 1] + s[n].size
    <3>1. CASE n = m + 1
      <4>1. n - 1 = m /\ m \in 0..m
        BY <3>1
      <4> QED BY <3>1, <4>1, <2>4, <2>5
    <3>2. CASE n \in 1..m
      <4>1. n \in 0..m /\ n - 1 \in 0..m
        BY <3>2
      <4> QED BY <3>2, <4>1, <2>1, <2>4
    <3> QED BY <3>1, <3>2
  <2>8. Upto(h, m + 1)
    BY <2>6, <2>7
  <2> QED BY <2>8
<1> HIDE DEF Q
<1>5. Nat \subseteq Q
  BY <1>3, <1>4, SetInduction
<1>6. \E g : Upto(g, N)
  <2>1. N \in Q /\ N <= N
    BY <1>5
  <2> HIDE DEF Upto
  <2> QED BY <2>1 DEF Q
<1> QED BY <1>1, <1>6 DEF Sums

\* A sequence of records and what is left of it.
LEMMA TotalParts ==
  ASSUME NEW s \in Seq(Record)
  PROVE  \E g : /\ Sums(s, g) /\ L!Total(s) = g[Len(s)]
                /\ \A n \in 0..Len(s) : /\ L!Total(SubSeq(s, 1, n)) = g[n]
                                        /\ L!Total(SubSeq(s, n + 1, Len(s))) = g[Len(s)] - g[n]
<1>1. PICK N \in Nat : N = Len(s)
  BY LenProperties
<1>2. PICK g : Sums(s, g)
  BY SumsExist
<1>3. /\ g \in [0..N -> Nat] /\ g[0] = 0
      /\ \A n \in 1..N : g[n] = g[n - 1] + s[n].size
  BY <1>1, <1>2 DEF Sums
<1>4. \A n \in 1..N : s[n].size \in Nat
  <2>1. ASSUME NEW n \in 1..N PROVE s[n] \in Record
    BY <1>1, ElementOfSeq
  <2> QED BY <2>1 DEF Record
<1>5. ASSUME NEW n \in 0..N PROVE L!Total(SubSeq(s, 1, n)) = g[n]
  <2>1. PICK t : t = SubSeq(s, 1, n)
    OBVIOUS
  <2>2. t \in Seq(Record) /\ Len(t) = n /\ \A i \in 1..n : t[i] = s[i]
    BY <1>1, <2>1, SubSeqProperties
  <2>3. PICK h : h = [i \in 0..n |-> g[i]]
    OBVIOUS
  <2>4. \A i \in 1..n : i \in 1..N /\ i \in 0..n /\ i - 1 \in 0..n
    OBVIOUS
  <2>5. h[0] = 0 /\ h[n] = g[n] /\ h \in [0..n -> Nat]
    BY <2>3, <1>3
  <2>6. \A i \in 1..n : h[i] = h[i - 1] + t[i].size
    BY <2>2, <2>3, <2>4, <1>3
  <2>7. Sums(t, h)
    BY <2>2, <2>5, <2>6 DEF Sums
  <2> QED BY <2>1, <2>2, <2>5, <2>7, TotalIs
<1>6. ASSUME NEW n \in 0..N PROVE L!Total(SubSeq(s, n + 1, N)) = g[N] - g[n]
  <2>1. PICK t : t = SubSeq(s, n + 1, N)
    OBVIOUS
  <2>2. PICK m \in Nat : m = N - n
    OBVIOUS
  <2>3. t \in Seq(Record) /\ Len(t) = m /\ \A i \in 1..m : t[i] = s[n + i]
    BY <1>1, <2>1, <2>2, SubSeqProperties
  <2>4. \A i, j \in 0..N : i <= j => g[i] <= g[j]
    <3> DEFINE Q == {d \in Nat : \A i \in 0..N : i + d <= N => g[i] <= g[i + d]}
    <3>1. 0 \in Q
      BY <1>1, <1>3
    <3>2. ASSUME NEW d \in Nat, d \in Q PROVE d + 1 \in Q
      <4> SUFFICES ASSUME NEW i \in 0..N, i + (d + 1) <= N PROVE g[i] <= g[i + (d + 1)]
        OBVIOUS
      <4>1. PICK k \in Nat : k = i + d
        OBVIOUS
      <4>2. k + 1 \in 1..N /\ (k + 1) - 1 = k /\ k \in 0..N /\ i + (d + 1) = k + 1
        BY <1>1, <4>1
      <4>3. g[i] <= g[k]
        BY <3>2, <4>1, <4>2
      <4>4. g[k + 1] = g[k] + s[k + 1].size /\ s[k + 1].size \in Nat
        BY <1>3, <1>4, <4>2
      <4>5. g[i] \in Nat /\ g[k] \in Nat
        BY <1>3, <4>2
      <4> QED BY <4>2, <4>3, <4>4, <4>5
    <3> HIDE DEF Q
    <3>3. Nat \subseteq Q
      BY <3>1, <3>2, SetInduction
    <3>4. ASSUME NEW i \in 0..N, NEW j \in 0..N, i <= j PROVE g[i] <= g[j]
      <4>1. PICK d \in Nat : d = j - i
        BY <3>4
      <4>2. d \in Q /\ i + d = j
        BY <3>3, <4>1
      <4> QED BY <4>2 DEF Q
    <3> QED BY <3>4
  <2>5. PICK h : h = [i \in 0..m |-> g[n + i] - g[n]]
    OBVIOUS
  <2>6. ASSUME NEW i \in 0..m PROVE h[i] = g[n + i] - g[n] /\ h[i] \in Nat
    <3>1. n + i \in 0..N /\ n <= n + i
      BY <2>2
    <3>2. g[n] <= g[n + i] /\ g[n] \in Nat /\ g[n + i] \in Nat
      BY <3>1, <2>4, <1>3
    <3> QED BY <3>2, <2>5
  <2>7. h \in [0..m -> Nat] /\ h[0] = 0 /\ h[m] = g[N] - g[n]
    <3>1. 0 \in 0..m /\ m \in 0..m /\ n + m = N /\ n + 0 = n /\ g[n] \in Nat
      BY <1>3, <2>2
    <3>2. h[0] = g[n] - g[n] /\ h[m] = g[N] - g[n]
      <4>1. h[0] = g[n + 0] - g[n] /\ h[m] = g[n + m] - g[n]
        BY <3>1, <2>6
      <4> QED BY <4>1, <3>1
    <3>3. h \in [0..m -> Nat]
      BY <2>5, <2>6
    <3>4. g[n] - g[n] = 0
      BY <3>1
    <3> QED BY <3>2, <3>3, <3>4
  <2>8. ASSUME NEW i \in 1..m PROVE h[i] = h[i - 1] + t[i].size
    <3>1. PICK k \in Nat : k = n + i
      OBVIOUS
    <3>2. /\ k \in 1..N /\ k - 1 = n + (i - 1) /\ k \in 0..N /\ k - 1 \in 0..N
          /\ i \in 0..m /\ i - 1 \in 0..m
      BY <2>2, <3>1
    <3>3. g[k] = g[k - 1] + s[k].size /\ s[k].size \in Nat /\ g[k - 1] \in Nat /\ g[n] \in Nat
      BY <1>3, <1>4, <3>2
    <3>4. h[i] = g[k] - g[n] /\ h[i - 1] = g[k - 1] - g[n]
      BY <2>6, <3>1, <3>2
    <3>5. t[i].size = s[k].size
      BY <2>3, <3>1
    <3> QED BY <3>3, <3>4, <3>5
  <2>9. Sums(t, h)
    BY <2>3, <2>7, <2>8 DEF Sums
  <2> QED BY <2>1, <2>3, <2>7, <2>9, TotalIs
<1>7. L!Total(s) = g[N]
  BY <1>1, <1>2, TotalIs
<1> QED BY <1>1, <1>2, <1>5, <1>6, <1>7

LEMMA TotalAppend ==
  ASSUME NEW s \in Seq(Record), NEW r \in Record
  PROVE  L!Total(Append(s, r)) = L!Total(s) + r.size
<1>1. PICK N \in Nat : N = Len(s)
  BY LenProperties
<1>2. PICK t : t = Append(s, r)
  OBVIOUS
<1>3. t \in Seq(Record) /\ Len(t) = N + 1 /\ t[N + 1] = r /\ \A i \in 1..N : t[i] = s[i]
  BY <1>1, <1>2, AppendProperties
<1>4. PICK g : Sums(t, g)
  BY <1>3, SumsExist
<1>5. PICK h : h = [i \in 0..N |-> g[i]]
  OBVIOUS
<1>6. /\ g \in [0..(N + 1) -> Nat] /\ g[0] = 0
      /\ \A n \in 1..(N + 1) : g[n] = g[n - 1] + t[n].size
  BY <1>3, <1>4 DEF Sums
<1>7. h \in [0..N -> Nat] /\ h[0] = 0 /\ h[N] = g[N]
  BY <1>5, <1>6
<1>8. \A n \in 1..N : h[n] = h[n - 1] + s[n].size
  <2>1. \A n \in 1..N : n \in 1..(N + 1) /\ n \in 0..N /\ n - 1 \in 0..N
    OBVIOUS
  <2> QED BY <2>1, <1>3, <1>5, <1>6
<1>9. Sums(s, h)
  BY <1>1, <1>7, <1>8 DEF Sums
<1>10. g[N + 1] = g[N] + r.size
  <2>1. N + 1 \in 1..(N + 1) /\ (N + 1) - 1 = N
    OBVIOUS
  <2> QED BY <2>1, <1>3, <1>6
<1>11. L!Total(t) = g[N + 1]
  BY <1>3, <1>4, TotalIs
<1>12. L!Total(s) = h[N]
  BY <1>1, <1>9, TotalIs
<1> QED BY <1>2, <1>7, <1>10, <1>11, <1>12

(***************************************************************************)
(* The bundle.                                                             *)
(***************************************************************************)

Message == {m \in [c : L!Channels, from : L!Realms, seq : Nat, size : Sizes] :
              m.c = "logwise" => m.size <= MaxRecord}

\* The bundle b of d records less than k, with room bytes.
BundleOK(b, room, d, k) ==
    /\ b \in Seq(Record) /\ room \in Nat /\ d \in Nat /\ k \in Nat
    /\ room = L!Total(b) /\ room <= MaxBytes /\ Len(b) <= MaxRecords
    /\ d + Len(b) = k /\ \A i \in 1..Len(b) : b[i].n = d + i

\* The oldest records that give way, and no others, make room.
LEMMA EvictMakesRoom ==
  ASSUME NEW b, NEW room, NEW d, NEW k, BundleOK(b, room, d, k),
         NEW size \in Nat, size <= MaxBytes
  PROVE  LET e == L!Evict(b, room, size)
         IN \E n \in 0..Len(b) : /\ e.kept = SubSeq(b, n + 1, Len(b))
                                 /\ e.bytes = L!Total(e.kept) /\ e.bytes \in Nat
                                 /\ e.bytes + size <= MaxBytes /\ Len(b) - n < MaxRecords
<1>1. PICK N \in Nat : N = Len(b)
  BY LenProperties DEF BundleOK
<1>2. PICK g : /\ Sums(b, g) /\ L!Total(b) = g[N]
               /\ \A n \in 0..N : /\ L!Total(SubSeq(b, 1, n)) = g[n]
                                  /\ L!Total(SubSeq(b, n + 1, N)) = g[N] - g[n]
  BY <1>1, TotalParts DEF BundleOK
<1>3. g \in [0..N -> Nat] /\ room = g[N] /\ room \in Nat
  BY <1>1, <1>2 DEF Sums, BundleOK
<1> DEFINE fits(n) == /\ N - n < MaxRecords
                      /\ room - L!Total(SubSeq(b, 1, n)) + size <= MaxBytes
           first(n) == n \in 0..N /\ fits(n) /\ \A j \in 0..(n - 1) : ~fits(j)
<1>4. fits(N)
  <2>1. N \in 0..N /\ N - N = 0
    OBVIOUS
  <2>2. L!Total(SubSeq(b, 1, N)) = room /\ room - room + size = size
    BY <2>1, <1>2, <1>3
  <2> QED BY <2>1, <2>2, LogsAssumption DEF LogBounds
<1>5. \E n : first(n)
  <2> DEFINE Q == {n \in Nat : \A j \in 0..n : j <= N => ~fits(j)}
  <2> HIDE DEF fits
  <2>1. SUFFICES ASSUME \A n : ~first(n) PROVE FALSE
    OBVIOUS
  <2>2. 0 \in Q
    <3>1. ~first(0) /\ 0 \in 0..N /\ 0..(0 - 1) = {} /\ 0..0 = {0}
      BY <2>1
    <3> QED BY <3>1
  <2>3. ASSUME NEW n \in Nat, n \in Q PROVE n + 1 \in Q
    <3>1. \A j \in 0..n : j <= N => ~fits(j)
      BY <2>3
    <3>2. ASSUME n + 1 <= N PROVE ~fits(n + 1)
      <4>1. n + 1 \in 0..N /\ (n + 1) - 1 = n /\ \A j \in 0..n : j <= N
        BY <3>2
      <4>2. ~first(n + 1)
        BY <2>1
      <4> QED BY <3>1, <4>1, <4>2
    <3>3. \A j \in 0..(n + 1) : j \in 0..n \/ j = n + 1
      OBVIOUS
    <3> QED BY <3>1, <3>2, <3>3
  <2> HIDE DEF Q
  <2>4. Nat \subseteq Q
    BY <2>2, <2>3, SetInduction
  <2>5. N \in Q /\ N \in 0..N /\ N <= N
    BY <2>4
  <2> QED BY <2>5, <1>4 DEF Q
<1>6. PICK n : /\ n \in 0..N /\ fits(n)
               /\ L!Evict(b, room, size) = [kept |-> SubSeq(b, n + 1, N),
                                          bytes |-> room - L!Total(SubSeq(b, 1, n))]
  <2>1. PICK n : n = CHOOSE x \in 0..N : fits(x) /\ \A j \in 0..(x - 1) : ~fits(j)
    OBVIOUS
  <2>2. first(n)
    <3> HIDE DEF fits
    <3> QED BY <2>1, <1>5
  <2>3. L!Evict(b, room, size) = [kept |-> SubSeq(b, n + 1, N),
                                bytes |-> room - L!Total(SubSeq(b, 1, n))]
    BY <2>1, <1>1 DEF L!Evict
  <2> QED BY <2>2, <2>3
<1>7. PICK e : e = L!Evict(b, room, size)
  OBVIOUS
<1>8. /\ e.kept = SubSeq(b, n + 1, N) /\ e.bytes = room - L!Total(SubSeq(b, 1, n))
  BY <1>6, <1>7
<1>9. /\ L!Total(SubSeq(b, 1, n)) = g[n] /\ L!Total(SubSeq(b, n + 1, N)) = g[N] - g[n]
      /\ SubSeq(b, n + 1, N) \in Seq(Record)
  <2>1. SubSeq(b, n + 1, N) \in Seq(Record)
    BY <1>1, <1>6, SubSeqProperties DEF BundleOK
  <2> QED BY <2>1, <1>2, <1>6
<1>10. e.bytes = L!Total(e.kept)
  BY <1>3, <1>8, <1>9
<1>11. L!Total(e.kept) \in Nat
  <2>1. PICK s : s = e.kept
    OBVIOUS
  <2>2. s \in Seq(Record)
    BY <2>1, <1>8, <1>9
  <2>3. PICK h : Sums(s, h) /\ L!Total(s) = h[Len(s)]
    BY <2>2, TotalParts
  <2>4. Len(s) \in Nat /\ Len(s) \in 0..Len(s)
    BY <2>2, LenProperties
  <2> QED BY <2>1, <2>3, <2>4 DEF Sums
<1> QED BY <1>1, <1>6, <1>7, <1>8, <1>10, <1>11

LEMMA BundleGrows ==
  ASSUME NEW b, NEW room, NEW d, NEW k, BundleOK(b, room, d, k),
         NEW r \in Record, r.size <= MaxBytes, r.n = k + 1,
         NEW e, e = L!Evict(b, room, r.size)
  PROVE  BundleOK(Append(e.kept, r), e.bytes + r.size, d + Len(b) - Len(e.kept), k + 1)
<1>1. PICK N \in Nat : N = Len(b)
  BY LenProperties DEF BundleOK
<1>2. r.size \in Nat
  BY DEF Record
<1>3. PICK n \in 0..N : /\ e.kept = SubSeq(b, n + 1, N)
                        /\ e.bytes = L!Total(e.kept) /\ e.bytes \in Nat
                        /\ e.bytes + r.size <= MaxBytes /\ N - n < MaxRecords
  BY <1>1, <1>2, EvictMakesRoom
<1>4. PICK s, m : s = e.kept /\ m = N - n /\ m \in Nat
  OBVIOUS
<1>5. /\ b \in Seq(Record) /\ d \in Nat /\ k \in Nat /\ d + N = k
      /\ \A i \in 1..N : b[i].n = d + i
  BY <1>1 DEF BundleOK
<1>6. s \in Seq(Record) /\ Len(s) = m /\ \A i \in 1..m : s[i] = b[n + i]
  BY <1>1, <1>3, <1>4, <1>5, SubSeqProperties
<1>7. PICK t : t = Append(s, r)
  OBVIOUS
<1>8. t \in Seq(Record) /\ Len(t) = m + 1 /\ t[m + 1] = r /\ \A i \in 1..m : t[i] = s[i]
  BY <1>6, <1>7, AppendProperties
<1>9. L!Total(t) = e.bytes + r.size
  BY <1>3, <1>4, <1>6, <1>7, TotalAppend
<1>10. d + N - m = d + n /\ (d + n) + m = k
  BY <1>4, <1>5
<1>11. ASSUME NEW i \in 1..(m + 1) PROVE t[i].n = (d + n) + i
  <2>1. CASE i = m + 1
    <3>1. t[i].n = k + 1
      BY <2>1, <1>8
    <3>2. (d + n) + i = k + 1
      BY <2>1, <1>4, <1>5, <1>10
    <3> QED BY <3>1, <3>2
  <2>2. CASE i \in 1..m
    <3>1. n + i \in 1..N /\ t[i] = b[n + i] /\ d + (n + i) = (d + n) + i
      BY <2>2, <1>4, <1>5, <1>6, <1>8
    <3> QED BY <3>1, <1>5
  <2> QED BY <2>1, <2>2, <1>4
<1>12. m + 1 <= MaxRecords /\ e.bytes + r.size \in Nat /\ d + n \in Nat
  <2>1. MaxRecords \in Nat
    BY LogsAssumption DEF LogBounds
  <2>2. m + 1 <= MaxRecords
    BY <1>3, <1>4, <2>1
  <2> QED BY <1>2, <1>3, <1>5, <2>2
<1>13. (d + n) + (m + 1) = k + 1 /\ k + 1 \in Nat
  BY <1>4, <1>5, <1>10
<1>14. BundleOK(t, e.bytes + r.size, d + n, k + 1)
  BY <1>3, <1>8, <1>9, <1>11, <1>12, <1>13 DEF BundleOK
<1> QED BY <1>1, <1>4, <1>6, <1>7, <1>10, <1>14

(***************************************************************************)
(* The forwarder.                                                          *)
(***************************************************************************)

Ordered(s) == \A i, j \in 1..Len(s) : i < j => s[i].n < s[j].n
Before(s, t) == \A i \in 1..Len(s), j \in 1..Len(t) : s[i].n < t[j].n

\* What was printed, what flies and what waits, of the k that arrived.
InLine(out, fly, wait, k) ==
    /\ out \in Seq(Record) /\ fly \in Seq(Record) /\ wait \in Seq(Record) /\ k \in Nat
    /\ Ordered(out) /\ Ordered(fly) /\ Ordered(wait)
    /\ Before(out, fly) /\ Before(out, wait) /\ Before(fly, wait)
    /\ \A i \in 1..Len(out) : out[i].n <= k
    /\ \A i \in 1..Len(fly) : fly[i].n <= k
    /\ \A i \in 1..Len(wait) : wait[i].n <= k

LEMMA NothingInLine == InLine(<<>>, <<>>, <<>>, 0)
BY EmptySeq DEF InLine, Ordered, Before

LEMMA JoinsTheLine ==
  ASSUME NEW o, NEW f, NEW w, NEW k, InLine(o, f, w, k), NEW r \in Record, r.n = k + 1
  PROVE  InLine(o, f, Append(w, r), k + 1)
<1>1. PICK n \in Nat : n = Len(w)
  BY LenProperties DEF InLine
<1>2. PICK u : u = Append(w, r)
  OBVIOUS
<1>3. /\ u \in Seq(Record) /\ Len(u) = n + 1 /\ u[n + 1] = r
      /\ \A i \in 1..n : u[i] = w[i]
  BY <1>1, <1>2, AppendProperties DEF InLine
<1>4. 1..(n + 1) = (1..n) \cup {n + 1} /\ k \in Nat
  BY DEF InLine
<1>5. /\ \A i \in 1..Len(o) : o[i] \in Record /\ o[i].n <= k
      /\ \A i \in 1..Len(f) : f[i] \in Record /\ f[i].n <= k
      /\ \A i \in 1..n : w[i] \in Record /\ w[i].n <= k
  BY <1>1, ElementOfSeq DEF InLine
<1>6. \A x \in Record : x.n \in Nat
  BY DEF Record
<1>7. Ordered(u)
  <2>1. ASSUME NEW i \in 1..(n + 1), NEW j \in 1..(n + 1), i < j PROVE u[i].n < u[j].n
    <3>1. i \in 1..n
      BY <2>1
    <3>2. CASE j \in 1..n
      <4>1. w[i].n < w[j].n
        BY <2>1, <3>1, <3>2, <1>1 DEF InLine, Ordered
      <4> QED BY <4>1, <3>1, <3>2, <1>3
    <3>3. CASE j = n + 1
      <4>1. w[i].n <= k /\ w[i].n \in Nat /\ u[i] = w[i] /\ u[j].n = k + 1
        BY <3>1, <3>3, <1>3, <1>5, <1>6
      <4> QED BY <4>1, <1>4
    <3> QED BY <3>2, <3>3, <1>4
  <2> QED BY <2>1, <1>3 DEF Ordered
<1>8. ASSUME NEW x, x \in {o, f} PROVE Before(x, u)
  <2>1. ASSUME NEW i \in 1..Len(x), NEW j \in 1..(n + 1) PROVE x[i].n < u[j].n
    <3>1. CASE j \in 1..n
      <4>1. x[i].n < w[j].n
        BY <1>8, <3>1, <1>1 DEF InLine, Before
      <4> QED BY <4>1, <3>1, <1>3
    <3>2. CASE j = n + 1
      <4>1. x[i].n <= k /\ x[i].n \in Nat /\ u[j].n = k + 1
        BY <1>8, <3>2, <1>3, <1>5, <1>6
      <4> QED BY <4>1, <1>4
    <3> QED BY <3>1, <3>2, <1>4
  <2> QED BY <2>1, <1>3 DEF Before
<1>9. /\ \A i \in 1..Len(o) : o[i].n <= k + 1
      /\ \A i \in 1..Len(f) : f[i].n <= k + 1
      /\ \A i \in 1..(n + 1) : u[i].n <= k + 1
  <2>1. \A x \in Record : x.n <= k => x.n <= k + 1
    BY <1>4, <1>6
  <2>2. \A i \in 1..(n + 1) : u[i].n <= k + 1
    <3>1. \A i \in 1..n : u[i].n <= k + 1
      BY <2>1, <1>3, <1>5
    <3>2. u[n + 1].n <= k + 1
      BY <1>3, <1>4
    <3> QED BY <3>1, <3>2, <1>4
  <2> QED BY <2>1, <2>2, <1>5
<1>10. k + 1 \in Nat
  BY <1>4
<1> QED BY <1>2, <1>3, <1>7, <1>8, <1>9, <1>10 DEF InLine

LEMMA TakesOff ==
  ASSUME NEW o, NEW w, NEW k, InLine(o, <<>>, w, k)
  PROVE  InLine(o, w, <<>>, k)
<1>1. <<>> \in Seq(Record) /\ Len(<<>>) = 0 /\ 1..0 = {}
  BY EmptySeq
<1> QED BY <1>1 DEF InLine, Ordered, Before

\* The first records of a batch are printed, or none of it arrives.
LEMMA FittingIsFirst ==
  ASSUME NEW b \in Seq(Record)
  PROVE  \E n \in 0..Len(b) : L!Fitting(b) = SubSeq(b, 1, n)
<1>1. PICK N \in Nat : N = Len(b)
  BY LenProperties
<1>2. PICK S : S = {i \in 1..N : L!Total(SubSeq(b, 1, i)) <= MaxBody}
  OBVIOUS
<1>3. IsFiniteSet(1..N) /\ Cardinality(1..N) = N
  BY FS_Interval
<1>4. IsFiniteSet(S) /\ Cardinality(S) <= N
  BY <1>2, <1>3, FS_Subset
<1>5. Cardinality(S) \in Nat
  BY <1>4, FS_CardinalityType
<1>6. Cardinality(S) \in 0..N
  BY <1>4, <1>5
<1>7. L!Fitting(b) = SubSeq(b, 1, Cardinality(S))
  <2>1. L!Cardinality(S) = Cardinality(S)
    BY DEF L!Cardinality, Cardinality
  <2> QED BY <1>1, <1>2, <2>1 DEF L!Fitting
<1> QED BY <1>1, <1>6, <1>7

LEMMA Lands ==
  ASSUME NEW o, NEW f, NEW w, NEW k, InLine(o, f, w, k)
  PROVE  InLine(o, <<>>, w, k) /\ InLine(o \o L!Fitting(f), <<>>, w, k)
<1>1. <<>> \in Seq(Record) /\ Len(<<>>) = 0 /\ 1..0 = {}
  BY EmptySeq
<1>2. InLine(o, <<>>, w, k)
  BY <1>1 DEF InLine, Ordered, Before
<1>3. PICK m \in 0..Len(f) : L!Fitting(f) = SubSeq(f, 1, m)
  BY FittingIsFirst DEF InLine
<1>4. PICK g : g = SubSeq(f, 1, m)
  OBVIOUS
<1>5. PICK n \in Nat : n = Len(o)
  BY LenProperties DEF InLine
<1>6. Len(f) \in Nat /\ m \in Nat
  BY <1>3, LenProperties DEF InLine
<1>7. g \in Seq(Record) /\ Len(g) = m /\ \A i \in 1..m : g[i] = f[i] /\ i \in 1..Len(f)
  BY <1>3, <1>4, <1>6, SubSeqProperties DEF InLine
<1>8. PICK u : u = o \o g
  OBVIOUS
<1>9. /\ u \in Seq(Record) /\ Len(u) = n + m
      /\ \A i \in 1..n : u[i] = o[i]
      /\ \A i \in 1..m : u[n + i] = g[i]
  <2>1. o \in Seq(Record)
    BY DEF InLine
  <2>2. /\ u \in Seq(Record) /\ Len(u) = n + m
        /\ \A i \in 1..(n + m) : u[i] = IF i <= n THEN o[i] ELSE g[i - n]
    BY <2>1, <1>5, <1>7, <1>8, ConcatProperties
  <2>3. \A i \in 1..n : i \in 1..(n + m) /\ i <= n
    BY <1>6
  <2>4. ASSUME NEW i \in 1..m PROVE u[n + i] = g[i]
    <3>1. PICK j : j = n + i
      OBVIOUS
    <3>2. j \in 1..(n + m) /\ ~(j <= n) /\ j - n = i
      BY <1>6, <3>1
    <3>3. u[j] = g[j - n]
      BY <2>2, <3>2
    <3> QED BY <3>1, <3>2, <3>3
  <2> QED BY <2>2, <2>3, <2>4
<1>10. ASSUME NEW i \in 1..(n + m), ~(i \in 1..n) PROVE \E j \in 1..m : i = n + j
  <2>1. i - n \in 1..m /\ i = n + (i - n)
    BY <1>6, <1>10
  <2> QED BY <2>1
<1>11. Ordered(u)
  <2>1. ASSUME NEW i \in 1..(n + m), NEW j \in 1..(n + m), i < j PROVE u[i].n < u[j].n
    <3>1. CASE i \in 1..n /\ j \in 1..n
      <4>1. o[i].n < o[j].n
        BY <2>1, <3>1, <1>5 DEF InLine, Ordered
      <4> QED BY <4>1, <3>1, <1>9
    <3>2. CASE i \in 1..n /\ ~(j \in 1..n)
      <4>1. PICK l \in 1..m : j = n + l
        BY <3>2, <1>10
      <4>2. o[i].n < f[l].n
        BY <3>2, <1>5, <1>7 DEF InLine, Before
      <4> QED BY <4>1, <4>2, <3>2, <1>7, <1>9
    <3>3. CASE ~(i \in 1..n)
      <4>1. ~(j \in 1..n)
        BY <2>1, <3>3, <1>6
      <4>2. PICK h \in 1..m, l \in 1..m : i = n + h /\ j = n + l
        BY <3>3, <4>1, <1>10
      <4>3. h < l /\ h \in 1..Len(f) /\ l \in 1..Len(f)
        BY <2>1, <4>2, <1>7
      <4>4. f[h].n < f[l].n
        BY <4>3 DEF InLine, Ordered
      <4> QED BY <4>2, <4>4, <1>7, <1>9
    <3> QED BY <3>1, <3>2, <3>3
  <2> QED BY <2>1, <1>9 DEF Ordered
<1>12. ASSUME NEW i \in 1..(n + m)
       PROVE  u[i].n <= k /\ \A j \in 1..Len(w) : u[i].n < w[j].n
  <2>1. CASE i \in 1..n
    BY <2>1, <1>5, <1>9 DEF InLine, Before
  <2>2. CASE ~(i \in 1..n)
    <3>1. PICK h \in 1..m : i = n + h
      BY <2>2, <1>10
    <3>2. u[i] = f[h] /\ h \in 1..Len(f)
      BY <3>1, <1>7, <1>9
    <3> QED BY <3>2 DEF InLine, Before
  <2> QED BY <2>1, <2>2
<1>13. InLine(u, <<>>, w, k)
  BY <1>1, <1>2, <1>9, <1>11, <1>12 DEF InLine, Ordered, Before
<1> QED BY <1>2, <1>3, <1>4, <1>8, <1>13

(***************************************************************************)
(* The steps.                                                              *)
(***************************************************************************)

\* A channel: what was printed, its request, what waits, its timer, what arrived.
Line(o, q, w, t, k) ==
    \E f : /\ q = IF f = <<>> THEN <<>> ELSE <<f>>
           /\ InLine(o, f, w, k) /\ (w # <<>> => t \/ q # <<>>)

Forwarders == /\ pending \in [L!Channels -> Seq(Record)]
              /\ request \in [L!Channels -> Seq(Seq(Record))]
              /\ timer \in [L!Channels -> BOOLEAN]
              /\ printed \in [L!Channels -> Seq(Record)]
Lines == \A c \in L!Channels : Line(printed[c], request[c], pending[c], timer[c], arrived[c])

LogsInv == /\ logged \in Nat /\ arrived \in [L!Channels -> Nat]
           /\ mail \in [Workers -> Seq(Message)]
           /\ BundleOK(bundle, bytes, dropped, arrived["logwise"])
           /\ ~hidden => Forwarders /\ Lines

LEMMA LogsInit == L!Init => LogsInv
<1> SUFFICES ASSUME L!Init PROVE LogsInv
  OBVIOUS
<1> USE DEF L!Init
<1>1. "logwise" \in L!Channels /\ <<>> \in Seq(Record) /\ <<>> \in Seq(Seq(Record))
      /\ <<>> \in Seq(Message) /\ Len(<<>>) = 0
  BY EmptySeq DEF L!Channels
<1>2. BundleOK(bundle, bytes, dropped, arrived["logwise"])
  <2>1. PICK g : Sums(<<>>, g) /\ L!Total(<<>>) = g[Len(<<>>)]
    BY <1>1, TotalParts
  <2>2. L!Total(<<>>) = 0
    BY <2>1, <1>1 DEF Sums
  <2>3. 0 <= MaxBytes /\ 0 <= MaxRecords
    BY LogsAssumption DEF LogBounds
  <2> QED BY <2>2, <2>3, <1>1 DEF BundleOK
<1>3. Forwarders
  BY <1>1 DEF Forwarders
<1>4. Lines
  <2>1. \A t : Line(<<>>, <<>>, <<>>, t, 0)
    BY NothingInLine DEF Line
  <2> QED BY <2>1 DEF Lines
<1>5. arrived \in [L!Channels -> Nat] /\ mail \in [Workers -> Seq(Message)] /\ logged \in Nat
  BY <1>1
<1> QED BY <1>2, <1>3, <1>4, <1>5 DEF LogsInv

LEMMA FlushKeeps ==
  ASSUME NEW c, NEW o, NEW f, NEW w, NEW k, InLine(o, f, w, k),
         L!Flush(c, w, IF f = <<>> THEN <<>> ELSE <<f>>)
  PROVE  \E p, q : /\ pending' = [pending EXCEPT ![c] = p] /\ p \in Seq(Record)
                   /\ request' = [request EXCEPT ![c] = q] /\ q \in Seq(Seq(Record))
                   /\ \A t : Line(o, q, p, t, k)
<1>1. /\ <<>> \in Seq(Record) /\ w \in Seq(Record) /\ <<>> \in Seq(Seq(Record))
      /\ \A x \in Seq(Record) : <<x>> \in Seq(Seq(Record)) /\ <<x>> # <<>>
  BY EmptySeq DEF InLine
<1>2. f \in Seq(Record)
  BY DEF InLine
<1>3. CASE f # <<>> \/ w = <<>>
  <2>1. PICK q : q = IF f = <<>> THEN <<>> ELSE <<f>>
    OBVIOUS
  <2>2. q \in Seq(Seq(Record)) /\ (f # <<>> => q # <<>>)
    BY <1>1, <1>2, <2>1
  <2>3. pending' = [pending EXCEPT ![c] = w] /\ request' = [request EXCEPT ![c] = q]
    BY <1>1, <1>2, <1>3, <2>1, <2>2 DEF L!Flush
  <2>4. \A t : Line(o, q, w, t, k)
    BY <1>3, <2>1, <2>2 DEF Line
  <2> QED BY <1>1, <2>2, <2>3, <2>4
<1>4. CASE f = <<>> /\ w # <<>>
  <2>1. pending' = [pending EXCEPT ![c] = <<>>] /\ request' = [request EXCEPT ![c] = <<w>>]
    BY <1>4 DEF L!Flush
  <2>2. InLine(o, w, <<>>, k)
    BY <1>4, TakesOff
  <2>3. \A t : Line(o, <<w>>, <<>>, t, k)
    BY <1>4, <2>2 DEF Line
  <2> QED BY <1>1, <2>1, <2>3
<1> QED BY <1>3, <1>4

LEMMA ForwardKeeps ==
  ASSUME Forwarders, Lines, NEW c \in L!Channels, NEW r \in Record, NEW k, k = arrived[c] + 1,
         r.n = k, L!Forward(c, r), printed' = printed, arrived' = [arrived EXCEPT ![c] = k],
         arrived \in [L!Channels -> Nat]
  PROVE  Forwarders' /\ Lines'
<1>1. PICK o, q, w, t, f : /\ o = printed[c] /\ q = request[c] /\ w = pending[c] /\ t = timer[c]
                           /\ q = (IF f = <<>> THEN <<>> ELSE <<f>>)
                           /\ InLine(o, f, w, arrived[c]) /\ (w # <<>> => t \/ q # <<>>)
  BY DEF Lines, Line
<1>2. PICK u : u = Append(w, r)
  OBVIOUS
<1>3. InLine(o, f, u, k) /\ u \in Seq(Record)
  <2>1. InLine(o, f, u, k)
    BY <1>1, <1>2, JoinsTheLine
  <2> QED BY <2>1 DEF InLine
<1>4. \A d \in L!Channels : d # c => arrived'[d] = arrived[d]
  OBVIOUS
<1>5. arrived'[c] = k
  OBVIOUS
<1>6. CASE L!Full(c, u)
  <2>1. L!Flush(c, u, q) /\ timer' = timer
    BY <1>1, <1>2, <1>6 DEF L!Forward
  <2>2. PICK p, s : /\ pending' = [pending EXCEPT ![c] = p] /\ p \in Seq(Record)
                    /\ request' = [request EXCEPT ![c] = s] /\ s \in Seq(Seq(Record))
                    /\ \A x : Line(o, s, p, x, k)
    <3>1. L!Flush(c, u, IF f = <<>> THEN <<>> ELSE <<f>>)
      BY <2>1, <1>1
    <3> QED BY <3>1, <1>3, FlushKeeps
  <2>3. Forwarders'
    BY <2>1, <2>2 DEF Forwarders
  <2>4. ASSUME NEW d \in L!Channels
        PROVE  Line(printed'[d], request'[d], pending'[d], timer'[d], arrived'[d])
    <3>1. CASE d = c
      <4>1. request'[d] = s /\ pending'[d] = p /\ printed'[d] = o /\ arrived'[d] = k
        BY <3>1, <2>2, <1>1, <1>5 DEF Forwarders
      <4> QED BY <4>1, <2>2
    <3>2. CASE d # c
      <4>1. request'[d] = request[d] /\ pending'[d] = pending[d]
        BY <3>2, <2>2 DEF Forwarders
      <4> QED BY <4>1, <3>2, <2>1, <1>4 DEF Lines
    <3> QED BY <3>1, <3>2
  <2> QED BY <2>3, <2>4 DEF Lines
<1>7. CASE ~L!Full(c, u)
  <2>1. /\ pending' = [pending EXCEPT ![c] = u] /\ timer' = [timer EXCEPT ![c] = TRUE]
        /\ request' = request
    BY <1>1, <1>2, <1>7 DEF L!Forward
  <2>2. Forwarders'
    BY <2>1, <1>3 DEF Forwarders
  <2>3. ASSUME NEW d \in L!Channels
        PROVE  Line(printed'[d], request'[d], pending'[d], timer'[d], arrived'[d])
    <3>1. CASE d = c
      <4>1. /\ pending'[d] = u /\ timer'[d] = TRUE /\ printed'[d] = o /\ arrived'[d] = k
            /\ request'[d] = q
        BY <3>1, <2>1, <1>1, <1>5 DEF Forwarders
      <4>2. Line(o, q, u, TRUE, k)
        BY <1>1, <1>3 DEF Line
      <4> QED BY <4>1, <4>2
    <3>2. CASE d # c
      <4>1. timer'[d] = timer[d] /\ pending'[d] = pending[d]
        BY <3>2, <2>1 DEF Forwarders
      <4> QED BY <4>1, <3>2, <2>1, <1>4 DEF Lines
    <3> QED BY <3>1, <3>2
  <2> QED BY <2>2, <2>3 DEF Lines
<1> QED BY <1>6, <1>7

LEMMA SinkKeeps ==
  ASSUME LogsInv, ~hidden, NEW msg \in Message, L!Sink(msg), printed' = printed
  PROVE  /\ arrived' \in [L!Channels -> Nat]
         /\ BundleOK(bundle', bytes', dropped', arrived'["logwise"])
         /\ Forwarders' /\ Lines'
<1>1. PICK c, k, r : /\ c = msg.c /\ k = arrived[c] + 1
                     /\ r = [n |-> k, from |-> msg.from, seq |-> msg.seq, size |-> msg.size]
  OBVIOUS
<1>2. /\ c \in L!Channels /\ arrived \in [L!Channels -> Nat] /\ "logwise" \in L!Channels
      /\ msg.from \in L!Realms /\ msg.seq \in Nat /\ msg.size \in Nat
      /\ (c = "logwise" => msg.size <= MaxBytes)
  <2>1. /\ c \in L!Channels /\ msg.from \in L!Realms /\ msg.seq \in Nat /\ msg.size \in Sizes
        /\ (c = "logwise" => msg.size <= MaxRecord)
    BY <1>1 DEF Message
  <2>2. "logwise" \in L!Channels /\ arrived \in [L!Channels -> Nat]
    BY DEF LogsInv, L!Channels
  <2>3. PICK z : z = msg.size /\ z \in Sizes
    BY <2>1
  <2>4. z \in Nat /\ (c = "logwise" => z <= MaxBytes)
    BY <2>1, <2>3, LogsAssumption DEF LogBounds
  <2> QED BY <2>1, <2>2, <2>3, <2>4
<1>3. k \in Nat /\ r.n = k /\ r.size = msg.size
  BY <1>1, <1>2
<1>4. r \in Record
  BY <1>1, <1>2, <1>3 DEF Record
<1>5. arrived' = [arrived EXCEPT ![c] = k] /\ L!Forward(c, r)
  BY <1>1 DEF L!Sink
<1>6. Forwarders' /\ Lines'
  BY <1>1, <1>2, <1>3, <1>4, <1>5, ForwardKeeps DEF LogsInv
<1>7. CASE c = "logwise"
  <2>1. PICK e : e = L!Evict(bundle, bytes, r.size)
    OBVIOUS
  <2>2. /\ bundle' = Append(e.kept, r) /\ bytes' = e.bytes + r.size
        /\ dropped' = dropped + Len(bundle) - Len(e.kept)
    BY <1>1, <1>3, <1>7, <2>1 DEF L!Sink
  <2>3. BundleOK(bundle', bytes', dropped', k)
    BY <1>1, <1>2, <1>3, <1>4, <1>7, <2>1, <2>2, BundleGrows DEF LogsInv
  <2>4. arrived'["logwise"] = k
    BY <1>2, <1>5, <1>7
  <2> QED BY <2>3, <2>4, <1>2, <1>3, <1>5, <1>6
<1>8. CASE c # "logwise"
  <2>1. bundle' = bundle /\ bytes' = bytes /\ dropped' = dropped
    BY <1>1, <1>8 DEF L!Sink
  <2>2. arrived'["logwise"] = arrived["logwise"]
    BY <1>2, <1>5, <1>8
  <2> QED BY <2>1, <2>2, <1>2, <1>3, <1>5, <1>6 DEF LogsInv
<1> QED BY <1>7, <1>8

LEMMA EmitKeeps ==
  ASSUME LogsInv, NEW r \in L!Realms, NEW c \in L!Channels, NEW s \in Sizes, L!Emit(r, c, s)
  PROVE  LogsInv'
<1>1. PICK msg : msg = [c |-> c, from |-> r, seq |-> logged, size |-> s]
  OBVIOUS
<1>2. /\ ~hidden /\ logged' = logged + 1 /\ hidden' = hidden /\ printed' = printed
      /\ logged \in Nat /\ (c = "logwise" => s <= MaxRecord)
  BY DEF L!Emit, LogsInv
<1>3. msg \in Message
  BY <1>1, <1>2 DEF Message
<1>4. logged' \in Nat
  BY <1>2
<1>5. CASE r = Root
  <2>1. L!Sink(msg) /\ mail' = mail
    BY <1>1, <1>5 DEF L!Emit
  <2> QED BY <2>1, <1>2, <1>3, <1>4, SinkKeeps DEF LogsInv
<1>6. CASE r # Root
  <2>1. /\ mail' = [mail EXCEPT ![r] = Append(@, msg)]
        /\ UNCHANGED <<arrived, bundle, bytes, dropped, pending, request, timer>>
    BY <1>1, <1>6 DEF L!Emit
  <2>2. r \in Workers
    BY <1>6 DEF L!Realms
  <2>3. PICK u : u = Append(mail[r], msg)
    OBVIOUS
  <2>4. mail[r] \in Seq(Message) /\ mail \in [Workers -> Seq(Message)]
    BY <2>2 DEF LogsInv
  <2>5. u \in Seq(Message)
    BY <2>3, <2>4, <1>3, AppendProperties
  <2>6. mail' \in [Workers -> Seq(Message)]
    BY <2>1, <2>3, <2>4, <2>5
  <2>7. Forwarders' /\ Lines'
    BY <1>2, <2>1 DEF LogsInv, Forwarders, Lines
  <2> QED BY <1>2, <1>4, <2>1, <2>6, <2>7 DEF LogsInv
<1> QED BY <1>5, <1>6

LEMMA RelayKeeps ==
  ASSUME LogsInv, NEW w \in Workers, L!Relay(w)
  PROVE  LogsInv'
<1>1. PICK q : q = mail[w]
  OBVIOUS
<1>2. q \in Seq(Message) /\ q # <<>> /\ mail \in [Workers -> Seq(Message)] /\ ~hidden
  BY <1>1 DEF LogsInv, L!Relay
<1>3. Head(q) \in Message /\ Tail(q) \in Seq(Message)
  BY <1>2, HeadTailProperties
<1>4. L!Sink(Head(q)) /\ mail' = [mail EXCEPT ![w] = Tail(q)]
      /\ UNCHANGED <<logged, hidden, printed>>
  BY <1>1 DEF L!Relay
<1>5. mail' \in [Workers -> Seq(Message)]
  BY <1>2, <1>3, <1>4
<1> QED BY <1>2, <1>3, <1>4, <1>5, SinkKeeps DEF LogsInv

LEMMA PageHideKeeps ==
  ASSUME LogsInv, L!PageHide
  PROVE  LogsInv'
BY DEF L!PageHide, LogsInv

LEMMA TimerKeeps ==
  ASSUME LogsInv, NEW c \in L!Channels, L!TimerFires(c)
  PROVE  LogsInv'
<1>1. /\ ~hidden /\ timer' = [timer EXCEPT ![c] = FALSE] /\ L!Flush(c, pending[c], request[c])
      /\ UNCHANGED <<logged, mail, arrived, bundle, bytes, dropped, hidden, printed>>
      /\ Forwarders /\ Lines
  BY DEF L!TimerFires, LogsInv
<1>2. PICK o, q, w, f : /\ o = printed[c] /\ q = request[c] /\ w = pending[c]
                        /\ q = (IF f = <<>> THEN <<>> ELSE <<f>>)
                        /\ InLine(o, f, w, arrived[c])
  BY <1>1 DEF Lines, Line
<1>3. PICK p, s : /\ pending' = [pending EXCEPT ![c] = p] /\ p \in Seq(Record)
                  /\ request' = [request EXCEPT ![c] = s] /\ s \in Seq(Seq(Record))
                  /\ \A x : Line(o, s, p, x, arrived[c])
  <2>1. L!Flush(c, w, IF f = <<>> THEN <<>> ELSE <<f>>)
    BY <1>1, <1>2
  <2> QED BY <2>1, <1>2, FlushKeeps
<1>4. Forwarders'
  BY <1>1, <1>3 DEF Forwarders
<1>5. ASSUME NEW d \in L!Channels
      PROVE  Line(printed'[d], request'[d], pending'[d], timer'[d], arrived'[d])
  <2>1. CASE d = c
    <3>1. request'[d] = s /\ pending'[d] = p /\ printed'[d] = o /\ arrived'[d] = arrived[c]
      BY <2>1, <1>1, <1>2, <1>3 DEF Forwarders
    <3> QED BY <3>1, <1>3
  <2>2. CASE d # c
    <3>1. request'[d] = request[d] /\ pending'[d] = pending[d] /\ timer'[d] = timer[d]
      BY <2>2, <1>1, <1>3 DEF Forwarders
    <3> QED BY <3>1, <1>1 DEF Lines
  <2> QED BY <2>1, <2>2
<1>6. Lines'
  BY <1>5 DEF Lines
<1> QED BY <1>1, <1>4, <1>6 DEF LogsInv

LEMMA SettledKeeps ==
  ASSUME LogsInv, NEW c \in L!Channels, NEW i \in 1..2, NEW answered \in BOOLEAN,
         L!Settled(c, i, answered)
  PROVE  LogsInv'
<1>1. /\ i \in 1..Len(request[c])
      /\ UNCHANGED <<logged, mail, arrived, bundle, bytes, dropped, timer, hidden>>
  BY DEF L!Settled
<1>2. CASE hidden
  BY <1>1, <1>2 DEF LogsInv
<1>3. CASE ~hidden
  <2>1. Forwarders /\ Lines
    BY <1>3 DEF LogsInv
  <2>2. PICK o, q, w, f : /\ o = printed[c] /\ q = request[c] /\ w = pending[c]
                          /\ q = (IF f = <<>> THEN <<>> ELSE <<f>>)
                          /\ InLine(o, f, w, arrived[c])
    BY <2>1 DEF Lines, Line
  <2>3. q = <<f>> /\ i = 1 /\ q[1] = f
    <3>1. Len(<<>>) = 0 /\ Len(<<f>>) = 1 /\ 1..0 = {} /\ 1..1 = {1}
      OBVIOUS
    <3> QED BY <3>1, <1>1, <2>2
  <2>4. L!RemoveAt(q, i) = <<>>
    <3>1. SubSeq(<<f>>, 1, 0) = <<>> /\ SubSeq(<<f>>, 2, 1) = <<>> /\ <<>> \o <<>> = <<>>
      OBVIOUS
    <3> QED BY <3>1, <2>3 DEF L!RemoveAt
  <2>5. PICK out : /\ printed' = [printed EXCEPT ![c] = out] /\ InLine(out, <<>>, w, arrived[c])
    <3>1. InLine(o, <<>>, w, arrived[c]) /\ InLine(o \o L!Fitting(f), <<>>, w, arrived[c])
      BY <2>2, Lands
    <3>2. printed = [printed EXCEPT ![c] = o]
      BY <2>1, <2>2 DEF Forwarders
    <3>3. printed' = printed \/ printed' = [printed EXCEPT ![c] = o \o L!Fitting(f)]
      BY <2>2, <2>3 DEF L!Settled
    <3> QED BY <3>1, <3>2, <3>3
  <2>6. L!Flush(c, w, IF <<>> = <<>> THEN <<>> ELSE << <<>> >>)
    BY <1>3, <2>2, <2>4 DEF L!Settled
  <2>7. PICK p, s : /\ pending' = [pending EXCEPT ![c] = p] /\ p \in Seq(Record)
                    /\ request' = [request EXCEPT ![c] = s] /\ s \in Seq(Seq(Record))
                    /\ \A x : Line(out, s, p, x, arrived[c])
    BY <2>5, <2>6, FlushKeeps
  <2>8. out \in Seq(Record)
    BY <2>5 DEF InLine
  <2>9. Forwarders'
    BY <1>1, <2>1, <2>5, <2>7, <2>8 DEF Forwarders
  <2>10. ASSUME NEW d \in L!Channels
         PROVE  Line(printed'[d], request'[d], pending'[d], timer'[d], arrived'[d])
    <3>1. CASE d = c
      <4>1. request'[d] = s /\ pending'[d] = p /\ printed'[d] = out /\ arrived'[d] = arrived[c]
        BY <3>1, <1>1, <2>1, <2>5, <2>7 DEF Forwarders
      <4> QED BY <4>1, <2>7
    <3>2. CASE d # c
      <4>1. request'[d] = request[d] /\ pending'[d] = pending[d] /\ printed'[d] = printed[d]
        BY <3>2, <2>1, <2>5, <2>7 DEF Forwarders
      <4> QED BY <4>1, <1>1, <2>1 DEF Lines
    <3> QED BY <3>1, <3>2
  <2>11. Lines'
    BY <2>10 DEF Lines
  <2> QED BY <1>1, <1>3, <2>9, <2>11 DEF LogsInv
<1> QED BY <1>2, <1>3

LEMMA LogsStep == LogsInv /\ [L!Next]_logVars => LogsInv'
<1> SUFFICES ASSUME LogsInv, [L!Next]_logVars PROVE LogsInv'
  OBVIOUS
<1>1. CASE UNCHANGED logVars
  BY <1>1 DEF logVars, LogsInv, Forwarders, Lines
<1>2. CASE L!Next
  BY <1>2, EmitKeeps, RelayKeeps, PageHideKeeps, TimerKeeps, SettledKeeps DEF L!Next
<1> QED BY <1>1, <1>2

LEMMA LogsSay == LogsInv => L!BundleExact /\ L!ForwardedInOrder
<1> SUFFICES ASSUME LogsInv PROVE L!BundleExact /\ L!ForwardedInOrder
  OBVIOUS
<1>1. L!BundleExact
  BY DEF LogsInv, BundleOK, L!BundleExact
<1>2. L!ForwardedInOrder
  BY DEF LogsInv, Lines, Line, InLine, Ordered, L!ForwardedInOrder
<1> QED BY <1>1, <1>2

\* What the page keeps of the structured records is the newest of them, within
\* both bounds and exactly counted, and the runner prints what reaches it in the
\* order in which it arrived, until the page is hidden.
THEOREM LogsStayExact == PageSpec => []LogsExact
<1>1. PageInit => LogsInv
  BY LogsInit DEF PageInit
<1>2. LogsInv /\ [PageNext]_pageVars => LogsInv'
  <2>1. [PageNext]_pageVars => [L!Next]_logVars
    BY DEF PageNext, pageVars
  <2> QED BY <2>1, LogsStep
<1>3. LogsInv => LogsExact
  BY LogsSay DEF LogsExact
<1> QED BY <1>1, <1>2, <1>3, PTL DEF PageSpec
=============================================================================
