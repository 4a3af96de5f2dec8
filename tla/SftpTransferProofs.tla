------------------------- MODULE SftpTransferProofs -------------------------
(***************************************************************************)
(* Proofs about the copies of SftpTransfer, for any length of the source,  *)
(* any size and number of requests, servers that answer in any order and   *)
(* as short as they like, and any number of faults: answers are matched,   *)
(* a copy that is reported as done is one, and what a failed download      *)
(* leaves is a beginning of the source.                                    *)
(***************************************************************************)
EXTENDS SftpTransfer, FiniteSetTheorems, SequenceTheorems, TLAPS

-----------------------------------------------------------------------------
(* Types.                                                                   *)

Request == [id : Nat, off : Nat, len : 1..Buflen]
ReadAnswer == [id : Nat, t : {"data", "eof", "fail"}, len : Nat]
WriteAnswer == [id : Nat, ok : BOOLEAN]
File == [len : Nat, good : SUBSET Nat]

PCs == {"open", "loop", "eat", "recv", "ack", "drain", "check", "truncate", "close", "done"}
Reasons == {"none", "Unexpected reply", "Can't find request",
            "Transfer complete, but requests still in queue"}

Transfer ==
  [pc : PCs, offset : Nat, buflen : 1..Buflen, max_req : 0..NumRequests, reqs : SUBSET Request,
   id : Nat, sent : Nat, acked : Nat, num_upload_req : Nat, maxack : Nat, highwater : Nat,
   reordered : BOOLEAN, read_error : BOOLEAN, write_error : BOOLEAN, status : {"ok", "failed"},
   fatal : Reasons, everything : BOOLEAN, result : {"busy", "ok", "failed"}]

Types ==
  /\ conf \in Confs /\ cl \in Transfer /\ interrupted \in BOOLEAN
  /\ dst \in File /\ dst.good \subseteq 0..(dst.len - 1)
  /\ toSrc \in Seq(Request) /\ fromSrc \in Seq(ReadAnswer)
  /\ toDst \in Seq(Request) /\ fromDst \in Seq(WriteAnswer)
  /\ faults \in [FaultKinds -> Nat]

-----------------------------------------------------------------------------
(* The inductive invariant.                                                 *)

\* the requests R are the ones in flight: each is on its way there or its answer is on its
\* way back
Matched(R, to, from) ==
  /\ IsFiniteSet(R) /\ Cardinality(R) = Len(to) + Len(from)
  /\ \A i \in DOMAIN to : to[i] \in R
  /\ \A i \in DOMAIN from : \E q \in R : q.id = from[i].id
  /\ \A i, j \in DOMAIN to : i # j => to[i].id # to[j].id
  /\ \A i, j \in DOMAIN from : i # j => from[i].id # from[j].id
  /\ \A i \in DOMAIN to, j \in DOMAIN from : to[i].id # from[j].id

\* ids are handed out once
Fresh(R, id) ==
  /\ \A q \in R : q.id <= id
  /\ \A q, r \in R : q.id = r.id => q = r

InFlight ==
  /\ Fresh(cl.reqs, cl.id)
  /\ conf.dir # "put" =>
       /\ Matched(cl.reqs, toSrc, fromSrc)
       /\ cl.num_upload_req = Len(toDst) + Len(fromDst)
  /\ conf.dir = "put" =>
       /\ Matched(cl.reqs, toDst, fromDst)
       /\ toSrc = <<>> /\ fromSrc = <<>> /\ cl.num_upload_req = 0
  /\ conf.dir = "get" => cl.num_upload_req = 0

\* where the client stands
Stage ==
  /\ cl.fatal = "none"
  /\ cl.pc \in {"open", "drain", "check", "truncate", "close", "done"} => cl.reqs = {}
  /\ cl.pc \in {"open", "check", "truncate", "close", "done"} => cl.num_upload_req = 0
  /\ conf.dir # "put" => cl.pc # "ack" /\ num_req <= NumRequests
  /\ conf.dir = "put" =>
       /\ cl.pc \notin {"eat", "recv", "drain"} /\ num_req = cl.sent - cl.acked
       /\ num_req <= NumRequests + (IF cl.pc = "ack" THEN 1 ELSE 0)
  /\ cl.pc # "done" => cl.result = "busy"
  /\ cl.pc = "open" => cl = Idle

Running == cl.pc \notin {"open", "close", "done"}

\* what is known of a read by its answer
Fits(q, r) ==
  /\ r.t = "data" => r.len \in 1..q.len /\ q.off + r.len <= Size
  /\ r.t = "eof" => q.off >= Size

\* nothing has gone wrong so far
Sound ==
  /\ ~cl.read_error /\ ~cl.write_error /\ ~interrupted
  /\ \A i \in DOMAIN fromDst : fromDst[i].ok

\* u is asked for, or on its way to the destination
Asked(u) == \E q \in cl.reqs : u \in Units(q.off, q.len)
Sent(u) == \E i \in DOMAIN toDst : u \in Units(toDst[i].off, toDst[i].len)

\* sftp_download() and sftp_crossload(): no unit is forgotten and none is asked for twice
Reading ==
  conf.dir # "put" /\ Running =>
    /\ \A i \in DOMAIN fromSrc, q \in cl.reqs : q.id = fromSrc[i].id => Fits(q, fromSrc[i])
    /\ \A q \in cl.reqs : q.off + q.len <= cl.offset
    /\ \A q, r \in cl.reqs : q = r \/ q.off + q.len <= r.off \/ r.off + r.len <= q.off
    /\ \A i \in DOMAIN toDst : toDst[i].off + toDst[i].len <= Size
    /\ ~conf.inplace => dst.len <= Size
    /\ cl.status = "ok"
    /\ Sound => \A u \in 0..(Size - 1) : u \in dst.good \/ Asked(u) \/ Sent(u) \/ u >= cl.offset
    /\ Sound /\ (cl.max_req = 0 \/ cl.pc \in {"drain", "check", "truncate"}) =>
         cl.offset >= Size

\* the marks of sftp_download()
Marks ==
  conf.dir = "get" /\ Running =>
    /\ cl.maxack <= Size /\ cl.maxack <= cl.offset /\ cl.highwater <= cl.maxack
    /\ ~cl.reordered => cl.highwater = cl.maxack /\ \A q \in cl.reqs : q.off >= cl.highwater
    /\ cl.write_error => faults["write"] >= 1
    /\ faults["write"] <= 1 => Units(0, cl.highwater) \subseteq dst.good
    /\ conf.inplace /\ Sound => dst.good \subseteq 0..(cl.maxack - 1)
    /\ conf.inplace /\ Sound /\ cl.pc = "truncate" => cl.highwater = Size

\* where the server that is written to stands: the requests on their way follow one another
Stands == IF toDst = <<>> THEN cl.offset ELSE toDst[1].off

\* sftp_upload(), as long as no write has failed
Writing ==
  conf.dir = "put" /\ Running =>
    /\ cl.offset <= Size /\ ~cl.read_error /\ ~cl.write_error
    /\ \A q \in cl.reqs : q.off + q.len <= cl.offset
    /\ conf.inplace => /\ cl.maxack <= cl.offset
                       /\ cl.maxack = cl.offset \/ \E q \in cl.reqs : q.off + q.len = cl.offset
    /\ faults["write"] = 0 =>
         /\ cl.status = "ok" /\ \A i \in DOMAIN fromDst : fromDst[i].ok
         /\ \A i \in DOMAIN toDst : i + 1 \in DOMAIN toDst =>
              toDst[i + 1].off = toDst[i].off + toDst[i].len
         /\ toDst # <<>> => toDst[Len(toDst)].off + toDst[Len(toDst)].len = cl.offset
         /\ Units(0, Stands) \subseteq dst.good /\ (~conf.inplace => dst.len = Stands)
         /\ ~interrupted /\ cl.pc \in {"check", "truncate"} => cl.offset = Size
         /\ ~interrupted /\ cl.pc = "truncate" /\ conf.inplace => cl.highwater = Size

\* a file that is written in place could be cut
CanCut == conf.inplace => faults["truncate"] = 0

\* the file once it was cut
Cut ==
  /\ cl.pc = "close" =>
       /\ conf.dir # "put" /\ Sound /\ CanCut => Copied(dst)
       /\ conf.dir = "put" /\ faults["write"] = 0 /\ ~interrupted /\ CanCut => Copied(dst)
  /\ PrefixLeft
  /\ CopyFaithful

\* before the transfer
Before ==
  cl.pc = "open" => dst.len = conf.old /\ (conf.resume => dst.good = Units(0, conf.old))
                    /\ (~conf.resume => dst.good = {})
                    /\ toSrc = <<>> /\ fromSrc = <<>> /\ toDst = <<>> /\ fromDst = <<>>

IInv == Types /\ InFlight /\ Stage /\ Reading /\ Marks /\ Writing /\ Cut /\ Before

-----------------------------------------------------------------------------
(* Numbers and sequences.                                                   *)

\* the greater of two numbers
LEMMA MaxTwo ==
  ASSUME NEW a \in Int, NEW b \in Int
  PROVE  Max({a, b}) = IF a >= b THEN a ELSE b
<1>1. \E x \in {a, b} : \A y \in {a, b} : x >= y
  OBVIOUS
<1>2. PICK x \in {a, b} : x = Max({a, b}) /\ \A y \in {a, b} : x >= y
  BY <1>1 DEF Max
<1> QED BY <1>2

\* the smaller of two numbers
LEMMA MinTwo ==
  ASSUME NEW a \in Int, NEW b \in Int
  PROVE  Min({a, b}) = IF a <= b THEN a ELSE b
<1>1. \E x \in {a, b} : \A y \in {a, b} : x =< y
  OBVIOUS
<1>2. PICK x \in {a, b} : x = Min({a, b}) /\ \A y \in {a, b} : x =< y
  BY <1>1 DEF Min
<1> QED BY <1>2

\* the smallest of three numbers
LEMMA MinThree ==
  ASSUME NEW a \in Int, NEW b \in Int, NEW d \in Int
  PROVE  /\ Min({a, b, d}) \in {a, b, d}
         /\ Min({a, b, d}) <= a /\ Min({a, b, d}) <= b /\ Min({a, b, d}) <= d
<1>1. \E x \in {a, b, d} : \A y \in {a, b, d} : x =< y
  OBVIOUS
<1>2. PICK x \in {a, b, d} : x = Min({a, b, d}) /\ \A y \in {a, b, d} : x =< y
  BY <1>1 DEF Min
<1> QED BY <1>2

\* w is s with e put at k
Placed(S, s, k, e, w) ==
  /\ w \in Seq(S) /\ Len(w) = Len(s) + 1
  /\ \A j \in 1..(Len(s) + 1) : w[j] = IF j < k THEN s[j] ELSE IF j = k THEN e ELSE s[j - 1]

\* an answer that overtakes others
LEMMA Inserted ==
  ASSUME NEW S, NEW s \in Seq(S), NEW e \in S, NEW k \in 1..(Len(s) + 1)
  PROVE  Placed(S, s, k, e, InsertAt(s, k, e))
<1>1. PICK a : a = SubSeq(s, 1, k - 1)
  OBVIOUS
<1>2. PICK b : b = SubSeq(s, k, Len(s))
  OBVIOUS
<1>3. a \in Seq(S) /\ Len(a) = k - 1 /\ \A j \in 1..(k - 1) : a[j] = s[j]
  BY <1>1
<1>4. b \in Seq(S) /\ Len(b) = Len(s) - k + 1 /\ \A j \in 1..(Len(s) - k + 1) : b[j] = s[k + j - 1]
  BY <1>2
<1>5. PICK h : h = a \o <<e>>
  OBVIOUS
<1>6. h \in Seq(S) /\ Len(h) = k /\ (\A j \in 1..(k - 1) : h[j] = s[j]) /\ h[k] = e
  BY <1>3, <1>5
<1>7. PICK w : w = h \o b
  OBVIOUS
<1>8. w \in Seq(S) /\ Len(w) = Len(s) + 1
  <2>1. h \o b \in Seq(S) /\ Len(h \o b) = Len(h) + Len(b)
    BY <1>4, <1>6, ConcatProperties
  <2> QED BY <1>4, <1>6, <1>7, <2>1
<1>9. \A j \in 1..(Len(s) + 1) : w[j] = IF j <= k THEN h[j] ELSE b[j - k]
  <2>1. \A j \in 1..(Len(h) + Len(b)) : (h \o b)[j] = IF j <= Len(h) THEN h[j] ELSE b[j - Len(h)]
    BY <1>4, <1>6, ConcatProperties
  <2> QED BY <1>4, <1>6, <1>7, <2>1
<1>10. \A j \in 1..(Len(s) + 1) : w[j] = IF j < k THEN s[j] ELSE IF j = k THEN e ELSE s[j - 1]
  BY <1>4, <1>6, <1>9
<1>11. InsertAt(s, k, e) = w
  BY <1>1, <1>2, <1>5, <1>7 DEF InsertAt
<1> QED BY <1>8, <1>10, <1>11 DEF Placed

\* the messages of w are e and those of s
Mixed(s, e, w) ==
  /\ \A j \in DOMAIN w : w[j] = e \/ \E i \in DOMAIN s : w[j] = s[i]
  /\ \A i \in DOMAIN s : \E j \in DOMAIN w : w[j] = s[i]
  /\ \E j \in DOMAIN w : w[j] = e

\* an insertion neither loses nor invents a message
LEMMA PlacedFacts ==
  ASSUME NEW S, NEW s \in Seq(S), NEW e, NEW k \in 1..(Len(s) + 1), NEW w, Placed(S, s, k, e, w)
  PROVE  Mixed(s, e, w)
<1>1. /\ DOMAIN w = 1..(Len(s) + 1) /\ DOMAIN s = 1..Len(s) /\ Len(s) \in Nat /\ k \in Int
      /\ \A j \in 1..(Len(s) + 1) : w[j] = IF j < k THEN s[j] ELSE IF j = k THEN e ELSE s[j - 1]
  BY DEF Placed
<1>2. ASSUME NEW j \in DOMAIN w
      PROVE  w[j] = e \/ \E i \in DOMAIN s : w[j] = s[i]
  <2>1. CASE j < k
    BY <1>1, <2>1
  <2>2. CASE j = k
    BY <1>1, <2>2
  <2>3. CASE j > k
    <3>1. w[j] = s[j - 1] /\ j - 1 \in DOMAIN s
      BY <1>1, <2>3
    <3> QED BY <3>1
  <2> QED BY <1>1, <2>1, <2>2, <2>3
<1>3. ASSUME NEW i \in DOMAIN s
      PROVE  \E j \in DOMAIN w : w[j] = s[i]
  <2>1. CASE i < k
    BY <1>1, <2>1
  <2>2. CASE i >= k
    <3>1. i + 1 \in DOMAIN w /\ w[i + 1] = s[(i + 1) - 1] /\ (i + 1) - 1 = i
      BY <1>1, <2>2
    <3> QED BY <3>1
  <2> QED BY <1>1, <2>1, <2>2
<1>4. k \in DOMAIN w /\ w[k] = e
  BY <1>1
<1> QED BY <1>2, <1>3, <1>4 DEF Mixed

\* one message is taken
LEMMA Taken ==
  ASSUME NEW S, NEW s \in Seq(S), s # <<>>
  PROVE  /\ Tail(s) \in Seq(S) /\ Len(Tail(s)) = Len(s) - 1 /\ Len(s) >= 1
         /\ Head(s) = s[1] /\ Head(s) \in S /\ 1 \in DOMAIN s
         /\ \A j \in DOMAIN Tail(s) : j + 1 \in DOMAIN s /\ Tail(s)[j] = s[j + 1]
OBVIOUS

\* one message is sent
LEMMA Added ==
  ASSUME NEW S, NEW s \in Seq(S), NEW e \in S
  PROVE  /\ Append(s, e) \in Seq(S) /\ Len(Append(s, e)) = Len(s) + 1
         /\ \A j \in DOMAIN Append(s, e) : \/ j \in DOMAIN s /\ Append(s, e)[j] = s[j]
                                           \/ j = Len(s) + 1 /\ Append(s, e)[j] = e
OBVIOUS

-----------------------------------------------------------------------------
(* Requests and their answers.                                              *)

\* the server takes a request and answers it
LEMMA MatchedAnswer ==
  ASSUME NEW A, NEW R \in SUBSET Request, NEW to \in Seq(Request), NEW from \in Seq(A), to # <<>>,
         Matched(R, to, from), NEW e \in A, e.id = Head(to).id, NEW k \in 1..(Len(from) + 1)
  PROVE  Matched(R, Tail(to), InsertAt(from, k, e))
<1>1. PICK u : u = Tail(to)
  OBVIOUS
<1>2. PICK w : w = InsertAt(from, k, e)
  OBVIOUS
<1>3. /\ u \in Seq(Request) /\ Len(u) = Len(to) - 1
      /\ \A j \in DOMAIN u : j + 1 \in DOMAIN to /\ u[j] = to[j + 1]
      /\ Head(to) = to[1] /\ 1 \in DOMAIN to
  BY <1>1, Taken
<1>4. /\ w \in Seq(A) /\ Len(w) = Len(from) + 1
      /\ \A j \in 1..(Len(from) + 1) :
           w[j] = IF j < k THEN from[j] ELSE IF j = k THEN e ELSE from[j - 1]
  <2>1. Placed(A, from, k, e, w)
    BY <1>2, Inserted
  <2> QED BY <2>1 DEF Placed
<1>5. DOMAIN w = 1..(Len(from) + 1) /\ DOMAIN from = 1..Len(from) /\ k \in Int /\ Len(from) \in Nat
  BY <1>4
<1>6. \A j \in DOMAIN w : \/ j = k /\ w[j] = e
                          \/ j < k /\ j \in DOMAIN from /\ w[j] = from[j]
                          \/ j > k /\ j - 1 \in DOMAIN from /\ w[j] = from[j - 1]
  BY <1>4, <1>5
<1>m. /\ IsFiniteSet(R) /\ Cardinality(R) = Len(to) + Len(from)
      /\ \A i \in DOMAIN to : to[i] \in R
      /\ \A i \in DOMAIN from : \E q \in R : q.id = from[i].id
      /\ \A i, j \in DOMAIN to : i # j => to[i].id # to[j].id
      /\ \A i, j \in DOMAIN from : i # j => from[i].id # from[j].id
      /\ \A i \in DOMAIN to, j \in DOMAIN from : to[i].id # from[j].id
  BY DEF Matched
<1>7. Cardinality(R) = Len(u) + Len(w)
  BY <1>m, <1>3, <1>4
<1>8. \A i \in DOMAIN u : u[i] \in R
  BY <1>m, <1>3
<1>9. \A i \in DOMAIN w : \E q \in R : q.id = w[i].id
  <2>1. to[1] \in R /\ e.id = to[1].id
    BY <1>m, <1>3, Zenon
  <2> SUFFICES ASSUME NEW i \in DOMAIN w
               PROVE  \E q \in R : q.id = w[i].id
    OBVIOUS
  <2>2. CASE w[i] = e
    BY <2>1, <2>2, Zenon
  <2>3. CASE \E j \in DOMAIN from : w[i] = from[j]
    BY <1>m, <2>3, ZenonT(60)
  <2>4. \/ w[i] = e
        \/ i \in DOMAIN from /\ w[i] = from[i]
        \/ i - 1 \in DOMAIN from /\ w[i] = from[i - 1]
    BY <1>6, Zenon
  <2> QED BY <2>2, <2>3, <2>4, Zenon
<1>10. \A i, j \in DOMAIN u : i # j => u[i].id # u[j].id
  <2> SUFFICES ASSUME NEW i \in DOMAIN u, NEW j \in DOMAIN u, i # j
               PROVE  u[i].id # u[j].id
    OBVIOUS
  <2>1. i + 1 # j + 1
    BY <1>3
  <2>2. i + 1 \in DOMAIN to /\ j + 1 \in DOMAIN to /\ u[i] = to[i + 1] /\ u[j] = to[j + 1]
    BY <1>3, Zenon
  <2> QED BY <1>m, <2>1, <2>2, Zenon
<1>11. \A i, j \in DOMAIN w : i # j => w[i].id # w[j].id
  <2> SUFFICES ASSUME NEW i \in DOMAIN w, NEW j \in DOMAIN w, i < j
               PROVE  w[i].id # w[j].id
    BY <1>5
  <2>1. CASE i = k
    <3>1. j - 1 \in DOMAIN from /\ w[j] = from[j - 1] /\ w[i] = e
      BY <2>1, <1>5, <1>6
    <3>2. to[1].id # from[j - 1].id
      BY <3>1, <1>m, <1>3, Zenon
    <3> QED BY <3>1, <3>2, <1>3, Zenon
  <2>2. CASE j = k
    <3>1. i \in DOMAIN from /\ w[i] = from[i] /\ w[j] = e
      BY <2>2, <1>5, <1>6
    <3>2. to[1].id # from[i].id
      BY <3>1, <1>m, <1>3
    <3> QED BY <3>1, <3>2, <1>3
  <2>3. CASE i # k /\ j # k
    <3>1. PICK a \in DOMAIN from, b \in DOMAIN from : a # b /\ w[i] = from[a] /\ w[j] = from[b]
      BY <2>3, <1>5, <1>6
    <3> QED BY <3>1, <1>m
  <2> QED BY <2>1, <2>2, <2>3
<1>12. \A i \in DOMAIN u, j \in DOMAIN w : u[i].id # w[j].id
  <2> SUFFICES ASSUME NEW i \in DOMAIN u, NEW j \in DOMAIN w
               PROVE  u[i].id # w[j].id
    OBVIOUS
  <2>1. i + 1 \in DOMAIN to /\ u[i] = to[i + 1] /\ i + 1 # 1
    BY <1>3
  <2>2. CASE j = k
    <3>1. w[j] = e
      BY <2>2, <1>6
    <3>2. to[i + 1].id # to[1].id
      BY <2>1, <1>m, <1>3
    <3> QED BY <2>1, <3>1, <3>2, <1>3
  <2>3. CASE j # k
    <3>1. PICK a \in DOMAIN from : w[j] = from[a]
      BY <2>3, <1>6
    <3> QED BY <2>1, <3>1, <1>m
  <2> QED BY <2>2, <2>3
<1> QED BY <1>1, <1>2, <1>m, <1>7, <1>8, <1>9, <1>10, <1>11, <1>12 DEF Matched

\* q is not in flight any more
Settled(R, to, from, q) ==
  /\ Matched(R \ {q}, to, Tail(from)) /\ Cardinality(R \ {q}) = Cardinality(R) - 1
  /\ Cardinality(R) \in Nat /\ Cardinality(R) >= 1

\* an answer is taken, its request is settled
LEMMA MatchedSettle ==
  ASSUME NEW A, NEW R \in SUBSET Request, NEW to \in Seq(Request), NEW from \in Seq(A), from # <<>>,
         Matched(R, to, from), NEW id, Fresh(R, id), NEW q \in R, q.id = Head(from).id
  PROVE  Settled(R, to, from, q)
<1>1. PICK u : u = Tail(from)
  OBVIOUS
<1>3. /\ u \in Seq(A) /\ Len(u) = Len(from) - 1 /\ Len(from) >= 1
      /\ \A j \in DOMAIN u : j + 1 \in DOMAIN from /\ u[j] = from[j + 1] /\ j \in Nat
      /\ Head(from) = from[1] /\ 1 \in DOMAIN from
  BY <1>1, Taken
<1>m. /\ IsFiniteSet(R) /\ Cardinality(R) = Len(to) + Len(from)
      /\ \A i \in DOMAIN to : to[i] \in R
      /\ \A i \in DOMAIN from : \E r \in R : r.id = from[i].id
      /\ \A i, j \in DOMAIN to : i # j => to[i].id # to[j].id
      /\ \A i, j \in DOMAIN from : i # j => from[i].id # from[j].id
      /\ \A i \in DOMAIN to, j \in DOMAIN from : to[i].id # from[j].id
  BY DEF Matched
<1>4. IsFiniteSet(R \ {q}) /\ Cardinality(R \ {q}) = Cardinality(R) - 1
  BY <1>m, FS_RemoveElement
<1>5. Cardinality(R \ {q}) = Len(to) + Len(u) /\ Cardinality(R) \in Nat /\ Cardinality(R) >= 1
  BY <1>m, <1>3, <1>4
<1>6. \A i \in DOMAIN to : to[i] \in R \ {q}
  <2> SUFFICES ASSUME NEW i \in DOMAIN to
               PROVE  to[i] \in R \ {q}
    OBVIOUS
  <2>1. to[i] \in R /\ to[i].id # from[1].id
    BY <1>m, <1>3, Zenon
  <2>2. to[i] # q
    BY <2>1, <1>3, Zenon
  <2> QED BY <2>1, <2>2, Zenon
<1>7. \A i \in DOMAIN u : \E r \in R \ {q} : r.id = u[i].id
  <2> SUFFICES ASSUME NEW i \in DOMAIN u
               PROVE  \E r \in R \ {q} : r.id = u[i].id
    OBVIOUS
  <2>1. i + 1 # 1 /\ i + 1 \in DOMAIN from /\ u[i] = from[i + 1]
    BY <1>3
  <2>2. from[i + 1].id # q.id
    BY <2>1, <1>m, <1>3
  <2> QED BY <2>1, <2>2, <1>m
<1>8. \A i, j \in DOMAIN u : i # j => u[i].id # u[j].id
  <2> SUFFICES ASSUME NEW i \in DOMAIN u, NEW j \in DOMAIN u, i # j
               PROVE  u[i].id # u[j].id
    OBVIOUS
  <2>1. i + 1 # j + 1
    BY <1>3
  <2>2. i + 1 \in DOMAIN from /\ j + 1 \in DOMAIN from /\ u[i] = from[i + 1] /\ u[j] = from[j + 1]
    BY <1>3, Zenon
  <2> QED BY <1>m, <2>1, <2>2, Zenon
<1>9. \A i \in DOMAIN to, j \in DOMAIN u : to[i].id # u[j].id
  BY <1>m, <1>3
<1> QED BY <1>1, <1>m, <1>4, <1>5, <1>6, <1>7, <1>8, <1>9 DEF Matched, Settled

\* e is new, and in flight
Newer(R, e) == \A q \in R : q.id < e.id
Joined(R, to, from, e) ==
  /\ Matched(R \cup {e}, Append(to, e), from)
  /\ Cardinality(R) \in Nat /\ Cardinality(R \cup {e}) = Cardinality(R) + 1

\* a request is made
LEMMA MatchedMore ==
  ASSUME NEW A, NEW R \in SUBSET Request, NEW to \in Seq(Request), NEW from \in Seq(A),
         Matched(R, to, from), NEW e \in Request, Newer(R, e)
  PROVE  Joined(R, to, from, e)
<1>1. PICK u : u = Append(to, e)
  OBVIOUS
<1>3. /\ u \in Seq(Request) /\ Len(u) = Len(to) + 1
      /\ \A j \in DOMAIN u : \/ j \in DOMAIN to /\ u[j] = to[j]
                             \/ j = Len(to) + 1 /\ u[j] = e
  BY <1>1, Added
<1>m. /\ IsFiniteSet(R) /\ Cardinality(R) = Len(to) + Len(from)
      /\ \A i \in DOMAIN to : to[i] \in R
      /\ \A i \in DOMAIN from : \E r \in R : r.id = from[i].id
      /\ \A i, j \in DOMAIN to : i # j => to[i].id # to[j].id
      /\ \A i, j \in DOMAIN from : i # j => from[i].id # from[j].id
      /\ \A i \in DOMAIN to, j \in DOMAIN from : to[i].id # from[j].id
  BY DEF Matched
<1>2. \A q \in R : q.id # e.id
  <2> SUFFICES ASSUME NEW q \in R PROVE q.id # e.id
    OBVIOUS
  <2>1. q.id \in Nat /\ e.id \in Nat /\ q.id < e.id
    BY DEF Request, Newer
  <2> QED BY <2>1
<1>4. e \notin R
  BY <1>2
<1>5. IsFiniteSet(R \cup {e}) /\ Cardinality(R \cup {e}) = Cardinality(R) + 1
  BY <1>m, <1>4, FS_AddElement
<1>6. Cardinality(R \cup {e}) = Len(u) + Len(from) /\ Cardinality(R) \in Nat
  BY <1>m, <1>3, <1>5
<1>7. \A i \in DOMAIN u : u[i] \in R \cup {e}
  BY <1>m, <1>3
<1>8. \A i, j \in DOMAIN u : i # j => u[i].id # u[j].id
  BY <1>m, <1>2, <1>3
<1>9. \A i \in DOMAIN u, j \in DOMAIN from : u[i].id # from[j].id
  BY <1>m, <1>2, <1>3
<1>10. \A i \in DOMAIN from : \E r \in R \cup {e} : r.id = from[i].id
  BY <1>m
<1> QED BY <1>1, <1>m, <1>5, <1>6, <1>7, <1>8, <1>9, <1>10 DEF Matched, Joined

-----------------------------------------------------------------------------
(* What a step leaves alone.                                                *)

SameRequests == cl'.reqs = cl.reqs /\ cl'.id = cl.id /\ cl'.num_upload_req = cl.num_upload_req
                /\ cl'.sent = cl.sent /\ cl'.acked = cl.acked
SamePlan == cl'.offset = cl.offset /\ cl'.buflen = cl.buflen /\ cl'.max_req = cl.max_req
SameMarks == cl'.maxack = cl.maxack /\ cl'.highwater = cl.highwater /\ cl'.reordered = cl.reordered
SameErrors == cl'.read_error = cl.read_error /\ cl'.write_error = cl.write_error
              /\ cl'.status = cl.status
SameEnd == cl'.fatal = cl.fatal /\ cl'.everything = cl.everything /\ cl'.result = cl.result

\* the client only goes to another place
LEMMA Moved ==
  ASSUME cl \in Transfer, NEW p \in PCs, cl' = [cl EXCEPT !.pc = p]
  PROVE  /\ cl' \in Transfer /\ cl'.pc = p
         /\ SameRequests /\ SamePlan /\ SameMarks /\ SameErrors /\ SameEnd
<1>1. cl' \in Transfer
  BY DEF Transfer
<1>2. cl'.pc = p /\ SameRequests /\ SamePlan
  BY DEF Transfer, SameRequests, SamePlan
<1>3. SameMarks /\ SameErrors /\ SameEnd
  BY DEF Transfer, SameMarks, SameErrors, SameEnd
<1> QED BY <1>1, <1>2, <1>3

\* a fault is counted
LEMMA Counted ==
  ASSUME NEW kind \in FaultKinds, faults \in [FaultKinds -> Nat], Fault(kind)
  PROVE  /\ faults' \in [FaultKinds -> Nat] /\ faults'[kind] = faults[kind] + 1
         /\ \A k \in FaultKinds : k # kind => faults'[k] = faults[k]
<1>1. faults' = [faults EXCEPT ![kind] = @ + 1]
  BY DEF Fault
<1> QED BY <1>1

\* nothing is in flight before and after the transfer
LEMMA Quiet ==
  ASSUME Types, InFlight, Stage, cl.pc \in {"open", "check", "truncate", "close", "done"}
  PROVE  toSrc = <<>> /\ fromSrc = <<>> /\ toDst = <<>> /\ fromDst = <<>>
<1>1. cl.reqs = {} /\ cl.num_upload_req = 0
  BY DEF Stage
<1>2. Cardinality(cl.reqs) = 0
  BY <1>1, FS_EmptySet
<1>3. conf.dir # "put" => Len(toSrc) + Len(fromSrc) = 0 /\ Len(toDst) + Len(fromDst) = 0
  BY <1>1, <1>2 DEF InFlight, Matched
<1>4. conf.dir = "put" => Len(toDst) + Len(fromDst) = 0 /\ Len(toSrc) = 0 /\ Len(fromSrc) = 0
  BY <1>1, <1>2 DEF InFlight, Matched
<1>5. Len(toSrc) = 0 /\ Len(fromSrc) = 0 /\ Len(toDst) = 0 /\ Len(fromDst) = 0
  BY <1>3, <1>4 DEF Types
<1> QED BY <1>5 DEF Types

\* the copies that are asked for
LEMMA ConfFacts ==
  ASSUME Types
  PROVE  /\ conf \in Conf /\ conf.dir \in {"get", "put", "cross"} /\ conf.old \in Nat
         /\ conf.maxread \in Nat \ {0}
         /\ conf.resume \in BOOLEAN /\ conf.inplace \in BOOLEAN /\ conf.sized \in BOOLEAN
         /\ conf.reorder \in BOOLEAN
         /\ ~(conf.resume /\ conf.inplace) /\ (conf.dir = "cross" => ~conf.resume /\ ~conf.inplace)
<1>1. conf \in Conf /\ ~(conf.resume /\ conf.inplace)
      /\ (conf.dir = "cross" => ~conf.resume /\ ~conf.inplace)
  BY SftpAssumption DEF Types
<1> QED BY <1>1 DEF Conf

\* the constants
LEMMA Sizes == Size \in Nat /\ Buflen \in Nat /\ Buflen >= 1 /\ MinRead \in 1..Buflen
               /\ NumRequests \in Nat /\ NumRequests >= 1
BY SftpAssumption

\* the fields of a request and of the client
LEMMA RequestFields ==
  ASSUME NEW r \in Request
  PROVE  r.id \in Nat /\ r.off \in Nat /\ r.len \in Nat /\ r.len >= 1 /\ r.len \in 1..Buflen
BY Sizes DEF Request

LEMMA ClientFields ==
  ASSUME Types
  PROVE  /\ cl.reqs \in SUBSET Request /\ cl.id \in Nat /\ cl.offset \in Nat
         /\ cl.buflen \in 1..Buflen /\ cl.buflen \in Nat /\ cl.max_req \in 0..NumRequests
         /\ cl.num_upload_req \in Nat /\ cl.sent \in Nat /\ cl.acked \in Nat
         /\ cl.maxack \in Nat /\ cl.highwater \in Nat /\ cl.reordered \in BOOLEAN
<1>1. cl \in Transfer
  BY DEF Types
<1> QED BY <1>1, Sizes DEF Transfer

-----------------------------------------------------------------------------
(* The end of the transfer.                                                 *)

\* in the end every unit has arrived
LEMMA AllRead ==
  ASSUME Types, InFlight, Stage, Reading, conf.dir # "put", cl.pc \in {"check", "truncate"}, Sound
  PROVE  0..(Size - 1) \subseteq dst.good
<1>1. cl.reqs = {} /\ Running
  BY DEF Stage, Running
<1>2. toDst = <<>>
  BY Quiet
<1>3. cl.offset >= Size /\ cl.offset \in Nat
  BY <1>1 DEF Reading, Types, Transfer
<1>4. \A u \in 0..(Size - 1) : u \in dst.good \/ Asked(u) \/ Sent(u) \/ u >= cl.offset
  BY <1>1 DEF Reading
<1>5. \A u : ~Asked(u) /\ ~Sent(u)
  BY <1>1, <1>2 DEF Asked, Sent
<1> QED BY <1>3, <1>4, <1>5, Sizes

\* the last answer was taken
LEMMA CheckKeeps ==
  ASSUME IInv, Check
  PROVE  IInv'
<1>0. Types /\ InFlight /\ Stage /\ Reading /\ Marks /\ Writing /\ Cut /\ Before
  BY DEF IInv
<1>1. cl.pc = "check" /\ cl.reqs = {} /\ cl.num_upload_req = 0 /\ Running /\ cl.result = "busy"
  BY <1>0 DEF Check, Stage, Running
<1>2. toSrc = <<>> /\ fromSrc = <<>> /\ toDst = <<>> /\ fromDst = <<>>
  BY <1>0, <1>1, Quiet
<1>3. UNCHANGED <<conf, interrupted, dst, toSrc, fromSrc, toDst, fromDst, faults>>
  BY DEF Check, net
<1>4. cl' = [got_everything(cl) EXCEPT !.pc = "truncate"]
  BY <1>1 DEF Check
<1>5. PICK h \in Nat, e \in BOOLEAN :
         /\ h = IF Failing \/ interrupted \/ conf.dir = "cross" THEN cl.highwater ELSE cl.maxack
         /\ cl' = [cl EXCEPT !.highwater = h, !.everything = e, !.pc = "truncate"]
  <2>1. cl.highwater \in Nat /\ cl.maxack \in Nat /\ cl.everything \in BOOLEAN
    BY <1>0 DEF Types, Transfer
  <2>2. CASE Failing \/ interrupted \/ conf.dir = "cross"
    <3>1. cl' = [cl EXCEPT !.pc = "truncate"]
      BY <2>2, <1>4 DEF got_everything
    <3>2. cl' = [cl EXCEPT !.highwater = cl.highwater, !.everything = cl.everything, !.pc = "truncate"]
      BY <3>1, <1>0 DEF Types, Transfer
    <3> QED BY <2>1, <2>2, <3>2
  <2>3. CASE ~(Failing \/ interrupted \/ conf.dir = "cross")
    <3>1. cl' = [cl EXCEPT !.highwater = cl.maxack, !.everything = TRUE, !.pc = "truncate"]
      BY <2>3, <1>4 DEF got_everything
    <3> QED BY <2>1, <2>3, <3>1
  <2> QED BY <2>2, <2>3
<1>6. cl' \in Transfer /\ cl'.pc = "truncate" /\ cl'.highwater = h
  BY <1>0, <1>5, ZenonT(60) DEF Types, Transfer, PCs
<1>7. SameRequests /\ SamePlan /\ SameErrors
  BY <1>0, <1>5 DEF Types, Transfer, SameRequests, SamePlan, SameErrors
<1>8. cl'.maxack = cl.maxack /\ cl'.reordered = cl.reordered /\ cl'.fatal = cl.fatal
      /\ cl'.result = cl.result
  BY <1>0, <1>5 DEF Types, Transfer
<1>9. Sound' => Sound
  BY <1>3, <1>7 DEF Sound, SameErrors
<1>10. Types'
  BY <1>0, <1>3, <1>6 DEF Types
<1>11. InFlight'
  BY <1>0, <1>3, <1>7 DEF InFlight, SameRequests
<1>12. Stage'
  BY <1>0, <1>1, <1>3, <1>6, <1>7, <1>8 DEF Stage, SameRequests, num_req
<1>13. Reading'
  <2>1. \A u : Asked(u)' = Asked(u)
    BY <1>7 DEF Asked, SameRequests
  <2>2. \A u : Sent(u)' = Sent(u)
    BY <1>3 DEF Sent
  <2> QED BY <1>0, <1>1, <1>3, <1>6, <1>7, <1>9, <2>1, <2>2 DEF Reading, Running, SameRequests, SamePlan, SameErrors
<1>14. Marks'
  <2> SUFFICES ASSUME conf.dir = "get"
               PROVE  Marks'
    BY <1>3 DEF Marks
  <2>1. ~Failing /\ ~interrupted => Sound
    BY <1>2 DEF Failing, Sound
  <2>2. Sound => ~Failing /\ ~interrupted
    BY <1>0, <1>1 DEF Failing, Sound, Reading
  <2>3. Sound => 0..(Size - 1) \subseteq dst.good
    BY <1>0, <1>1, AllRead
  <2>4. /\ cl.maxack \in Nat /\ cl.highwater \in Nat
        /\ cl.maxack <= Size /\ cl.maxack <= cl.offset /\ cl.highwater <= cl.maxack
        /\ (~cl.reordered => cl.highwater = cl.maxack)
        /\ (cl.write_error => faults["write"] >= 1)
        /\ (faults["write"] <= 1 => Units(0, cl.highwater) \subseteq dst.good)
        /\ (conf.inplace /\ Sound => dst.good \subseteq 0..(cl.maxack - 1))
    BY <1>0, <1>1 DEF Marks, Types, Transfer
  <2>5. h = IF Failing \/ interrupted THEN cl.highwater ELSE cl.maxack
    BY <1>5
  <2>6. h <= cl.maxack /\ (~cl.reordered => h = cl.maxack)
    BY <2>4, <2>5
  <2>7. faults["write"] <= 1 => Units(0, h) \subseteq dst.good
    BY <2>1, <2>3, <2>4, <2>5, Sizes DEF Units
  <2>8. conf.inplace /\ Sound => h = Size
    <3> SUFFICES ASSUME conf.inplace, Sound
                 PROVE  h = Size
      OBVIOUS
    <3>1. h = cl.maxack
      BY <2>2, <2>5
    <3>2. 0..(Size - 1) \subseteq 0..(cl.maxack - 1)
      BY <2>3, <2>4
    <3> QED BY <3>1, <3>2, <2>4, Sizes
  <2> QED BY <1>1, <1>3, <1>6, <1>7, <1>8, <1>9, <2>4, <2>6, <2>7, <2>8 DEF Marks, SameRequests, SamePlan, SameErrors
<1>15. Writing'
  <2> SUFFICES ASSUME conf.dir = "put"
               PROVE  Writing'
    BY <1>3 DEF Writing
  <2>1. Stands' = Stands
    BY <1>3, <1>7 DEF Stands, SamePlan
  <2>2. faults["write"] = 0 /\ ~interrupted /\ conf.inplace => h = Size
    BY <1>0, <1>1, <1>5 DEF Writing, Failing
  <2> QED BY <1>0, <1>1, <1>3, <1>6, <1>7, <1>8, <2>1, <2>2 DEF Writing, Running, SameRequests, SamePlan, SameErrors
<1>16. Cut' /\ Before'
  BY <1>1, <1>6, <1>8 DEF Cut, Before, PrefixLeft, CopyFaithful
<1> QED BY <1>10, <1>11, <1>12, <1>13, <1>14, <1>15, <1>16 DEF IInv

\* a complete copy, once it has the right length
LEMMA Complete ==
  ASSUME NEW f \in File, f.good \subseteq 0..(f.len - 1), 0..(Size - 1) \subseteq f.good, f.len <= Size
  PROVE  Copied(f) /\ Prefix(f)
<1>1. f.len \in Nat /\ Size \in Nat
  BY Sizes DEF File
<1>2. 0..(Size - 1) \subseteq 0..(f.len - 1)
  OBVIOUS
<1>3. f.len = Size
  BY <1>1, <1>2
<1>4. f.good = 0..(Size - 1)
  BY <1>3
<1> QED BY <1>1, <1>3, <1>4 DEF Copied, Prefix, Units

\* a file that is cut
LEMMA CutOff ==
  ASSUME NEW f \in File, NEW n \in Nat
  PROVE  /\ ftruncate(f, n) \in File /\ ftruncate(f, n).len = n
         /\ ftruncate(f, n).good = f.good \cap (0..(n - 1))
         /\ (0..(n - 1) \subseteq f.good => ftruncate(f, n).good = 0..(n - 1))
<1>1. ftruncate(f, n) = [len |-> n, good |-> f.good \cap (0..(n - 1))]
  BY DEF ftruncate, Units
<1>2. f.good \in SUBSET Nat
  BY DEF File
<1>3. f.good \cap (0..(n - 1)) \in SUBSET Nat
  BY <1>2
<1> QED BY <1>1, <1>3 DEF File

\* the file is cut, or left
LEMMA TruncateKeeps ==
  ASSUME IInv, Truncate
  PROVE  IInv'
<1>0. Types /\ InFlight /\ Stage /\ Reading /\ Marks /\ Writing /\ Cut /\ Before
  BY DEF IInv
<1>1. cl.pc = "truncate" /\ cl.reqs = {} /\ cl.num_upload_req = 0 /\ Running /\ cl.result = "busy"
  BY <1>0 DEF Truncate, Stage, Running
<1>2. toSrc = <<>> /\ fromSrc = <<>> /\ toDst = <<>> /\ fromDst = <<>>
  BY <1>0, <1>1, Quiet
<1>3. UNCHANGED <<conf, interrupted, toSrc, fromSrc, toDst, fromDst>>
  BY DEF Truncate, net
<1>4. cl' \in Transfer /\ cl'.pc = "close" /\ SameRequests /\ SamePlan /\ SameMarks /\ SameErrors
      /\ SameEnd
  <2>1. cl' = [cl EXCEPT !.pc = "close"] /\ "close" \in PCs
    BY DEF Truncate, PCs
  <2> QED BY <1>0, <2>1, Moved DEF Types
<1>5. Sound' => Sound
  BY <1>3, <1>4 DEF Sound, SameErrors
<1>n. PICK n : n = IF conf.dir = "cross" THEN 0 ELSE cl.highwater
  OBVIOUS
<1>6. n \in Nat /\ (conf.dir = "cross" => n = 0) /\ (conf.dir # "cross" => n = cl.highwater)
  BY <1>0, <1>n DEF Types, Transfer
<1>7. \/ ~MustTruncate /\ dst' = dst /\ faults' = faults
      \/ MustTruncate /\ dst' = ftruncate(dst, n) /\ faults' = faults
      \/ MustTruncate /\ conf.dir = "cross" /\ Fault("open") /\ dst' = dst
      \/ MustTruncate /\ conf.dir # "cross" /\ Fault("truncate") /\ dst' = dst
  BY <1>n DEF Truncate, truncate_local, truncate_remote, truncate_reopen, Works
<1>8. /\ faults' \in [FaultKinds -> Nat] /\ faults'["write"] = faults["write"]
      /\ (faults'["open"] = 0 => ~Fault("open")) /\ (faults'["truncate"] = 0 => ~Fault("truncate"))
  <2>0. faults \in [FaultKinds -> Nat]
    BY <1>0 DEF Types
  <2>1. CASE faults' = faults
    <3>1. "open" \in FaultKinds /\ "truncate" \in FaultKinds
      BY DEF FaultKinds
    <3>2. ~Fault("open") /\ ~Fault("truncate")
      <4>1. faults["open"] \in Nat /\ faults["truncate"] \in Nat
        BY <2>0, <3>1
      <4>2. Fault("open") => faults'["open"] = faults["open"] + 1
        BY <2>0, <3>1, Counted
      <4>3. Fault("truncate") => faults'["truncate"] = faults["truncate"] + 1
        BY <2>0, <3>1, Counted
      <4>4. faults["open"] # faults["open"] + 1 /\ faults["truncate"] # faults["truncate"] + 1
        BY <4>1
      <4> QED BY <2>1, <4>2, <4>3, <4>4
    <3> QED BY <2>0, <2>1, <3>2
  <2>2. CASE Fault("open")
    <3>1. /\ faults' \in [FaultKinds -> Nat] /\ faults'["open"] = faults["open"] + 1
          /\ faults["open"] \in Nat /\ faults["truncate"] \in Nat
          /\ faults'["truncate"] = faults["truncate"] /\ faults'["write"] = faults["write"]
      BY <2>0, <2>2, Counted DEF FaultKinds
    <3>2. ~Fault("truncate")
      <4>1. Fault("truncate") => faults'["truncate"] = faults["truncate"] + 1
        BY <2>0, Counted DEF FaultKinds
      <4>2. faults["truncate"] # faults["truncate"] + 1
        BY <3>1
      <4> QED BY <3>1, <4>1, <4>2
    <3>3. faults'["open"] # 0
      BY <3>1
    <3> QED BY <3>1, <3>2, <3>3
  <2>3. CASE Fault("truncate")
    <3>1. /\ faults' \in [FaultKinds -> Nat] /\ faults'["truncate"] = faults["truncate"] + 1
          /\ faults["open"] \in Nat /\ faults["truncate"] \in Nat
          /\ faults'["open"] = faults["open"] /\ faults'["write"] = faults["write"]
      BY <2>0, <2>3, Counted DEF FaultKinds
    <3>2. ~Fault("open")
      <4>1. Fault("open") => faults'["open"] = faults["open"] + 1
        BY <2>0, Counted DEF FaultKinds
      <4>2. faults["open"] # faults["open"] + 1
        BY <3>1
      <4> QED BY <3>1, <4>1, <4>2
    <3>3. faults'["truncate"] # 0
      BY <3>1
    <3> QED BY <3>1, <3>2, <3>3
  <2> QED BY <1>7, <2>1, <2>2, <2>3
<1>9. dst \in File /\ dst.good \subseteq 0..(dst.len - 1) /\ dst.len \in Nat
  BY <1>0 DEF Types, File
<1>10. /\ ftruncate(dst, n) \in File /\ ftruncate(dst, n).len = n
       /\ ftruncate(dst, n).good = dst.good \cap (0..(n - 1))
       /\ (0..(n - 1) \subseteq dst.good => ftruncate(dst, n).good = 0..(n - 1))
  BY <1>6, <1>9, CutOff
<1>11. dst' \in File /\ dst'.good \subseteq 0..(dst'.len - 1)
  BY <1>7, <1>9, <1>10
<1>12. Types'
  BY <1>0, <1>3, <1>4, <1>8, <1>11 DEF Types
<1>13. InFlight'
  BY <1>0, <1>3, <1>4 DEF InFlight, SameRequests
<1>14. Stage'
  BY <1>0, <1>1, <1>3, <1>4 DEF Stage, SameRequests, SameEnd, num_req
<1>15. Reading' /\ Marks' /\ Writing' /\ Before'
  BY <1>4 DEF Reading, Marks, Writing, Before, Running
<1>16. conf.dir # "put" => (Sound <=> ~Failing /\ ~interrupted)
  BY <1>0, <1>1, <1>2 DEF Failing, Sound, Reading
<1>17. conf.dir # "put" /\ Sound => 0..(Size - 1) \subseteq dst.good
  BY <1>0, <1>1, AllRead
<1>18. conf.dir # "put" /\ ~conf.inplace => dst.len <= Size
  BY <1>0, <1>1 DEF Reading
<1>19. conf.dir = "cross" => ~conf.inplace
  BY <1>0, ConfFacts
<1>20. conf.dir # "put" /\ ~MustTruncate => Sound /\ ~conf.inplace
  BY <1>0, <1>16, <1>19, ConfFacts DEF MustTruncate
<1>21. conf.dir # "put" /\ ~MustTruncate => Copied(dst') /\ Prefix(dst')
  BY <1>7, <1>9, <1>17, <1>18, <1>20, Complete
<1>22. conf.dir # "put" /\ Sound /\ CanCut' => Copied(dst')
  <2> SUFFICES ASSUME conf.dir # "put", Sound, CanCut'
               PROVE  Copied(dst')
    OBVIOUS
  <2>1. CASE ~MustTruncate
    BY <2>1, <1>21
  <2>2. CASE MustTruncate
    <3>1. conf.dir = "get" /\ conf.inplace
      BY <2>2, <1>16, ConfFacts DEF MustTruncate
    <3>2. n = Size
      BY <3>1, <1>0, <1>1, <1>6 DEF Marks
    <3>3. dst' = ftruncate(dst, n)
      BY <2>2, <3>1, <1>3, <1>7, <1>8 DEF CanCut
    <3> QED BY <3>2, <3>3, <1>10, <1>17, Sizes DEF Copied, Units
  <2> QED BY <2>1, <2>2
<1>23. conf.dir = "put" /\ faults["write"] = 0 /\ ~interrupted /\ CanCut' => Copied(dst')
  <2> SUFFICES ASSUME conf.dir = "put", faults["write"] = 0, ~interrupted, CanCut'
               PROVE  Copied(dst')
    OBVIOUS
  <2>1. /\ ~Failing /\ Stands = Size /\ Units(0, Stands) \subseteq dst.good
        /\ (~conf.inplace => dst.len = Stands) /\ (conf.inplace => cl.highwater = Size)
    BY <1>0, <1>1, <1>2 DEF Writing, Failing, Stands
  <2>2. 0..(Size - 1) \subseteq dst.good
    BY <2>1, Sizes DEF Units
  <2>3. CASE conf.inplace
    <3>1. dst' = ftruncate(dst, n) /\ n = Size
      BY <2>1, <2>3, <1>3, <1>6, <1>7, <1>8 DEF MustTruncate, CanCut
    <3> QED BY <3>1, <1>10, <2>2, Sizes DEF Copied, Units
  <2>4. CASE ~conf.inplace
    <3>1. dst' = dst /\ dst.len = Size
      BY <2>1, <2>4, <1>7 DEF MustTruncate
    <3> QED BY <3>1, <2>2, <1>9, Complete, Sizes
  <2> QED BY <2>3, <2>4
<1>24. conf.dir = "get" /\ faults["write"] <= 1 /\ faults'["truncate"] = 0 => Prefix(dst')
  <2> SUFFICES ASSUME conf.dir = "get", faults["write"] <= 1, faults'["truncate"] = 0, MustTruncate
               PROVE  Prefix(dst')
    BY <1>21
  <2>1. dst' = ftruncate(dst, n) /\ n = cl.highwater
    BY <1>6, <1>7, <1>8
  <2>2. 0..(n - 1) \subseteq dst.good
    BY <2>1, <1>0, <1>1, <1>6 DEF Marks, Units
  <2> QED BY <2>1, <2>2, <1>6, <1>10 DEF Prefix, Units
<1>25. conf.dir = "cross" /\ faults'["open"] = 0 => dst'.len = 0 \/ Copied(dst')
  <2>1. CASE ~MustTruncate
    BY <2>1, <1>21
  <2>2. CASE MustTruncate /\ dst' = ftruncate(dst, n)
    BY <2>2, <1>6, <1>10
  <2> QED BY <1>7, <1>8, <2>1, <2>2
<1>26. Cut'
  BY <1>1, <1>3, <1>4, <1>5, <1>8, <1>22, <1>23, <1>24, <1>25
    DEF Cut, PrefixLeft, CopyFaithful, SameEnd, Copied, Prefix
<1> QED BY <1>12, <1>13, <1>14, <1>15, <1>26 DEF IInv

\* what is reported
LEMMA CloseKeeps ==
  ASSUME IInv, Close
  PROVE  IInv'
<1>0. Types /\ InFlight /\ Stage /\ Reading /\ Marks /\ Writing /\ Cut /\ Before
  BY DEF IInv
<1>1. cl.pc = "close" /\ cl.reqs = {} /\ cl.num_upload_req = 0
  BY <1>0 DEF Close, Stage
<1>2. toSrc = <<>> /\ fromSrc = <<>> /\ toDst = <<>> /\ fromDst = <<>>
  BY <1>0, <1>1, Quiet
<1>3. UNCHANGED <<conf, interrupted, toSrc, fromSrc, toDst, fromDst>>
  BY DEF Close, net
<1>4. PICK r \in {"ok", "failed"} :
        /\ cl' = [cl EXCEPT !.pc = "done", !.result = r]
        /\ r = "ok" => ~Failing /\ (conf.dir # "put" => ~interrupted)
        /\ r = "ok" => (dst' = dst /\ faults' = faults) \/ (conf.dir # "put" /\ Fault("store"))
  BY DEF Close, close_source, close_destination, Report, Refused, Works
<1>5. cl' \in Transfer /\ cl'.pc = "done" /\ cl'.result = r /\ cl'.fatal = cl.fatal /\ SameRequests
  BY <1>0, <1>4 DEF Types, Transfer, PCs, SameRequests
<1>a. dst \in File /\ dst.good \subseteq 0..(dst.len - 1) /\ faults \in [FaultKinds -> Nat]
  BY <1>0 DEF Types
<1>6. faults' \in [FaultKinds -> Nat]
  <2>1. faults' = faults \/ Fault("close") \/ Fault("store")
    BY DEF Close, close_source, close_destination, Works
  <2> QED BY <2>1, <1>a, Counted DEF FaultKinds
<1>b. dst' \in File /\ dst'.good \subseteq 0..(dst'.len - 1)
  <2>1. dst' = dst \/ \E n \in 0..dst.len : dst' = Unstored(dst, n)
    BY DEF Close, close_source, close_destination
  <2>2. CASE dst' = dst
    BY <1>a, <2>2
  <2>3. ASSUME NEW n \in 0..dst.len, dst' = Unstored(dst, n)
        PROVE  dst' \in File /\ dst'.good \subseteq 0..(dst'.len - 1)
    <3>1. PICK g : g = dst.good \cap Units(0, n)
      OBVIOUS
    <3>2. dst' = [dst EXCEPT !.good = g]
      BY <2>3, <3>1 DEF Unstored
    <3>3. g \in SUBSET Nat /\ g \subseteq dst.good
      BY <1>a, <3>1 DEF File
    <3>4. dst' \in File /\ dst'.len = dst.len /\ dst'.good = g
      BY <1>a, <3>2, <3>3 DEF File
    <3> QED BY <1>a, <3>3, <3>4
  <2> QED BY <2>1, <2>2, <2>3
<1>7. Types'
  BY <1>0, <1>3, <1>5, <1>6, <1>b DEF Types
<1>8. InFlight'
  BY <1>0, <1>3, <1>5 DEF InFlight, SameRequests
<1>9. Stage'
  BY <1>0, <1>1, <1>3, <1>5 DEF Stage, SameRequests, num_req
<1>10. Reading' /\ Marks' /\ Writing' /\ Before'
  BY <1>5 DEF Reading, Marks, Writing, Before, Running
<1>11. r = "ok" /\ NothingIgnored' => Copied(dst')
  <2> SUFFICES ASSUME r = "ok", NothingIgnored'
               PROVE  Copied(dst')
    OBVIOUS
  <2>1. dst' = dst /\ faults' = faults
    <3>1. CASE conf.dir # "put" /\ Fault("store")
      <4>1. faults'["store"] = faults["store"] + 1 /\ faults["store"] \in Nat
        BY <1>a, <3>1, Counted DEF FaultKinds
      <4>2. faults'["store"] = 0
        BY <1>3, <3>1 DEF NothingIgnored
      <4> QED BY <4>1, <4>2
    <3> QED BY <1>4, <3>1
  <2>2. conf.dir # "put" => Sound
    BY <1>2, <1>4 DEF Sound, Failing
  <2>3. CanCut /\ (conf.dir = "put" => faults["write"] = 0 /\ ~interrupted)
    BY <1>3, <2>1 DEF NothingIgnored, CanCut
  <2>4. Copied(dst)
    BY <1>0, <1>1, <2>2, <2>3 DEF Cut
  <2> QED BY <2>1, <2>4
<1>12. Cut'
  BY <1>5, <1>11 DEF Cut, PrefixLeft, CopyFaithful, Copied
<1> QED BY <1>7, <1>8, <1>9, <1>10, <1>12 DEF IInv

\* a signal
LEMMA InterruptKeeps ==
  ASSUME IInv, Interrupt
  PROVE  IInv'
<1>0. Types /\ InFlight /\ Stage /\ Reading /\ Marks /\ Writing /\ Cut /\ Before
  BY DEF IInv
<1>1. UNCHANGED <<conf, cl, dst, toSrc, fromSrc, toDst, fromDst>> /\ interrupted' = TRUE
      /\ cl.pc # "done"
  BY DEF Interrupt, net
<1>2. /\ faults' \in [FaultKinds -> Nat] /\ faults'["write"] = faults["write"]
      /\ faults'["open"] = faults["open"] /\ faults'["truncate"] = faults["truncate"]
  <2>1. Fault("interrupt") /\ faults \in [FaultKinds -> Nat]
    BY <1>0 DEF Interrupt, Types
  <2> QED BY <2>1, Counted DEF FaultKinds
<1>3. ~Sound'
  BY <1>1 DEF Sound
<1>4. Types'
  BY <1>0, <1>1, <1>2 DEF Types
<1>5. InFlight'
  BY <1>0, <1>1 DEF InFlight
<1>6. Stage'
  BY <1>0, <1>1 DEF Stage, num_req, Idle, Start
<1>7. Reading'
  BY <1>0, <1>1, <1>3 DEF Reading, Running
<1>8. Marks'
  BY <1>0, <1>1, <1>2, <1>3 DEF Marks, Running
<1>9. Writing'
  <2>1. Stands' = Stands
    BY <1>1 DEF Stands
  <2> QED BY <1>0, <1>1, <1>2, <2>1 DEF Writing, Running
<1>10. Cut'
  BY <1>0, <1>1, <1>2, <1>3 DEF Cut, PrefixLeft, CopyFaithful, Copied, Prefix, Stage
<1>11. Before'
  BY <1>0, <1>1 DEF Before
<1> QED BY <1>4, <1>5, <1>6, <1>7, <1>8, <1>9, <1>10, <1>11 DEF IInv

-----------------------------------------------------------------------------
(* The beginning of the transfer.                                           *)

\* the client when the transfer starts at n
Begun(c, n, mark) ==
  /\ c \in Transfer /\ c.pc = "loop" /\ c.offset = n /\ c.max_req = 1 /\ c.reqs = {} /\ c.id = 0
  /\ c.sent = 0 /\ c.acked = 0 /\ c.num_upload_req = 0 /\ c.maxack = mark /\ c.highwater = mark
  /\ ~c.read_error /\ ~c.write_error /\ c.status = "ok"
  /\ c.fatal = "none" /\ c.result = "busy"

\* what Start() gives
LEMMA StartFacts ==
  ASSUME NEW n \in Nat, NEW mark \in Nat
  PROVE  Begun(Start(n, mark), n, mark)
<1>1. Buflen \in 1..Buflen /\ 1 \in 0..NumRequests
  BY Sizes
<1>2. Start(n, mark) \in Transfer
  BY <1>1 DEF Start, Transfer, PCs, Reasons
<1> QED BY <1>2 DEF Start, Begun

\* nothing was done yet
LEMMA IdleFacts ==
  /\ Idle \in Transfer /\ Idle.pc = "open" /\ Idle.reqs = {} /\ Idle.id = 0
  /\ Idle.num_upload_req = 0 /\ Idle.sent = 0 /\ Idle.acked = 0 /\ Idle.fatal = "none"
  /\ Idle.result = "busy"
<1>1. PICK c : c = Start(0, 0)
  OBVIOUS
<1>2. Begun(c, 0, 0)
  BY <1>1, StartFacts
<1>3. Idle = [c EXCEPT !.pc = "open"]
  BY <1>1 DEF Idle
<1>4. [c EXCEPT !.pc = "open"] \in Transfer
  BY <1>2 DEF Begun, Transfer, PCs
<1> QED BY <1>2, <1>3, <1>4 DEF Begun, Transfer

\* without requests nothing is in flight
LEMMA NoneInFlight == Matched({}, <<>>, <<>>) /\ Cardinality({}) = 0
BY FS_EmptySet DEF Matched

\* the client is idle
LEMMA InitHolds == Init => IInv
<1> SUFFICES ASSUME Init
             PROVE  IInv
  OBVIOUS
<1>1. /\ conf \in Confs /\ cl = Idle /\ interrupted = FALSE
      /\ toSrc = <<>> /\ fromSrc = <<>> /\ toDst = <<>> /\ fromDst = <<>>
  BY DEF Init
<1>2. conf \in Conf /\ conf.old \in Nat /\ conf.resume \in BOOLEAN
  BY <1>1, SftpAssumption DEF Conf
<1>3. /\ dst \in File /\ dst.len = conf.old /\ (conf.resume => dst.good = Units(0, conf.old))
      /\ (~conf.resume => dst.good = {})
  BY <1>2 DEF Init, File, Units
<1>4. dst.good \subseteq 0..(dst.len - 1)
  BY <1>2, <1>3 DEF Units
<1>5. faults \in [FaultKinds -> Nat]
  BY DEF Init
<1>6. Types
  <2>1. /\ toSrc \in Seq(Request) /\ fromSrc \in Seq(ReadAnswer)
        /\ toDst \in Seq(Request) /\ fromDst \in Seq(WriteAnswer)
    BY <1>1
  <2>2. cl \in Transfer /\ interrupted \in BOOLEAN
    BY <1>1, IdleFacts
  <2> QED BY <1>1, <1>3, <1>4, <1>5, <2>1, <2>2 DEF Types
<1>7. InFlight
  BY <1>1, IdleFacts, NoneInFlight DEF InFlight, Fresh
<1>8. Stage
  BY <1>1, IdleFacts, NoneInFlight, Sizes DEF Stage, num_req
<1>9. Reading /\ Marks /\ Writing /\ Cut
  BY <1>1, IdleFacts DEF Reading, Marks, Writing, Cut, PrefixLeft, CopyFaithful, Running
<1>10. Before
  BY <1>1, <1>3 DEF Before
<1> QED BY <1>6, <1>7, <1>8, <1>9, <1>10 DEF IInv

\* the files are opened
LEMMA OpenKeeps ==
  ASSUME IInv, Open
  PROVE  IInv'
<1>0. Types /\ InFlight /\ Stage /\ Reading /\ Marks /\ Writing /\ Cut /\ Before
  BY DEF IInv
<1>1. cl.pc = "open" /\ cl = Idle
  BY <1>0 DEF Open, Stage
<1>2. /\ toSrc = <<>> /\ fromSrc = <<>> /\ toDst = <<>> /\ fromDst = <<>>
      /\ (conf.resume => dst.good = Units(0, dst.len)) /\ (~conf.resume => dst.good = {})
  BY <1>0, <1>1 DEF Before
<1>3. UNCHANGED <<conf, interrupted, toSrc, fromSrc, toDst, fromDst>>
  BY DEF Open, net
<1>4. faults' \in [FaultKinds -> Nat] /\ (faults' = faults \/ Fault("open"))
  <2>1. faults' = faults \/ Fault("open")
    BY DEF Open, Works
  <2> QED BY <2>1, <1>0, Counted DEF Types, FaultKinds
<1>5. dst \in File /\ dst.len \in Nat /\ dst.good \subseteq 0..(dst.len - 1)
  BY <1>0 DEF Types, File
<1>c. /\ conf.dir \in {"get", "put", "cross"} /\ ~(conf.resume /\ conf.inplace)
      /\ (conf.dir = "cross" => ~conf.resume /\ ~conf.inplace)
      /\ conf.resume \in BOOLEAN /\ conf.inplace \in BOOLEAN
  BY <1>0, ConfFacts
<1>6. \/ cl' = Refused /\ dst' = dst
      \/ \E n, m \in Nat :
           /\ cl' = Start(n, m) /\ n <= Size
           /\ (conf.dir # "put" => m = n) /\ (conf.inplace => n = 0 /\ m = 0)
           /\ n = (IF conf.resume THEN dst.len ELSE 0)
           /\ dst' = IF conf.resume \/ conf.inplace THEN dst ELSE ftruncate(dst, 0)
  <2>1. CASE cl' = Refused /\ dst' = dst
    BY <2>1
  <2>2. CASE conf.dir = "get" /\ sftp_download_open
    <3>1. conf.resume /\ dst.len <= RemoteSize => dst.len <= Size
      BY Sizes, <1>5 DEF RemoteSize
    <3> QED BY <2>2, <3>1, <1>5, <1>c, Sizes DEF sftp_download_open, Opened, RemoteSize
  <2>3. CASE conf.dir = "put" /\ sftp_upload_open
    BY <2>3, <1>5, <1>c, Sizes DEF sftp_upload_open, Opened
  <2>4. CASE conf.dir = "cross" /\ sftp_crossload_open
    BY <2>4, <1>5, <1>c, Sizes DEF sftp_crossload_open
  <2> QED BY <2>1, <2>2, <2>3, <2>4 DEF Open
<1>7. CASE cl' = Refused /\ dst' = dst
  <2>1. cl' \in Transfer /\ cl'.pc = "done" /\ cl'.result = "failed" /\ cl'.fatal = cl.fatal
    BY <1>0, <1>7 DEF Types, Transfer, PCs, Refused
  <2>2. SameRequests
    BY <1>0, <1>7 DEF Types, Transfer, SameRequests, Refused
  <2>3. Types'
    BY <1>0, <1>3, <1>4, <1>7, <2>1 DEF Types
  <2>4. InFlight'
    BY <1>0, <1>3, <2>2 DEF InFlight, SameRequests
  <2>5. Stage'
    BY <1>0, <1>1, <1>3, <2>1, <2>2 DEF Stage, SameRequests, num_req
  <2>6. Reading' /\ Marks' /\ Writing' /\ Before' /\ Cut'
    BY <2>1 DEF Reading, Marks, Writing, Before, Running, Cut, PrefixLeft, CopyFaithful
  <2> QED BY <2>3, <2>4, <2>5, <2>6 DEF IInv
<1>8. ASSUME NEW n \in Nat, NEW m \in Nat, cl' = Start(n, m), n <= Size,
             conf.dir # "put" => m = n, conf.inplace => n = 0 /\ m = 0,
             n = (IF conf.resume THEN dst.len ELSE 0),
             dst' = IF conf.resume \/ conf.inplace THEN dst ELSE ftruncate(dst, 0)
      PROVE  IInv'
  <2>1. Begun(cl', n, m)
    BY <1>8, StartFacts
  <2>2. /\ dst' \in File /\ dst'.good = 0..(n - 1) /\ dst'.good \subseteq 0..(dst'.len - 1)
        /\ (~conf.inplace => dst'.len = n)
    <3>1. CASE conf.resume
      BY <3>1, <1>2, <1>5, <1>8 DEF Units
    <3>2. CASE ~conf.resume /\ conf.inplace
      BY <3>2, <1>2, <1>5, <1>8
    <3>3. CASE ~conf.resume /\ ~conf.inplace
      <4>1. ftruncate(dst, 0) \in File /\ ftruncate(dst, 0).len = 0
            /\ ftruncate(dst, 0).good = dst.good \cap (0..(0 - 1))
        BY <1>5, CutOff
      <4>2. dst' = ftruncate(dst, 0) /\ n = 0
        BY <3>3, <1>8
      <4> QED BY <4>1, <4>2
    <3> QED BY <3>1, <3>2, <3>3
  <2>3. Types'
    BY <1>0, <1>3, <1>4, <2>1, <2>2 DEF Types, Begun
  <2>4. InFlight'
    BY <1>2, <1>3, <2>1, NoneInFlight DEF InFlight, Begun, Fresh
  <2>5. Stage'
    BY <1>3, <2>1, NoneInFlight, Sizes DEF Stage, Begun, num_req
  <2>6. Reading'
    BY <1>2, <1>3, <1>8, <2>1, <2>2, Sizes DEF Reading, Begun
  <2>7. Marks'
    BY <1>2, <1>3, <1>8, <2>1, <2>2, Sizes DEF Marks, Begun, Units
  <2>8. Writing'
    <3>1. Stands' = n
      BY <1>2, <1>3, <2>1 DEF Stands, Begun
    <3> QED BY <1>2, <1>3, <1>8, <2>1, <2>2, <3>1, Sizes DEF Writing, Begun, Units
  <2>9. Cut' /\ Before'
    BY <2>1 DEF Cut, PrefixLeft, CopyFaithful, Before, Begun
  <2> QED BY <2>3, <2>4, <2>5, <2>6, <2>7, <2>8, <2>9 DEF IInv
<1> QED BY <1>6, <1>7, <1>8

-----------------------------------------------------------------------------
(* The servers.                                                             *)

\* where an answer goes
LEMMA PlaceFacts ==
  ASSUME NEW q, NEW k \in Places(q), Len(q) \in Nat
  PROVE  k \in 1..(Len(q) + 1)
BY DEF Places

\* the length of an answer
LEMMA ReadLenFacts ==
  ASSUME Types, NEW q \in Request, q.off < Size
  PROVE  ReadLen(q) \in 1..q.len /\ q.off + ReadLen(q) <= Size
<1>1. q.len \in Int /\ q.len >= 1 /\ q.off \in Nat /\ conf.maxread \in Nat /\ conf.maxread >= 1
      /\ Size - q.off \in Int /\ Size - q.off >= 1
  BY ConfFacts, Sizes DEF Request
<1>2. PICK m : m = Min({q.len, conf.maxread, Size - q.off})
  OBVIOUS
<1>3. m \in {q.len, conf.maxread, Size - q.off} /\ m <= q.len /\ m <= Size - q.off
  <2>1. PICK a \in Int, b \in Int, d \in Int : a = q.len /\ b = conf.maxread /\ d = Size - q.off
    BY <1>1
  <2>2. m = Min({a, b, d})
    BY <1>2, <2>1
  <2>3. Min({a, b, d}) \in {a, b, d} /\ Min({a, b, d}) <= a /\ Min({a, b, d}) <= d
    BY MinThree
  <2> QED BY <2>1, <2>2, <2>3
<1>4. m \in Int /\ m >= 1 /\ m <= q.len /\ m <= Size - q.off
  BY <1>1, <1>3
<1>5. m \in 1..q.len /\ q.off + m <= Size
  BY <1>1, <1>4, Sizes
<1> QED BY <1>2, <1>5 DEF ReadLen

\* a read is answered
LEMMA ProcessReadKeeps ==
  ASSUME IInv, process_read
  PROVE  IInv'
<1>0. Types /\ InFlight /\ Stage /\ Reading /\ Marks /\ Writing /\ Cut /\ Before
  BY DEF IInv
<1>1. UNCHANGED <<conf, cl, interrupted, dst, toDst, fromDst>> /\ toSrc # <<>> /\ toSrc' = Tail(toSrc)
  BY DEF process_read
<1>2. conf.dir # "put" /\ Running /\ cl.pc # "open" /\ cl.pc # "close" /\ cl.pc # "done"
  BY <1>0, <1>1, Quiet DEF InFlight, Running
<1>q. PICK q : q = Head(toSrc)
  OBVIOUS
<1>3. q \in Request /\ toSrc' \in Seq(Request) /\ q = toSrc[1] /\ 1 \in DOMAIN toSrc
  BY <1>0, <1>1, <1>q, Taken DEF Types
<1>4. PICK a \in ReadAnswer, k \in Places(fromSrc) :
        /\ fromSrc' = InsertAt(fromSrc, k, a) /\ a.id = q.id /\ Fits(q, a)
        /\ faults' = faults \/ Fault("read")
  <2>1. q.id \in Nat /\ q.off \in Nat
    BY <1>3 DEF Request
  <2>2. CASE Works /\ q.off >= Size /\ \E k \in Places(fromSrc) :
               fromSrc' = InsertAt(fromSrc, k, [id |-> q.id, t |-> "eof", len |-> 0])
    <3>1. PICK a : a = [id |-> q.id, t |-> "eof", len |-> 0]
      OBVIOUS
    <3>2. a \in ReadAnswer /\ a.id = q.id /\ Fits(q, a)
      BY <2>1, <2>2, <3>1 DEF ReadAnswer, Fits
    <3> QED BY <2>2, <3>1, <3>2 DEF Works
  <2>3. CASE Works /\ q.off < Size /\ \E k \in Places(fromSrc) :
               fromSrc' = InsertAt(fromSrc, k, [id |-> q.id, t |-> "data", len |-> ReadLen(q)])
    <3>1. PICK a : a = [id |-> q.id, t |-> "data", len |-> ReadLen(q)]
      OBVIOUS
    <3>2. ReadLen(q) \in 1..q.len /\ q.off + ReadLen(q) <= Size /\ ReadLen(q) \in Nat
      BY <1>0, <1>3, <2>3, ReadLenFacts
    <3>3. a \in ReadAnswer /\ a.id = q.id /\ Fits(q, a)
      BY <2>1, <3>1, <3>2 DEF ReadAnswer, Fits
    <3> QED BY <2>3, <3>1, <3>3 DEF Works
  <2>4. CASE Fault("read") /\ \E k \in Places(fromSrc) :
               fromSrc' = InsertAt(fromSrc, k, [id |-> q.id, t |-> "fail", len |-> 0])
    <3>1. PICK a : a = [id |-> q.id, t |-> "fail", len |-> 0]
      OBVIOUS
    <3>2. a \in ReadAnswer /\ a.id = q.id /\ Fits(q, a)
      BY <2>1, <3>1 DEF ReadAnswer, Fits
    <3> QED BY <2>4, <3>1, <3>2
  <2> QED BY <1>q, <2>2, <2>3, <2>4 DEF process_read
<1>5. /\ faults' \in [FaultKinds -> Nat] /\ faults'["write"] = faults["write"]
      /\ faults'["open"] = faults["open"]
  <2>1. CASE faults' = faults
    BY <2>1, <1>0 DEF Types
  <2>2. CASE Fault("read")
    BY <2>2, <1>0, Counted DEF Types, FaultKinds
  <2> QED BY <1>4, <2>1, <2>2
<1>6. fromSrc \in Seq(ReadAnswer) /\ k \in 1..(Len(fromSrc) + 1)
  <2>1. fromSrc \in Seq(ReadAnswer) /\ Len(fromSrc) \in Nat
    BY <1>0 DEF Types
  <2> QED BY <2>1, PlaceFacts
<1>7. Placed(ReadAnswer, fromSrc, k, a, fromSrc')
  BY <1>4, <1>6, Inserted
<1>8. /\ fromSrc' \in Seq(ReadAnswer)
      /\ \A j \in DOMAIN fromSrc' :
           fromSrc'[j] = a \/ \E i \in DOMAIN fromSrc : fromSrc'[j] = fromSrc[i]
  <2>1. fromSrc' \in Seq(ReadAnswer)
    BY <1>7 DEF Placed
  <2>2. Mixed(fromSrc, a, fromSrc')
    BY <1>6, <1>7, PlacedFacts
  <2> QED BY <2>1, <2>2 DEF Mixed
<1>9. Types'
  BY <1>0, <1>1, <1>3, <1>5, <1>8 DEF Types
<1>10. InFlight'
  <2>1. Matched(cl.reqs, toSrc, fromSrc) /\ cl.reqs \in SUBSET Request /\ toSrc \in Seq(Request)
    BY <1>0, <1>2 DEF InFlight, Types, Transfer
  <2>2. a.id = Head(toSrc).id
    BY <1>4, <1>q
  <2>3. Matched(cl.reqs, Tail(toSrc), InsertAt(fromSrc, k, a))
    BY <1>1, <1>6, <2>1, <2>2, MatchedAnswer
  <2>4. Matched(cl.reqs, toSrc', fromSrc')
    BY <1>1, <1>4, <2>3
  <2> QED BY <1>0, <1>1, <1>2, <2>4 DEF InFlight
<1>11. Stage'
  BY <1>0, <1>1 DEF Stage, num_req, Idle, Start
<1>12. Sound' = Sound
  BY <1>1 DEF Sound
<1>13. Reading'
  <2>1. \A i \in DOMAIN fromSrc', r \in cl.reqs : r.id = fromSrc'[i].id => Fits(r, fromSrc'[i])
    <3> SUFFICES ASSUME NEW i \in DOMAIN fromSrc', NEW r \in cl.reqs, r.id = fromSrc'[i].id
                 PROVE  Fits(r, fromSrc'[i])
      OBVIOUS
    <3>1. CASE fromSrc'[i] = a
      <4>1. q \in cl.reqs
        BY <1>0, <1>2, <1>3 DEF InFlight, Matched
      <4>2. r = q
        BY <3>1, <4>1, <1>0, <1>4 DEF InFlight, Fresh
      <4> QED BY <3>1, <4>2, <1>4
    <3>2. CASE \E j \in DOMAIN fromSrc : fromSrc'[i] = fromSrc[j]
      BY <3>2, <1>0, <1>2 DEF Reading
    <3> QED BY <3>1, <3>2, <1>8
  <2>2. \A u : Asked(u)' = Asked(u) /\ Sent(u)' = Sent(u)
    BY <1>1 DEF Asked, Sent
  <2> QED BY <1>0, <1>1, <1>2, <1>12, <2>1, <2>2 DEF Reading, Running
<1>14. Marks'
  BY <1>0, <1>1, <1>2, <1>5, <1>12 DEF Marks, Running
<1>15. Writing' /\ Cut' /\ Before'
  BY <1>0, <1>1, <1>2 DEF Writing, Cut, PrefixLeft, CopyFaithful, Before, Stage
<1> QED BY <1>9, <1>10, <1>11, <1>13, <1>14, <1>15 DEF IInv

\* the file g is f with n units of the source written at their place, off
Wrote(f, off, n, g) ==
  /\ g \in File /\ g.good \subseteq 0..(g.len - 1)
  /\ g.good = f.good \cup (off..(off + n - 1))
  /\ g.len = IF n = 0 \/ f.len >= off + n THEN f.len ELSE off + n

\* units written at their place
LEMMA WriteFacts ==
  ASSUME NEW f \in File, f.good \subseteq 0..(f.len - 1), NEW off \in Nat, NEW n \in Nat
  PROVE  Wrote(f, off, n, Write(f, off, off, n))
<1>1. f.len \in Nat /\ f.good \in SUBSET Nat /\ f.good \subseteq 0..(f.len - 1)
  BY DEF File
<1>2. CASE n = 0
  <2>1. Write(f, off, off, n) = f
    BY <1>2 DEF Write
  <2>2. off..(off + n - 1) = {}
    BY <1>2
  <2> QED BY <1>1, <1>2, <2>1, <2>2 DEF Wrote
<1>3. CASE n # 0
  <2>1. PICK m \in Nat : m = IF f.len >= off + n THEN f.len ELSE off + n
    BY <1>1
  <2>2. Max({f.len, off + n}) = m
    <3>1. PICK a \in Int, b \in Int : a = f.len /\ b = off + n
      BY <1>1
    <3> QED BY <2>1, <3>1, MaxTwo
  <2>3. PICK G : G = f.good \cup (off..(off + n - 1))
    OBVIOUS
  <2>4. G \in SUBSET Nat /\ G \subseteq 0..(m - 1)
    BY <1>1, <2>1, <2>3
  <2>5. Write(f, off, off, n) = [len |-> m, good |-> G]
    BY <1>3, <2>2, <2>3 DEF Write, Units
  <2> QED BY <1>3, <2>1, <2>3, <2>4, <2>5 DEF Wrote, File
<1> QED BY <1>2, <1>3

\* units written anywhere
LEMMA WriteTypes ==
  ASSUME NEW f \in File, f.good \subseteq 0..(f.len - 1), NEW pos \in Nat, NEW off \in Nat, NEW n \in Nat
  PROVE  Write(f, pos, off, n) \in File
         /\ Write(f, pos, off, n).good \subseteq 0..(Write(f, pos, off, n).len - 1)
<1>1. f.len \in Nat /\ f.good \in SUBSET Nat /\ f.good \subseteq 0..(f.len - 1)
  BY DEF File
<1>2. CASE n = 0
  BY <1>1, <1>2 DEF Write
<1>3. CASE n # 0
  <2>1. PICK m \in Nat : m = IF f.len >= pos + n THEN f.len ELSE pos + n
    BY <1>1
  <2>2. Max({f.len, pos + n}) = m
    <3>1. PICK a \in Int, b \in Int : a = f.len /\ b = pos + n
      BY <1>1
    <3> QED BY <2>1, <3>1, MaxTwo
  <2>3. PICK G : G = IF pos = off THEN f.good \cup (off..(off + n - 1)) ELSE f.good \ (pos..(pos + n - 1))
    OBVIOUS
  <2>4. G \in SUBSET Nat /\ G \subseteq 0..(m - 1)
    BY <1>1, <2>1, <2>3
  <2>5. Write(f, pos, off, n) = [len |-> m, good |-> G]
    BY <1>3, <2>2, <2>3 DEF Write, Units
  <2> QED BY <2>1, <2>4, <2>5 DEF File
<1> QED BY <1>2, <1>3

\* a write is done and answered
LEMMA ProcessWriteKeeps ==
  ASSUME IInv, process_write
  PROVE  IInv'
<1>0. Types /\ InFlight /\ Stage /\ Reading /\ Marks /\ Writing /\ Cut /\ Before
  BY DEF IInv
<1>1. UNCHANGED <<conf, cl, interrupted, toSrc, fromSrc>> /\ toDst # <<>> /\ toDst' = Tail(toDst)
  BY DEF process_write
<1>2. Running /\ cl.pc \notin {"open", "check", "truncate", "close", "done"}
  BY <1>0, <1>1, Quiet DEF Running
<1>c. conf.dir # "get" /\ conf.dir \in {"get", "put", "cross"}
      /\ (conf.dir = "cross" => ~conf.resume /\ ~conf.inplace)
      /\ ~(conf.resume /\ conf.inplace)
  <2>1. conf.dir # "get"
    <3>1. Len(toDst) \in Nat /\ Len(fromDst) \in Nat /\ Len(toDst) # 0
      BY <1>0, <1>1 DEF Types
    <3> QED BY <1>0, <3>1 DEF InFlight
  <2> QED BY <2>1, <1>0, ConfFacts
<1>q. PICK q : q = Head(toDst)
  OBVIOUS
<1>3. /\ q \in Request /\ toDst' \in Seq(Request) /\ Len(toDst') = Len(toDst) - 1 /\ Len(toDst) >= 1
      /\ q = toDst[1] /\ 1 \in DOMAIN toDst
      /\ \A j \in DOMAIN toDst' : j + 1 \in DOMAIN toDst /\ toDst'[j] = toDst[j + 1]
  <2>1. toDst \in Seq(Request)
    BY <1>0 DEF Types
  <2> QED BY <2>1, <1>1, <1>q, Taken
<1>4. q.id \in Nat /\ q.off \in Nat /\ q.len \in Nat /\ q.len >= 1
  BY <1>3, Sizes DEF Request
<1>p. PICK pos : pos = IF conf.resume THEN dst.len ELSE q.off
  OBVIOUS
<1>5. dst \in File /\ dst.len \in Nat /\ dst.good \subseteq 0..(dst.len - 1) /\ pos \in Nat
  BY <1>0, <1>4, <1>p DEF Types, File
<1>6. PICK a \in WriteAnswer, k \in Places(fromDst), n \in Nat :
        /\ fromDst' = InsertAt(fromDst, k, a) /\ a.id = q.id
        /\ dst' = Write(dst, pos, q.off, n)
        /\ \/ faults' = faults /\ a.ok /\ n = q.len
           \/ Fault("write") /\ ~a.ok /\ n < q.len
  <2>1. CASE Works /\ (\E k \in Places(fromDst) :
               fromDst' = InsertAt(fromDst, k, [id |-> q.id, ok |-> TRUE]))
             /\ dst' = Write(dst, pos, q.off, q.len)
    <3>1. PICK a : a = [id |-> q.id, ok |-> TRUE]
      OBVIOUS
    <3>2. a \in WriteAnswer /\ a.id = q.id /\ a.ok
      BY <1>4, <3>1 DEF WriteAnswer
    <3> QED BY <1>4, <2>1, <3>1, <3>2 DEF Works
  <2>2. CASE Fault("write") /\ (\E k \in Places(fromDst) :
               fromDst' = InsertAt(fromDst, k, [id |-> q.id, ok |-> FALSE]))
             /\ \E n \in 0..(q.len - 1) : dst' = Write(dst, pos, q.off, n)
    <3>1. PICK a : a = [id |-> q.id, ok |-> FALSE]
      OBVIOUS
    <3>2. a \in WriteAnswer /\ a.id = q.id /\ ~a.ok
      BY <1>4, <3>1 DEF WriteAnswer
    <3>3. PICK n \in 0..(q.len - 1) : dst' = Write(dst, pos, q.off, n)
      BY <2>2
    <3>4. n \in Nat /\ n < q.len
      BY <1>4, <3>3
    <3> QED BY <2>2, <3>1, <3>2, <3>3, <3>4
  <2> QED BY <1>q, <1>p, <2>1, <2>2 DEF process_write
<1>7. /\ faults' \in [FaultKinds -> Nat] /\ faults'["open"] = faults["open"]
      /\ (faults'["write"] = 0 => faults' = faults /\ faults["write"] = 0 /\ n = q.len)
  <2>1. CASE faults' = faults /\ n = q.len
    BY <2>1, <1>0 DEF Types
  <2>2. CASE Fault("write")
    BY <2>2, <1>0, Counted DEF Types, FaultKinds
  <2> QED BY <1>6, <2>1, <2>2
<1>8. fromDst \in Seq(WriteAnswer) /\ k \in 1..(Len(fromDst) + 1)
  <2>1. fromDst \in Seq(WriteAnswer) /\ Len(fromDst) \in Nat
    BY <1>0 DEF Types
  <2> QED BY <2>1, PlaceFacts
<1>9. Placed(WriteAnswer, fromDst, k, a, fromDst')
  BY <1>6, <1>8, Inserted
<1>10. fromDst' \in Seq(WriteAnswer) /\ Len(fromDst') = Len(fromDst) + 1 /\ Mixed(fromDst, a, fromDst')
  BY <1>8, <1>9, PlacedFacts DEF Placed
<1>11. Sound' => Sound /\ a.ok
  BY <1>1, <1>10 DEF Sound, Mixed
<1>12. Types'
  <2>1. dst' \in File /\ dst'.good \subseteq 0..(dst'.len - 1)
    BY <1>4, <1>5, <1>6, WriteTypes
  <2> QED BY <1>0, <1>1, <1>3, <1>7, <1>10, <2>1 DEF Types
<1>13. InFlight'
  <2>1. CASE conf.dir = "put"
    <3>1. Matched(cl.reqs, toDst, fromDst) /\ cl.reqs \in SUBSET Request /\ toDst \in Seq(Request)
      BY <1>0, <2>1 DEF InFlight, Types, Transfer
    <3>2. a.id = Head(toDst).id
      BY <1>6, <1>q
    <3>3. Matched(cl.reqs, Tail(toDst), InsertAt(fromDst, k, a))
      BY <1>1, <1>8, <3>1, <3>2, MatchedAnswer
    <3>4. Matched(cl.reqs, toDst', fromDst')
      BY <1>1, <1>6, <3>3
    <3> QED BY <1>0, <1>1, <2>1, <3>4 DEF InFlight
  <2>2. CASE conf.dir = "cross"
    <3>1. Len(toDst') + Len(fromDst') = Len(toDst) + Len(fromDst)
      BY <1>0, <1>3, <1>10 DEF Types
    <3> QED BY <1>0, <1>1, <2>2, <3>1 DEF InFlight
  <2> QED BY <1>c, <2>1, <2>2
<1>14. Stage'
  BY <1>0, <1>1 DEF Stage, num_req, Idle, Start
<1>15. Reading'
  <2> SUFFICES ASSUME conf.dir = "cross"
               PROVE  Reading'
    BY <1>c, <1>1 DEF Reading
  <2>1. Wrote(dst, q.off, n, dst')
    <3>1. pos = q.off
      BY <1>c, <1>p
    <3> QED BY <1>4, <1>5, <1>6, <3>1, WriteFacts
  <2>2. q.off + q.len <= Size /\ n <= q.len
    BY <1>0, <1>2, <1>3, <1>6, <1>4 DEF Reading
  <2>3. dst'.len <= Size
    <3>1. dst.len <= Size
      BY <1>0, <1>2, <1>c DEF Reading
    <3> QED BY <1>4, <1>5, <2>1, <2>2, <3>1, Sizes DEF Wrote
  <2>4. \A i \in DOMAIN toDst' : toDst'[i].off + toDst'[i].len <= Size
    BY <1>0, <1>2, <1>3 DEF Reading
  <2>5. Sound' => \A u \in 0..(Size - 1) : u \in dst'.good \/ Asked(u)' \/ Sent(u)' \/ u >= cl.offset
    <3> SUFFICES ASSUME Sound', NEW u \in 0..(Size - 1)
                 PROVE  u \in dst'.good \/ Asked(u)' \/ Sent(u)' \/ u >= cl.offset
      OBVIOUS
    <3>1. Sound /\ n = q.len
      BY <1>6, <1>11
    <3>2. u \in dst.good \/ Asked(u) \/ Sent(u) \/ u >= cl.offset
      BY <1>0, <1>2, <3>1 DEF Reading
    <3>3. Asked(u)' = Asked(u)
      BY <1>1 DEF Asked
    <3>4. u \in dst.good => u \in dst'.good
      BY <2>1 DEF Wrote
    <3>5. CASE Sent(u)
      <4>1. PICK i \in DOMAIN toDst : u \in Units(toDst[i].off, toDst[i].len)
        BY <3>5 DEF Sent
      <4>2. CASE i = 1
        <5>1. u \in q.off..(q.off + n - 1)
          BY <3>1, <4>1, <4>2, <1>3 DEF Units
        <5> QED BY <5>1, <2>1 DEF Wrote
      <4>3. CASE i # 1
        <5>1. i - 1 \in DOMAIN toDst' /\ toDst'[i - 1] = toDst[(i - 1) + 1] /\ (i - 1) + 1 = i
          BY <1>0, <1>3, <4>3 DEF Types
        <5> QED BY <4>1, <5>1 DEF Sent
      <4> QED BY <4>2, <4>3
    <3> QED BY <3>2, <3>3, <3>4, <3>5
  <2> QED BY <1>0, <1>1, <1>2, <1>11, <2>3, <2>4, <2>5 DEF Reading, Running
<1>16. Marks'
  BY <1>c, <1>1 DEF Marks
<1>17. Writing'
  <2> SUFFICES ASSUME conf.dir = "put"
               PROVE  Writing'
    BY <1>c, <1>1 DEF Writing
  <2>w. /\ cl.offset <= Size /\ ~cl.read_error /\ ~cl.write_error
        /\ \A r \in cl.reqs : r.off + r.len <= cl.offset
        /\ conf.inplace => /\ cl.maxack <= cl.offset
                           /\ cl.maxack = cl.offset \/ \E r \in cl.reqs : r.off + r.len = cl.offset
    BY <1>0, <1>2 DEF Writing
  <2>1. ASSUME faults'["write"] = 0
        PROVE  /\ cl.status = "ok" /\ \A i \in DOMAIN fromDst' : fromDst'[i].ok
               /\ \A i \in DOMAIN toDst' : i + 1 \in DOMAIN toDst' =>
                    toDst'[i + 1].off = toDst'[i].off + toDst'[i].len
               /\ toDst' # <<>> => toDst'[Len(toDst')].off + toDst'[Len(toDst')].len = cl.offset
               /\ Units(0, Stands') \subseteq dst'.good /\ (~conf.inplace => dst'.len = Stands')
    <3>1. faults' = faults /\ faults["write"] = 0 /\ n = q.len
      BY <2>1, <1>7
    <3>2. ~Fault("write")
      BY <3>1, <2>1, <1>0, Counted DEF Types, FaultKinds
    <3>3. /\ cl.status = "ok" /\ \A i \in DOMAIN fromDst : fromDst[i].ok
          /\ \A i \in DOMAIN toDst : i + 1 \in DOMAIN toDst =>
               toDst[i + 1].off = toDst[i].off + toDst[i].len
          /\ toDst[Len(toDst)].off + toDst[Len(toDst)].len = cl.offset
          /\ Units(0, q.off) \subseteq dst.good /\ (~conf.inplace => dst.len = q.off)
      BY <3>1, <1>0, <1>1, <1>2, <1>3 DEF Writing, Stands
    <3>4. a.ok
      BY <3>2, <1>6
    <3>5. \A i \in DOMAIN fromDst' : fromDst'[i].ok
      BY <3>3, <3>4, <1>10 DEF Mixed
    <3>6. toDst' # <<>> => toDst'[Len(toDst')].off + toDst'[Len(toDst')].len = cl.offset
      <4> SUFFICES ASSUME toDst' # <<>>
                   PROVE  toDst'[Len(toDst')].off + toDst'[Len(toDst')].len = cl.offset
        OBVIOUS
      <4>1. Len(toDst') \in DOMAIN toDst' /\ Len(toDst') + 1 = Len(toDst)
        BY <1>0, <1>3 DEF Types
      <4> QED BY <4>1, <1>3, <3>3
    <3>7. pos = q.off
      BY <1>p, <1>c, <3>3
    <3>8. Wrote(dst, q.off, n, dst')
      BY <1>4, <1>5, <1>6, <3>7, WriteFacts
    <3>9. Stands' = q.off + q.len
      <4>1. CASE toDst' = <<>>
        <5>1. Len(toDst) = 1
          BY <4>1, <1>3, <1>0 DEF Types
        <5> QED BY <4>1, <5>1, <1>1, <1>3, <3>3 DEF Stands
      <4>2. CASE toDst' # <<>>
        <5>1. 1 \in DOMAIN toDst'
          BY <4>2, <1>3
        <5>2. toDst'[1] = toDst[1 + 1] /\ 1 + 1 \in DOMAIN toDst
          BY <5>1, <1>3
        <5> QED BY <4>2, <5>2, <1>3, <3>3 DEF Stands
      <4> QED BY <4>1, <4>2
    <3>10. Units(0, q.off + q.len) \subseteq dst'.good /\ (~conf.inplace => dst'.len = q.off + q.len)
      BY <1>4, <1>5, <3>1, <3>3, <3>8 DEF Wrote, Units
    <3>11. \A i \in DOMAIN toDst' : i + 1 \in DOMAIN toDst' =>
             toDst'[i + 1].off = toDst'[i].off + toDst'[i].len
      <4> SUFFICES ASSUME NEW i \in DOMAIN toDst', i + 1 \in DOMAIN toDst'
                   PROVE  toDst'[i + 1].off = toDst'[i].off + toDst'[i].len
        OBVIOUS
      <4>1. i + 1 \in DOMAIN toDst /\ toDst'[i] = toDst[i + 1]
        BY <1>3
      <4>2. (i + 1) + 1 \in DOMAIN toDst /\ toDst'[i + 1] = toDst[(i + 1) + 1]
        BY <1>3
      <4> QED BY <4>1, <4>2, <3>3
    <3> QED BY <3>3, <3>5, <3>6, <3>9, <3>10, <3>11
  <2> QED BY <1>1, <1>2, <2>w, <2>1 DEF Writing, Running
<1>18. Cut' /\ Before'
  BY <1>0, <1>1, <1>2 DEF Cut, PrefixLeft, CopyFaithful, Before, Stage
<1> QED BY <1>12, <1>13, <1>14, <1>15, <1>16, <1>17, <1>18 DEF IInv

-----------------------------------------------------------------------------
(* The client: reading.                                                     *)

\* the ids of w come after id, those of R do not
Numbered(R, id, w) == (\A q \in R : q.id <= id) /\ (\A i \in DOMAIN w : w[i].id = id + i)

\* the requests w are in flight, too
Grown(R, to, from, w) ==
  /\ Matched(R \cup ToSet(w), to \o w, from)
  /\ Cardinality(R) \in Nat /\ Cardinality(R \cup ToSet(w)) = Cardinality(R) + Len(w)

\* several requests are made at once
LEMMA MatchedBatch ==
  ASSUME NEW A, NEW R \in SUBSET Request, NEW to \in Seq(Request), NEW from \in Seq(A),
         Matched(R, to, from), NEW id \in Nat, NEW w \in Seq(Request), Numbered(R, id, w)
  PROVE  Grown(R, to, from, w)
<1>m. /\ IsFiniteSet(R) /\ Cardinality(R) = Len(to) + Len(from)
      /\ \A i \in DOMAIN to : to[i] \in R
      /\ \A i \in DOMAIN from : \E r \in R : r.id = from[i].id
      /\ \A i, j \in DOMAIN to : i # j => to[i].id # to[j].id
      /\ \A i, j \in DOMAIN from : i # j => from[i].id # from[j].id
      /\ \A i \in DOMAIN to, j \in DOMAIN from : to[i].id # from[j].id
  BY DEF Matched
<1>i. (\A q \in R : q.id <= id) /\ (\A i \in DOMAIN w : w[i].id = id + i)
  BY DEF Numbered
<1>1. PICK W : W = ToSet(w)
  OBVIOUS
<1>n. Len(w) \in Nat
  OBVIOUS
<1>2. W = {w[i] : i \in DOMAIN w} /\ DOMAIN w = 1..Len(w) /\ Len(w) \in Nat
  BY <1>1 DEF ToSet
<1>3. \A i, j \in DOMAIN w : w[i].id = w[j].id => i = j
  BY <1>i, <1>2
<1>4. IsFiniteSet(W) /\ Cardinality(W) = Len(w)
  <2>1. w \in [1..Len(w) -> W]
    BY <1>2
  <2>2. w \in Injection(1..Len(w), W)
    BY <1>2, <1>3, <2>1 DEF Injection, IsInjective
  <2>3. w \in Surjection(1..Len(w), W)
    BY <1>2, <2>1 DEF Surjection
  <2>4. ExistsBijection(1..Len(w), W)
    BY <2>2, <2>3 DEF ExistsBijection, Bijection
  <2>5. IsFiniteSet(1..Len(w)) /\ Cardinality(1..Len(w)) = Len(w)
    <3>1. PICK a \in Int, b \in Int : a = 1 /\ b = Len(w)
      BY <1>n
    <3>2. IsFiniteSet(a..b) /\ Cardinality(a..b) = IF a > b THEN 0 ELSE b-a+1
      BY FS_Interval
    <3> QED BY <1>n, <3>1, <3>2
  <2> QED BY <2>4, <2>5, FS_Bijection
<1>5. \A q \in R : q.id \in Nat /\ q.id <= id
  BY <1>i DEF Request
<1>6. \A i \in DOMAIN w, q \in R : w[i].id # q.id
  BY <1>i, <1>2, <1>5
<1>7. R \cap W = {}
  BY <1>2, <1>6
<1>8. IsFiniteSet(R \cup W) /\ Cardinality(R \cup W) = Cardinality(R) + Len(w) /\ Cardinality(R) \in Nat
  <2>1. IsFiniteSet(R \cup W)
        /\ Cardinality(R \cup W) = Cardinality(R) + Cardinality(W) - Cardinality(R \cap W)
    BY <1>m, <1>4, FS_Union
  <2>2. Cardinality(R \cap W) = 0
    BY <1>7, FS_EmptySet
  <2>3. Cardinality(R) \in Nat
    BY <1>m, FS_CardinalityType
  <2> QED BY <1>n, <1>4, <2>1, <2>2, <2>3
<1>9. PICK s : s = to \o w
  OBVIOUS
<1>10. /\ s \in Seq(Request) /\ Len(s) = Len(to) + Len(w)
       /\ \A i \in 1..(Len(to) + Len(w)) : s[i] = IF i <= Len(to) THEN to[i] ELSE w[i - Len(to)]
  BY <1>9, ConcatProperties
<1>11. \A i \in DOMAIN s : \/ i \in DOMAIN to /\ s[i] = to[i]
                           \/ i - Len(to) \in DOMAIN w /\ s[i] = w[i - Len(to)]
  BY <1>2, <1>10
<1>12. Cardinality(R \cup W) = Len(s) + Len(from)
  BY <1>m, <1>8, <1>10
<1>13. \A i \in DOMAIN s : s[i] \in R \cup W
  BY <1>m, <1>2, <1>11
<1>14. \A i, j \in DOMAIN s : i # j => s[i].id # s[j].id
  <2> SUFFICES ASSUME NEW i \in DOMAIN s, NEW j \in DOMAIN s, i # j
               PROVE  s[i].id # s[j].id
    OBVIOUS
  <2>1. CASE i \in DOMAIN to /\ s[i] = to[i] /\ j \in DOMAIN to /\ s[j] = to[j]
    BY <2>1, <1>m
  <2>2. CASE i \in DOMAIN to /\ s[i] = to[i] /\ j - Len(to) \in DOMAIN w /\ s[j] = w[j - Len(to)]
    BY <2>2, <1>m, <1>6
  <2>3. CASE j \in DOMAIN to /\ s[j] = to[j] /\ i - Len(to) \in DOMAIN w /\ s[i] = w[i - Len(to)]
    BY <2>3, <1>m, <1>6
  <2>4. CASE /\ i - Len(to) \in DOMAIN w /\ s[i] = w[i - Len(to)]
             /\ j - Len(to) \in DOMAIN w /\ s[j] = w[j - Len(to)]
    <3>1. i - Len(to) # j - Len(to)
      BY <1>10
    <3> QED BY <3>1, <2>4, <1>3
  <2> QED BY <2>1, <2>2, <2>3, <2>4, <1>11
<1>15. \A i \in DOMAIN s, j \in DOMAIN from : s[i].id # from[j].id
  <2> SUFFICES ASSUME NEW i \in DOMAIN s, NEW j \in DOMAIN from
               PROVE  s[i].id # from[j].id
    OBVIOUS
  <2>1. PICK r \in R : r.id = from[j].id
    BY <1>m
  <2>2. CASE i \in DOMAIN to /\ s[i] = to[i]
    BY <2>2, <1>m
  <2>3. CASE i - Len(to) \in DOMAIN w /\ s[i] = w[i - Len(to)]
    BY <2>1, <2>3, <1>6
  <2> QED BY <2>2, <2>3, <1>11
<1>16. \A i \in DOMAIN from : \E r \in R \cup W : r.id = from[i].id
  BY <1>m
<1>17. Matched(R \cup W, s, from)
  BY <1>m, <1>8, <1>12, <1>13, <1>14, <1>15, <1>16 DEF Matched
<1> QED BY <1>1, <1>8, <1>9, <1>17 DEF Grown

\* the requests w follow one another from the offset on
Batch(n, w) ==
  /\ w \in Seq(Request) /\ Len(w) = n
  /\ \A i \in 1..n : /\ w[i].id = cl.id + i /\ w[i].off >= cl.offset
                     /\ w[i].off + w[i].len <= cl.offset + n * cl.buflen
  /\ \A i, j \in 1..n : i < j => w[i].off + w[i].len <= w[j].off
  /\ \A u \in Nat : u >= cl.offset /\ u < cl.offset + n * cl.buflen =>
       \E i \in 1..n : u \in Units(w[i].off, w[i].len)

\* multiples
LEMMA Multiples ==
  ASSUME NEW a \in Nat, NEW c \in Nat, NEW b \in Nat, a < c
  PROVE  a * b \in Nat /\ c * b \in Nat /\ (a * b) + b <= c * b
OBVIOUS

\* every number lies between two multiples
LEMMA Between ==
  ASSUME NEW u \in Nat, NEW b \in Nat, b >= 1
  PROVE  \E i \in Nat : i * b <= u /\ u < i * b + b
<1>1. u \div b \in Nat
  OBVIOUS
<1> QED BY <1>1

\* the next reads
LEMMA WantedFacts ==
  ASSUME Types, NEW n \in Nat
  PROVE  Batch(n, Wanted(n))
<1>1. PICK b \in Nat, o \in Nat, d \in Nat : b = cl.buflen /\ o = cl.offset /\ d = cl.id
  BY ClientFields, Zenon
<1>2. b \in 1..Buflen /\ b >= 1
  <2>1. b \in 1..Buflen
    BY <1>1, ClientFields, Zenon
  <2> QED BY <2>1, Sizes
<1>3. PICK w : w = Wanted(n)
  OBVIOUS
<1>4. w = [i \in 1..n |-> [id |-> d + i, off |-> o + (i - 1) * b, len |-> b]]
  BY <1>1, <1>3 DEF Wanted
<1>5. \A i \in 1..n : (i - 1) * b \in Nat /\ (i - 1) * b + b <= n * b /\ n * b \in Nat
  <2> SUFFICES ASSUME NEW i \in 1..n
               PROVE  (i - 1) * b \in Nat /\ (i - 1) * b + b <= n * b /\ n * b \in Nat
    OBVIOUS
  <2>1. PICK a \in Nat : a = i - 1
    OBVIOUS
  <2>2. a < n
    BY <2>1
  <2> QED BY <2>1, <2>2, Multiples
<1>6. \A i \in 1..n : [id |-> d + i, off |-> o + (i - 1) * b, len |-> b] \in Request
  BY <1>2, <1>5 DEF Request
<1>7. w \in Seq(Request) /\ Len(w) = n
  <2>1. w \in [1..n -> Request] /\ DOMAIN w = 1..n
    BY <1>4, <1>6
  <2>2. w \in Seq(Request)
    BY <2>1
  <2>3. Len(w) \in Nat /\ DOMAIN w = 1..Len(w)
    BY <2>2
  <2> QED BY <2>1, <2>2, <2>3
<1>8. \A i \in 1..n : w[i].id = d + i /\ w[i].off = o + (i - 1) * b /\ w[i].len = b
  BY <1>4
<1>9. \A i \in 1..n : w[i].off >= o /\ w[i].off + w[i].len <= o + n * b
  BY <1>5, <1>8
<1>10. \A i, j \in 1..n : i < j => w[i].off + w[i].len <= w[j].off
  <2> SUFFICES ASSUME NEW i \in 1..n, NEW j \in 1..n, i < j
               PROVE  w[i].off + w[i].len <= w[j].off
    OBVIOUS
  <2>1. PICK a \in Nat, c \in Nat : a = i - 1 /\ c = j - 1
    OBVIOUS
  <2>2. a < c
    BY <2>1
  <2>3. a * b \in Nat /\ c * b \in Nat /\ (a * b) + b <= c * b
    BY <2>2, Multiples
  <2> QED BY <1>8, <2>1, <2>3
<1>11. ASSUME NEW u \in Nat, u >= o, u < o + n * b
       PROVE  \E i \in 1..n : u \in Units(w[i].off, w[i].len)
  <2>1. PICK v \in Nat : v = u - o
    BY <1>11
  <2>2. PICK i \in Nat : i * b <= v /\ v < i * b + b
    BY <1>2, Between
  <2>3. i < n
    <3> SUFFICES ASSUME n < i \/ n = i
                 PROVE  FALSE
      OBVIOUS
    <3>1. n * b \in Nat /\ i * b \in Nat /\ n * b <= i * b
      <4>1. CASE n < i
        BY <4>1, Multiples
      <4>2. CASE n = i
        BY <4>2
      <4> QED BY <4>1, <4>2
    <3>2. v < n * b
      BY <1>11, <2>1, <3>1
    <3> QED BY <2>2, <3>1, <3>2
  <2>4. i + 1 \in 1..n /\ (i + 1) - 1 = i
    BY <2>3
  <2>5. w[i + 1].off = o + i * b /\ w[i + 1].len = b /\ i * b \in Nat
    BY <1>5, <1>8, <2>4
  <2>6. u \in Units(w[i + 1].off, w[i + 1].len)
    BY <2>1, <2>2, <2>5 DEF Units
  <2> QED BY <2>4, <2>6
<1> QED BY <1>1, <1>3, <1>7, <1>8, <1>9, <1>10, <1>11 DEF Batch

\* the next reads are sent, if any
LEMMA SendKeeps ==
  ASSUME IInv, cl.pc = "loop", conf.dir # "put", ~interrupted,
         Send(Wanted(Max({0, cl.max_req - num_req}))),
         UNCHANGED <<conf, interrupted, dst, fromSrc, toDst, fromDst, faults>>
  PROVE  IInv'
<1>0. Types /\ InFlight /\ Stage /\ Reading /\ Marks /\ Writing /\ Cut /\ Before
  BY DEF IInv
<1>1. Running /\ Matched(cl.reqs, toSrc, fromSrc) /\ cl.reqs \in SUBSET Request /\ cl.id \in Nat
      /\ cl.offset \in Nat /\ cl.buflen \in Nat /\ cl.max_req \in 0..NumRequests
  <2>1. Running
    BY DEF Running
  <2>2. Matched(cl.reqs, toSrc, fromSrc)
    BY <1>0 DEF InFlight
  <2> QED BY <1>0, <2>1, <2>2, ClientFields, Zenon
<1>2. num_req \in Nat /\ num_req <= NumRequests
  <2>1. IsFiniteSet(cl.reqs)
    BY <1>1 DEF Matched
  <2> QED BY <2>1, <1>0, FS_CardinalityType DEF Stage, num_req
<1>3. PICK n \in Nat : n = Max({0, cl.max_req - num_req}) /\ num_req + n <= NumRequests
  <2>1. PICK a \in Int, b \in Int : a = 0 /\ b = cl.max_req - num_req
    BY <1>1, <1>2, Sizes
  <2>2. Max({a, b}) = IF a >= b THEN a ELSE b
    BY MaxTwo
  <2> QED BY <1>1, <1>2, <2>1, <2>2, Sizes
<1>4. PICK w : w = Wanted(n)
  OBVIOUS
<1>5. Batch(n, w)
  BY <1>0, <1>4, WantedFacts
<1>6. w \in Seq(Request) /\ Len(w) = n /\ DOMAIN w = 1..n
  BY <1>5 DEF Batch
<1>7. PICK R \in SUBSET Request : R = cl.reqs \cup ToSet(w)
  <2>1. \A i \in DOMAIN w : w[i] \in Request
    BY <1>6
  <2>2. \A x \in ToSet(w) : x \in Request
    BY <2>1 DEF ToSet
  <2> QED BY <1>1, <2>2
<1>8. PICK o \in Nat : o = cl.offset + n * cl.buflen /\ o >= cl.offset
  <2>1. PICK b \in Nat : b = cl.buflen
    BY <1>1
  <2>2. n * b \in Nat
    OBVIOUS
  <2> QED BY <1>1, <2>1, <2>2
<1>9. PICK d \in Nat : d = cl.id + n
  BY <1>1
<1>10. toSrc' = toSrc \o w /\ cl' = [cl EXCEPT !.pc = "eat", !.reqs = R, !.id = d, !.offset = o]
  <2>1. Send(w)
    BY <1>3, <1>4
  <2>2. /\ toSrc' = toSrc \o w
        /\ cl' = [cl EXCEPT !.pc = "eat", !.reqs = cl.reqs \cup ToSet(w), !.id = cl.id + Len(w),
                            !.offset = cl.offset + Len(w) * cl.buflen]
    BY <2>1 DEF Send
  <2> QED BY <1>6, <1>7, <1>8, <1>9, <2>2
<1>11. cl' \in Transfer /\ cl'.pc = "eat" /\ cl'.reqs = R /\ cl'.id = d /\ cl'.offset = o
  BY <1>0, <1>10 DEF Types, Transfer, PCs
<1>12. /\ SameMarks /\ SameErrors /\ SameEnd /\ cl'.max_req = cl.max_req
       /\ cl'.num_upload_req = cl.num_upload_req
  BY <1>0, <1>10 DEF Types, Transfer, SameMarks, SameErrors, SameEnd
<1>13. /\ \A i \in DOMAIN w : w[i].id = cl.id + i
       /\ \A q \in cl.reqs : q.id <= cl.id
  BY <1>0, <1>5, <1>6 DEF Batch, InFlight, Fresh
<1>14. Matched(R, toSrc', fromSrc') /\ Cardinality(R) = num_req + n
  <2>1. toSrc \in Seq(Request) /\ fromSrc \in Seq(ReadAnswer)
    BY <1>0 DEF Types
  <2>2. PICK P \in SUBSET Request, to \in Seq(Request), from \in Seq(ReadAnswer), id \in Nat :
          P = cl.reqs /\ to = toSrc /\ from = fromSrc /\ id = cl.id
    BY <1>1, <2>1
  <2>3. Matched(P, to, from) /\ w \in Seq(Request) /\ Numbered(P, id, w)
    BY <1>1, <1>6, <1>13, <2>2 DEF Numbered
  <2>4. Grown(P, to, from, w)
    BY <2>3, MatchedBatch
  <2> QED BY <1>6, <1>7, <1>10, <2>2, <2>4 DEF Grown, num_req
<1>15. \A q \in R : q \in cl.reqs \/ \E i \in DOMAIN w : q = w[i]
  BY <1>7 DEF ToSet
<1>16. \A q \in cl.reqs : q \in R
  BY <1>7
<1>17. \A i \in DOMAIN w : w[i] \in R
  BY <1>7 DEF ToSet
<1>18. \A q \in R : q.id \in Nat /\ q.off \in Nat /\ q.len \in Nat
  BY <1>7, Sizes DEF Request
<1>19. Types'
  <2>1. toSrc' \in Seq(Request)
    <3>1. toSrc \in Seq(Request)
      BY <1>0 DEF Types
    <3>2. toSrc \o w \in Seq(Request)
      BY <1>6, <3>1, ConcatProperties
    <3> QED BY <1>10, <3>2
  <2> QED BY <1>0, <1>11, <2>1 DEF Types
<1>20. InFlight'
  <2>1. \A q \in R : q.id <= d
    <3> SUFFICES ASSUME NEW q \in R PROVE q.id <= d
      OBVIOUS
    <3>1. CASE q \in cl.reqs
      BY <3>1, <1>1, <1>9, <1>13, <1>18
    <3>2. CASE \E i \in DOMAIN w : q = w[i]
      BY <3>2, <1>1, <1>6, <1>9, <1>13
    <3> QED BY <3>1, <3>2, <1>15
  <2>2. \A q, r \in R : q.id = r.id => q = r
    <3> SUFFICES ASSUME NEW q \in R, NEW r \in R, q.id = r.id
                 PROVE  q = r
      OBVIOUS
    <3>1. CASE q \in cl.reqs /\ r \in cl.reqs
      BY <3>1, <1>0 DEF InFlight, Fresh
    <3>2. CASE q \in cl.reqs /\ \E i \in DOMAIN w : r = w[i]
      BY <3>2, <1>1, <1>6, <1>13, <1>18
    <3>3. CASE r \in cl.reqs /\ \E i \in DOMAIN w : q = w[i]
      BY <3>3, <1>1, <1>6, <1>13, <1>18
    <3>4. CASE (\E i \in DOMAIN w : q = w[i]) /\ (\E i \in DOMAIN w : r = w[i])
      BY <3>4, <1>1, <1>6, <1>13
    <3> QED BY <3>1, <3>2, <3>3, <3>4, <1>15
  <2> QED BY <1>0, <1>11, <1>12, <1>14, <2>1, <2>2 DEF InFlight, Fresh
<1>21. Stage'
  BY <1>0, <1>3, <1>11, <1>12, <1>14 DEF Stage, SameEnd, num_req
<1>22. Sound' = Sound
  BY <1>12 DEF Sound, SameErrors
<1>23. \A i \in DOMAIN w : w[i].off >= cl.offset /\ w[i].off + w[i].len <= o
  BY <1>5, <1>6, <1>8 DEF Batch
<1>24. Reading'
  <2>r. /\ \A i \in DOMAIN fromSrc, q \in cl.reqs : q.id = fromSrc[i].id => Fits(q, fromSrc[i])
        /\ \A q \in cl.reqs : q.off + q.len <= cl.offset
        /\ \A q, r \in cl.reqs : q = r \/ q.off + q.len <= r.off \/ r.off + r.len <= q.off
        /\ \A i \in DOMAIN toDst : toDst[i].off + toDst[i].len <= Size
        /\ ~conf.inplace => dst.len <= Size
        /\ cl.status = "ok"
        /\ Sound => \A u \in 0..(Size - 1) : u \in dst.good \/ Asked(u) \/ Sent(u) \/ u >= cl.offset
        /\ Sound /\ cl.max_req = 0 => cl.offset >= Size
    BY <1>0, <1>1 DEF Reading
  <2>1. \A i \in DOMAIN fromSrc, q \in R : q.id = fromSrc[i].id => Fits(q, fromSrc[i])
    <3> SUFFICES ASSUME NEW i \in DOMAIN fromSrc, NEW q \in R, q.id = fromSrc[i].id
                 PROVE  Fits(q, fromSrc[i])
      OBVIOUS
    <3>1. PICK r \in cl.reqs : r.id = fromSrc[i].id
      BY <1>1 DEF Matched
    <3>2. q \in cl.reqs
      <4>1. CASE \E j \in DOMAIN w : q = w[j]
        BY <3>1, <4>1, <1>1, <1>6, <1>13, <1>16, <1>18
      <4> QED BY <4>1, <1>15
    <3> QED BY <3>2, <2>r
  <2>2. \A q \in R : q.off + q.len <= o
    <3> SUFFICES ASSUME NEW q \in R PROVE q.off + q.len <= o
      OBVIOUS
    <3>1. CASE q \in cl.reqs
      BY <3>1, <1>1, <1>8, <1>18, <2>r
    <3>2. CASE \E i \in DOMAIN w : q = w[i]
      BY <3>2, <1>23
    <3> QED BY <3>1, <3>2, <1>15
  <2>3. \A q, r \in R : q = r \/ q.off + q.len <= r.off \/ r.off + r.len <= q.off
    <3> SUFFICES ASSUME NEW q \in R, NEW r \in R
                 PROVE  q = r \/ q.off + q.len <= r.off \/ r.off + r.len <= q.off
      OBVIOUS
    <3>1. CASE q \in cl.reqs /\ r \in cl.reqs
      BY <3>1, <2>r
    <3>2. CASE q \in cl.reqs /\ \E i \in DOMAIN w : r = w[i]
      BY <3>2, <1>1, <1>18, <1>23, <2>r
    <3>3. CASE r \in cl.reqs /\ \E i \in DOMAIN w : q = w[i]
      BY <3>3, <1>1, <1>18, <1>23, <2>r
    <3>4. CASE (\E i \in DOMAIN w : q = w[i]) /\ (\E i \in DOMAIN w : r = w[i])
      <4>1. PICK i \in 1..n, j \in 1..n : q = w[i] /\ r = w[j]
        BY <3>4, <1>6
      <4>2. i = j \/ i < j \/ j < i
        OBVIOUS
      <4> QED BY <4>1, <4>2, <1>5 DEF Batch
    <3> QED BY <3>1, <3>2, <3>3, <3>4, <1>15
  <2>4. ASSUME Sound, NEW u \in 0..(Size - 1)
        PROVE  u \in dst.good \/ Asked(u)' \/ Sent(u)' \/ u >= o
    <3>1. u \in dst.good \/ Asked(u) \/ Sent(u) \/ u >= cl.offset
      BY <2>4, <2>r
    <3>2. Sent(u)' = Sent(u)
      BY DEF Sent
    <3>3. Asked(u) => Asked(u)'
      BY <1>11, <1>16 DEF Asked
    <3>4. CASE u >= cl.offset /\ ~(u >= o)
      <4>1. u \in Nat /\ u < cl.offset + n * cl.buflen
        BY <3>4, <1>8, Sizes
      <4>2. PICK i \in 1..n : u \in Units(w[i].off, w[i].len)
        BY <3>4, <4>1, <1>5 DEF Batch
      <4>3. w[i] \in cl'.reqs
        BY <4>2, <1>6, <1>11, <1>17
      <4> QED BY <4>2, <4>3 DEF Asked
    <3> QED BY <3>1, <3>2, <3>3, <3>4
  <2>5. Sound /\ cl.max_req = 0 => o >= Size
    BY <1>1, <1>8, <2>r, Sizes
  <2> QED BY <1>11, <1>12, <1>22, <2>r, <2>1, <2>2, <2>3, <2>4, <2>5 DEF Reading, SameErrors
<1>25. Marks'
  <2> SUFFICES ASSUME conf.dir = "get"
               PROVE  Marks'
    BY DEF Marks
  <2>m. /\ cl.maxack \in Nat /\ cl.highwater \in Nat
        /\ cl.maxack <= Size /\ cl.maxack <= cl.offset /\ cl.highwater <= cl.maxack
        /\ ~cl.reordered => cl.highwater = cl.maxack /\ \A q \in cl.reqs : q.off >= cl.highwater
        /\ cl.write_error => faults["write"] >= 1
        /\ faults["write"] <= 1 => Units(0, cl.highwater) \subseteq dst.good
        /\ conf.inplace /\ Sound => dst.good \subseteq 0..(cl.maxack - 1)
    BY <1>0, <1>1 DEF Marks, Types, Transfer
  <2>1. cl.maxack <= o
    BY <1>1, <1>8, <2>m
  <2>2. ~cl.reordered => \A q \in R : q.off >= cl.highwater
    BY <1>1, <1>15, <1>18, <1>23, <2>m
  <2> QED BY <1>11, <1>12, <1>22, <2>m, <2>1, <2>2 DEF Marks, SameMarks, SameErrors
<1>26. Writing' /\ Cut' /\ Before'
  BY <1>0, <1>11, <1>12 DEF Writing, Cut, PrefixLeft, CopyFaithful, Before, Stage, SameEnd
<1> QED BY <1>19, <1>20, <1>21, <1>24, <1>25, <1>26 DEF IInv

\* the top of the loop
LEMMA ReadLoopKeeps ==
  ASSUME IInv, ReadLoop
  PROVE  IInv'
<1>0. Types /\ InFlight /\ Stage /\ Reading /\ Marks /\ Writing /\ Cut /\ Before
  BY DEF IInv
<1>1. /\ cl.pc = "loop" /\ conf.dir # "put" /\ Running /\ cl.result = "busy"
      /\ UNCHANGED <<conf, interrupted, dst, fromSrc, toDst, fromDst, faults>>
  BY <1>0 DEF ReadLoop, Running, Stage
<1>2. CASE ~interrupted /\ Send(Wanted(Max({0, cl.max_req - num_req})))
  BY <1>1, <1>2, SendKeeps
<1>3. ASSUME NEW p \in {"drain", "eat"}, NEW m \in 0..NumRequests,
             cl' = [cl EXCEPT !.pc = p, !.max_req = m], UNCHANGED toSrc,
             p = "drain" => num_req = 0 /\ m = cl.max_req /\ (m = 0 \/ interrupted),
             p = "eat" => interrupted
      PROVE  IInv'
  <2>1. cl' \in Transfer /\ cl'.pc = p /\ cl'.max_req = m
    BY <1>0, <1>3 DEF Types, Transfer, PCs
  <2>2. SameRequests /\ SameMarks /\ SameErrors /\ SameEnd /\ cl'.offset = cl.offset
    BY <1>0, <1>3 DEF Types, Transfer, SameRequests, SameMarks, SameErrors, SameEnd
  <2>3. Types'
    BY <1>0, <1>1, <1>3, <2>1 DEF Types
  <2>4. InFlight'
    BY <1>0, <1>1, <1>3, <2>2 DEF InFlight, SameRequests
  <2>5. p = "drain" => cl.reqs = {}
    <3>1. IsFiniteSet(cl.reqs)
      BY <1>0, <1>1 DEF InFlight, Matched
    <3> QED BY <1>3, <3>1, FS_EmptySet DEF num_req
  <2>6. Stage'
    BY <1>0, <1>1, <1>3, <2>1, <2>2, <2>5 DEF Stage, SameRequests, SameEnd, num_req
  <2>7. Sound' = Sound
    BY <1>1, <2>2 DEF Sound, SameErrors
  <2>8. \A u : Asked(u)' = Asked(u) /\ Sent(u)' = Sent(u)
    BY <1>1, <2>2 DEF Asked, Sent, SameRequests
  <2>9. Sound => p = "drain" /\ cl.max_req = 0
    BY <1>3 DEF Sound
  <2>10. Reading'
    BY <1>0, <1>1, <2>1, <2>2, <2>7, <2>8, <2>9 DEF Reading, SameRequests, SameErrors
  <2>11. Marks'
    BY <1>0, <1>1, <1>3, <2>1, <2>2, <2>7 DEF Marks, SameRequests, SameErrors, SameMarks
  <2>12. Writing' /\ Cut' /\ Before'
    BY <1>1, <1>3, <2>1, <2>2 DEF Writing, Cut, PrefixLeft, CopyFaithful, Before, SameEnd
  <2> QED BY <2>3, <2>4, <2>6, <2>10, <2>11, <2>12 DEF IInv
<1>4. cl.max_req \in 0..NumRequests /\ 0 \in 0..NumRequests
  BY <1>0, Sizes DEF Types, Transfer
<1>5. CASE num_req = 0 /\ (cl.max_req = 0 \/ interrupted) /\ cl' = [cl EXCEPT !.pc = "drain"]
           /\ UNCHANGED toSrc
  <2>1. cl' = [cl EXCEPT !.pc = "drain", !.max_req = cl.max_req]
    BY <1>0, <1>5 DEF Types, Transfer
  <2> QED BY <1>3, <1>4, <1>5, <2>1
<1>6. CASE interrupted /\ cl' = [cl EXCEPT !.pc = "eat", !.max_req = 0] /\ UNCHANGED toSrc
  BY <1>3, <1>4, <1>6
<1> QED BY <1>2, <1>5, <1>6 DEF ReadLoop

\* answers to the writes of a crossload
LEMMA DestRepliesKeep ==
  ASSUME IInv, handle_dest_replies
  PROVE  IInv'
<1>0. Types /\ InFlight /\ Stage /\ Reading /\ Marks /\ Writing /\ Cut /\ Before
  BY DEF IInv
<1>1. /\ cl.pc \in {"eat", "drain"} /\ conf.dir # "put" /\ Running /\ cl.result = "busy"
      /\ UNCHANGED <<conf, interrupted, dst, toSrc, fromSrc, toDst, faults>>
  BY <1>0 DEF handle_dest_replies, Running, Stage
<1>2. \A u : Sent(u)' = Sent(u)
  BY <1>1 DEF Sent
<1>3. CASE cl.num_upload_req > 0 /\ fromDst # <<>> /\ fromDst' = Tail(fromDst)
           /\ cl' = [cl EXCEPT !.num_upload_req = @ - 1, !.write_error = @ \/ ~Head(fromDst).ok]
  <2>1. PICK n \in Nat : n = cl.num_upload_req - 1
    <3>1. PICK m \in Nat : m = cl.num_upload_req
      BY <1>0, ClientFields, Zenon
    <3>2. m - 1 \in Nat
      BY <1>3, <3>1
    <3> QED BY <3>1, <3>2, Zenon
  <2>2. /\ fromDst' \in Seq(WriteAnswer) /\ Len(fromDst') = Len(fromDst) - 1
        /\ Head(fromDst) = fromDst[1] /\ Head(fromDst) \in WriteAnswer /\ 1 \in DOMAIN fromDst
        /\ \A j \in DOMAIN fromDst' : j + 1 \in DOMAIN fromDst /\ fromDst'[j] = fromDst[j + 1]
    <3>1. fromDst \in Seq(WriteAnswer)
      BY <1>0 DEF Types
    <3> QED BY <1>3, <3>1, Taken
  <2>3. PICK b \in BOOLEAN : b = (cl.write_error \/ ~Head(fromDst).ok)
    OBVIOUS
  <2>4. cl' = [cl EXCEPT !.num_upload_req = n, !.write_error = b]
    BY <1>3, <2>1, <2>3
  <2>5. cl' \in Transfer /\ cl'.num_upload_req = n /\ cl'.write_error = b
    BY <1>0, <2>4 DEF Types, Transfer
  <2>6. /\ cl'.pc = cl.pc /\ cl'.reqs = cl.reqs /\ cl'.id = cl.id /\ SamePlan /\ SameEnd
        /\ cl'.read_error = cl.read_error /\ cl'.status = cl.status
    BY <1>0, <2>4 DEF Types, Transfer, SamePlan, SameEnd
  <2>7. Types'
    BY <1>0, <1>1, <2>2, <2>5 DEF Types
  <2>8. conf.dir # "get"
    BY <1>0, <1>3 DEF InFlight
  <2>9. InFlight'
    <3>1. n = Len(toDst') + Len(fromDst')
      BY <1>0, <1>1, <2>1, <2>2 DEF InFlight, Types
    <3> QED BY <1>0, <1>1, <2>5, <2>6, <2>8, <3>1 DEF InFlight
  <2>10. Stage'
    BY <1>0, <1>1, <2>6 DEF Stage, SameEnd, num_req
  <2>11. Sound' => Sound
    <3> SUFFICES ASSUME Sound', NEW i \in DOMAIN fromDst
                 PROVE  ~cl.read_error /\ ~cl.write_error /\ ~interrupted /\ fromDst[i].ok
      BY <2>2 DEF Sound
    <3>1. ~cl.read_error /\ ~cl.write_error /\ fromDst[1].ok /\ ~interrupted
      BY <1>1, <2>2, <2>3, <2>5, <2>6 DEF Sound
    <3>2. CASE i # 1
      <4>1. i - 1 \in DOMAIN fromDst' /\ fromDst'[i - 1] = fromDst[(i - 1) + 1] /\ (i - 1) + 1 = i
        BY <1>0, <2>2, <3>2 DEF Types
      <4> QED BY <3>1, <4>1 DEF Sound
    <3> QED BY <3>1, <3>2
  <2>12. Reading'
    <3>1. \A u : Asked(u)' = Asked(u)
      BY <2>6 DEF Asked
    <3> QED BY <1>0, <1>1, <1>2, <2>6, <2>11, <3>1 DEF Reading, Running, SamePlan
  <2>13. Marks' /\ Writing'
    BY <1>1, <2>8 DEF Marks, Writing
  <2>14. Cut' /\ Before'
    BY <1>1, <2>6 DEF Cut, PrefixLeft, CopyFaithful, Before, SameEnd
  <2> QED BY <2>7, <2>9, <2>10, <2>12, <2>13, <2>14 DEF IInv
<1>4. CASE /\ cl.num_upload_req = 0 \/ (cl.pc = "eat" /\ fromDst = <<>>)
           /\ cl' = [cl EXCEPT !.pc = IF cl.pc = "eat" THEN "recv" ELSE "check"]
           /\ fromDst' = fromDst
  <2>1. PICK p \in PCs : p = IF cl.pc = "eat" THEN "recv" ELSE "check"
    BY DEF PCs
  <2>2. cl' = [cl EXCEPT !.pc = p]
    BY <1>4, <2>1
  <2>3. cl' \in Transfer /\ cl'.pc = p /\ SameRequests /\ SamePlan /\ SameMarks /\ SameErrors /\ SameEnd
    BY <1>0, <2>2, Moved DEF Types
  <2>4. Types'
    BY <1>0, <1>1, <1>4, <2>3 DEF Types
  <2>5. InFlight'
    BY <1>0, <1>1, <1>4, <2>3 DEF InFlight, SameRequests
  <2>6. Stage'
    BY <1>0, <1>1, <1>4, <2>1, <2>3 DEF Stage, SameRequests, SameEnd, num_req
  <2>7. Sound' = Sound
    BY <1>1, <1>4, <2>3 DEF Sound, SameErrors
  <2>8. \A u : Asked(u)' = Asked(u)
    BY <2>3 DEF Asked, SameRequests
  <2>9. Reading'
    BY <1>0, <1>1, <1>2, <2>1, <2>3, <2>7, <2>8 DEF Reading, SameRequests, SamePlan, SameErrors
  <2>10. Marks'
    BY <1>0, <1>1, <2>1, <2>3, <2>7 DEF Marks, SameRequests, SamePlan, SameErrors, SameMarks
  <2>11. Writing' /\ Cut' /\ Before'
    BY <1>1, <2>1, <2>3 DEF Writing, Cut, PrefixLeft, CopyFaithful, Before, SameEnd
  <2> QED BY <2>4, <2>5, <2>6, <2>9, <2>10, <2>11 DEF IInv
<1> QED BY <1>3, <1>4 DEF handle_dest_replies

\* a and c agree on everything but the marks
LikeButMarks(c, a) ==
  /\ a.pc = c.pc /\ a.offset = c.offset /\ a.buflen = c.buflen /\ a.max_req = c.max_req
  /\ a.reqs = c.reqs /\ a.id = c.id /\ a.sent = c.sent /\ a.acked = c.acked
  /\ a.num_upload_req = c.num_upload_req /\ a.read_error = c.read_error
  /\ a.write_error = c.write_error /\ a.status = c.status
  /\ a.fatal = c.fatal /\ a.everything = c.everything /\ a.result = c.result

\* a is c with its marks moved by an answer
Marked(c, off, len, a) ==
  /\ a \in Transfer /\ LikeButMarks(c, a)
  /\ a.maxack = (IF c.maxack >= off + len THEN c.maxack ELSE off + len)
  /\ a.highwater = (IF ~c.reordered /\ off <= c.highwater THEN a.maxack ELSE c.highwater)
  /\ a.reordered = (c.reordered \/ off > c.highwater)

\* what Acked() gives
LEMMA AckedFacts ==
  ASSUME NEW c \in Transfer, NEW off \in Nat, NEW len \in Nat
  PROVE  Marked(c, off, len, Acked(c, off, len))
<1>1. c.maxack \in Nat /\ c.highwater \in Nat /\ c.reordered \in BOOLEAN
  BY DEF Transfer
<1>2. PICK m \in Nat : m = IF c.maxack >= off + len THEN c.maxack ELSE off + len
  BY <1>1
<1>3. Max({c.maxack, off + len}) = m
  <2>1. PICK a \in Int, b \in Int : a = c.maxack /\ b = off + len
    BY <1>1
  <2> QED BY <1>2, <2>1, MaxTwo
<1>4. PICK h \in Nat : h = IF ~c.reordered /\ off <= c.highwater THEN m ELSE c.highwater
  BY <1>1
<1>5. PICK b \in BOOLEAN : b = (c.reordered \/ off > c.highwater)
  OBVIOUS
<1>6. PICK a : a = [c EXCEPT !.maxack = m, !.highwater = h, !.reordered = b]
  OBVIOUS
<1>7. Acked(c, off, len) = a
  BY <1>3, <1>4, <1>5, <1>6 DEF Acked
<1>8. a \in Transfer /\ a.maxack = m /\ a.highwater = h /\ a.reordered = b
  BY <1>6 DEF Transfer
<1>9. LikeButMarks(c, a)
  BY <1>6 DEF Transfer, LikeButMarks
<1> QED BY <1>2, <1>4, <1>5, <1>7, <1>8, <1>9 DEF Marked

\* e is d after an answer of len units to q
Served(d, q, len, e) ==
  /\ e \in Transfer /\ e.pc = "loop" /\ e.offset = d.offset
  /\ e.reqs = (IF len = q.len THEN d.reqs \ {q} ELSE (d.reqs \ {q}) \cup {Rest(d, q, len)})
  /\ e.id = (IF len = q.len THEN d.id ELSE d.id + 1)
  /\ (e.max_req = 0 <=> d.max_req = 0)
  /\ e.num_upload_req = d.num_upload_req
  /\ e.maxack = d.maxack /\ e.highwater = d.highwater /\ e.reordered = d.reordered
  /\ e.read_error = d.read_error /\ e.write_error = d.write_error /\ e.status = d.status
  /\ e.fatal = d.fatal /\ e.result = d.result

\* the rest of a request is a request
LEMMA RestFacts ==
  ASSUME NEW d \in Transfer, NEW q \in Request, NEW len \in 1..q.len, len # q.len
  PROVE  /\ Rest(d, q, len) \in Request /\ Rest(d, q, len).id = d.id + 1
         /\ Rest(d, q, len).off = q.off + len /\ Rest(d, q, len).len = q.len - len
<1>1. d.id \in Nat /\ q.off \in Nat /\ q.len \in 1..Buflen /\ Buflen \in Nat
  BY Sizes DEF Transfer, Request
<1>2. d.id + 1 \in Nat /\ q.off + len \in Nat /\ q.len - len \in 1..Buflen
  BY <1>1
<1> QED BY <1>2 DEF Rest, Request

\* what Widen() and Settle() give
LEMMA ServedFacts ==
  ASSUME NEW d \in Transfer, NEW q \in Request, NEW len \in 1..q.len
  PROVE  Served(d, q, len, Widen(Settle(d, q, len)))
<1>0. /\ d.reqs \in SUBSET Request /\ d.id \in Nat /\ d.buflen \in 1..Buflen
      /\ d.max_req \in 0..NumRequests /\ q.len \in 1..Buflen
      /\ Buflen \in Nat /\ MinRead \in 1..Buflen /\ NumRequests \in Nat
  BY Sizes DEF Transfer, Request
<1>1. PICK R \in SUBSET Request :
        R = IF len = q.len THEN d.reqs \ {q} ELSE (d.reqs \ {q}) \cup {Rest(d, q, len)}
  <2>1. len # q.len => Rest(d, q, len) \in Request
    BY RestFacts
  <2> QED BY <1>0, <2>1
<1>2. PICK i \in Nat : i = IF len = q.len THEN d.id ELSE d.id + 1
  BY <1>0
<1>3. PICK b \in 1..Buflen :
        b = IF len = q.len \/ len >= d.buflen THEN d.buflen ELSE Max({MinRead, len})
  <2>1. len < d.buflen => Max({MinRead, len}) \in 1..Buflen
    <3>1. PICK x \in Int, y \in Int : x = MinRead /\ y = len
      BY <1>0
    <3>2. Max({x, y}) = IF x >= y THEN x ELSE y
      BY MaxTwo
    <3> QED BY <1>0, <3>1, <3>2
  <2> QED BY <1>0, <2>1
<1>4. PICK s : s = Settle(d, q, len)
  OBVIOUS
<1>5. s = [d EXCEPT !.reqs = R, !.id = i, !.buflen = b]
  <2>1. CASE len = q.len
    <3>1. s = [d EXCEPT !.reqs = R]
      BY <1>1, <1>4, <2>1 DEF Settle
    <3>2. i = d.id /\ b = d.buflen
      BY <1>2, <1>3, <2>1
    <3> QED BY <3>1, <3>2 DEF Transfer
  <2>2. CASE len # q.len
    <3>1. s = [d EXCEPT !.reqs = R, !.id = d.id + 1,
                        !.buflen = IF len < d.buflen THEN Max({MinRead, len}) ELSE d.buflen]
      BY <1>1, <1>4, <2>2 DEF Settle
    <3>2. i = d.id + 1 /\ b = IF len < d.buflen THEN Max({MinRead, len}) ELSE d.buflen
      BY <1>0, <1>2, <1>3, <2>2
    <3> QED BY <3>1, <3>2
  <2> QED BY <2>1, <2>2
<1>6. s \in Transfer /\ s.offset = d.offset /\ s.reqs = R /\ s.id = i /\ s.max_req = d.max_req
  BY <1>5 DEF Transfer
<1>7. /\ s.num_upload_req = d.num_upload_req
      /\ s.maxack = d.maxack /\ s.highwater = d.highwater /\ s.reordered = d.reordered
      /\ s.read_error = d.read_error /\ s.write_error = d.write_error /\ s.status = d.status
      /\ s.fatal = d.fatal /\ s.result = d.result
  BY <1>5 DEF Transfer
<1>8. PICK m \in 0..NumRequests :
        /\ m = IF s.max_req = 0 THEN 0
               ELSE IF RemoteSize > 0 /\ s.offset > RemoteSize THEN 1
               ELSE Min({s.max_req + 1, Max({s.max_req, NumRequests})})
        /\ m = 0 <=> d.max_req = 0
  <2>1. PICK x \in Int, y \in Int : x = s.max_req /\ y = NumRequests
    BY <1>0, <1>6
  <2>2. Max({x, y}) = y
    BY <1>0, <1>6, <2>1, MaxTwo
  <2>3. PICK z \in Int : z = x + 1
    OBVIOUS
  <2>4. Min({z, y}) = IF z <= y THEN z ELSE y
    BY MinTwo
  <2>5. Min({s.max_req + 1, Max({s.max_req, NumRequests})}) = IF z <= y THEN z ELSE y
    BY <2>1, <2>2, <2>3, <2>4
  <2> QED BY <1>0, <1>6, <2>1, <2>3, <2>5, Sizes
<1>9. PICK e : e = [s EXCEPT !.pc = "loop", !.max_req = m]
  OBVIOUS
<1>10. Widen(s) = e
  BY <1>8, <1>9 DEF Widen
<1>11. e \in Transfer /\ e.pc = "loop" /\ e.max_req = m /\ e.offset = s.offset /\ e.reqs = s.reqs
       /\ e.id = s.id
  BY <1>6, <1>9 DEF Transfer, PCs
<1>12. /\ e.num_upload_req = s.num_upload_req
       /\ e.maxack = s.maxack /\ e.highwater = s.highwater /\ e.reordered = s.reordered
       /\ e.read_error = s.read_error /\ e.write_error = s.write_error /\ e.status = s.status
       /\ e.fatal = s.fatal /\ e.result = s.result
  BY <1>6, <1>9 DEF Transfer
<1> QED BY <1>1, <1>2, <1>4, <1>6, <1>7, <1>8, <1>10, <1>11, <1>12 DEF Served

\* q is answered by the next answer of the source
Answered(q) == cl.pc = "recv" /\ fromSrc # <<>> /\ q \in cl.reqs /\ q.id = Head(fromSrc).id

\* what is true of the requests once q is settled with len units
Settlement(q, len) ==
  /\ cl' \in Transfer /\ toSrc' \in Seq(Request) /\ fromSrc' \in Seq(ReadAnswer)
  /\ Fresh(cl'.reqs, cl'.id) /\ Matched(cl'.reqs, toSrc', fromSrc') /\ num_req' <= NumRequests
  /\ \A i \in DOMAIN fromSrc', r \in cl'.reqs : r.id = fromSrc'[i].id => Fits(r, fromSrc'[i])
  /\ \A r \in cl'.reqs : /\ r.off + r.len <= cl.offset
                         /\ \/ r \in cl.reqs /\ r # q
                            \/ r.off = q.off + len /\ r.off + r.len = q.off + q.len
  /\ \A r, s \in cl'.reqs : r = s \/ r.off + r.len <= s.off \/ s.off + s.len <= r.off
  /\ \A u : Asked(u) => Asked(u)' \/ u \in Units(q.off, len)

\* the answer and its request
LEMMA AnsweredFacts ==
  ASSUME Types, InFlight, Stage, Reading, NEW q, Answered(q), fromSrc' = Tail(fromSrc)
  PROVE  /\ conf.dir # "put" /\ Running /\ q \in Request /\ fromSrc' \in Seq(ReadAnswer)
         /\ Head(fromSrc) \in ReadAnswer /\ Fits(q, Head(fromSrc))
         /\ q.off + q.len <= cl.offset
         /\ Settled(cl.reqs, toSrc, fromSrc, q)
         /\ \A j \in DOMAIN fromSrc' : j + 1 \in DOMAIN fromSrc /\ fromSrc'[j] = fromSrc[j + 1]
<1>1. conf.dir # "put" /\ Running
  BY DEF Answered, Stage, Running
<1>2. cl.reqs \in SUBSET Request /\ toSrc \in Seq(Request) /\ fromSrc \in Seq(ReadAnswer)
  BY DEF Types, Transfer
<1>3. q \in Request /\ q \in cl.reqs /\ q.id = Head(fromSrc).id /\ fromSrc # <<>>
  BY <1>2 DEF Answered
<1>4. /\ fromSrc' \in Seq(ReadAnswer) /\ Head(fromSrc) = fromSrc[1] /\ Head(fromSrc) \in ReadAnswer
      /\ 1 \in DOMAIN fromSrc
      /\ \A j \in DOMAIN fromSrc' : j + 1 \in DOMAIN fromSrc /\ fromSrc'[j] = fromSrc[j + 1]
  BY <1>2, <1>3, Taken
<1>5. Fits(q, Head(fromSrc)) /\ q.off + q.len <= cl.offset
  BY <1>1, <1>3, <1>4 DEF Reading
<1>6. Settled(cl.reqs, toSrc, fromSrc, q)
  <2>1. Matched(cl.reqs, toSrc, fromSrc) /\ Fresh(cl.reqs, cl.id)
    BY <1>1 DEF InFlight
  <2> QED BY <1>2, <1>3, <2>1, MatchedSettle
<1> QED BY <1>1, <1>3, <1>4, <1>5, <1>6

\* an answer with data: the rest, if any, is asked for again
LEMMA SettlementData ==
  ASSUME Types, InFlight, Stage, Reading, NEW q, Answered(q), fromSrc' = Tail(fromSrc),
         NEW len \in 1..q.len, NEW d \in Transfer, d.reqs = cl.reqs, d.id = cl.id,
         Received(d, q, len)
  PROVE  Settlement(q, len) /\ Served(d, q, len, cl')
<1>1. /\ conf.dir # "put" /\ Running /\ q \in Request /\ fromSrc' \in Seq(ReadAnswer)
      /\ Head(fromSrc) \in ReadAnswer /\ Fits(q, Head(fromSrc))
      /\ q.off + q.len <= cl.offset
      /\ Settled(cl.reqs, toSrc, fromSrc, q)
      /\ \A j \in DOMAIN fromSrc' : j + 1 \in DOMAIN fromSrc /\ fromSrc'[j] = fromSrc[j + 1]
  BY AnsweredFacts
<1>2. Served(d, q, len, cl')
  <2>1. cl' = Widen(Settle(d, q, len))
    BY DEF Received
  <2> QED BY <1>1, <2>1, ServedFacts
<1>q. q \in cl.reqs /\ q.id = Head(fromSrc).id /\ fromSrc # <<>>
  BY DEF Answered
<1>3. cl.reqs \in SUBSET Request /\ toSrc \in Seq(Request) /\ cl.id \in Nat /\ cl.offset \in Nat
  BY DEF Types, Transfer
<1>4. \A r \in cl.reqs : r.id \in Nat /\ r.off \in Nat /\ r.len \in Nat /\ r.id <= cl.id
  <2>1. \A r \in cl.reqs : r.id <= cl.id
    BY DEF InFlight, Fresh
  <2>2. \A r \in cl.reqs : r \in Request
    BY <1>3, Zenon
  <2> QED BY <2>1, <2>2, RequestFields, Zenon
<1>5. \A r, s \in cl.reqs : r.id = s.id => r = s
  BY DEF InFlight, Fresh
<1>6. /\ Matched(cl.reqs \ {q}, toSrc, fromSrc') /\ Cardinality(cl.reqs) \in Nat
      /\ Cardinality(cl.reqs \ {q}) = Cardinality(cl.reqs) - 1
      /\ Cardinality(cl.reqs) <= NumRequests
  BY <1>1 DEF Settled, Stage, num_req
<1>7. /\ \A i \in DOMAIN fromSrc, r \in cl.reqs : r.id = fromSrc[i].id => Fits(r, fromSrc[i])
      /\ \A r \in cl.reqs : r.off + r.len <= cl.offset
      /\ \A r, s \in cl.reqs : r = s \/ r.off + r.len <= s.off \/ s.off + s.len <= r.off
  BY <1>1 DEF Reading
<1>8. CASE len = q.len
  <2>1. cl' \in Transfer /\ cl'.reqs = cl.reqs \ {q} /\ cl'.id = cl.id /\ toSrc' = toSrc
    BY <1>2, <1>8 DEF Served, Received
  <2>2. Matched(cl'.reqs, toSrc', fromSrc') /\ num_req' <= NumRequests
    BY <1>6, <2>1, Sizes DEF num_req
  <2>3. Fresh(cl'.reqs, cl'.id)
    BY <1>4, <1>5, <2>1 DEF Fresh
  <2>4. \A i \in DOMAIN fromSrc', r \in cl'.reqs : r.id = fromSrc'[i].id => Fits(r, fromSrc'[i])
    BY <1>1, <1>7, <2>1
  <2>5. \A u : Asked(u) => Asked(u)' \/ u \in Units(q.off, len)
    BY <1>8, <2>1 DEF Asked
  <2> QED BY <1>1, <1>2, <1>3, <1>7, <2>1, <2>2, <2>3, <2>4, <2>5 DEF Settlement
<1>9. CASE len # q.len
  <2>1. PICK e : e = Rest(d, q, len)
    OBVIOUS
  <2>2. /\ e \in Request /\ e.id = cl.id + 1 /\ e.off = q.off + len /\ e.len = q.len - len
    BY <1>1, <1>9, <2>1, RestFacts
  <2>3. /\ cl' \in Transfer /\ cl'.reqs = (cl.reqs \ {q}) \cup {e} /\ cl'.id = cl.id + 1
        /\ toSrc' = Append(toSrc, e)
    BY <1>2, <1>9, <2>1 DEF Served, Received
  <2>4. Newer(cl.reqs \ {q}, e)
    BY <1>3, <1>4, <2>2 DEF Newer
  <2>5. Joined(cl.reqs \ {q}, toSrc, fromSrc', e)
    <3>1. PICK R \in SUBSET Request : R = cl.reqs \ {q}
      BY <1>3
    <3>2. Matched(R, toSrc, fromSrc') /\ Newer(R, e)
      BY <1>6, <2>4, <3>1
    <3>3. Joined(R, toSrc, fromSrc', e)
      BY <1>1, <1>3, <2>2, <3>2, MatchedMore
    <3> QED BY <3>1, <3>3
  <2>6. Matched(cl'.reqs, toSrc', fromSrc') /\ num_req' <= NumRequests
    BY <1>6, <2>3, <2>5, Sizes DEF num_req, Joined
  <2>7. Fresh(cl'.reqs, cl'.id)
    <3>1. \A r \in cl'.reqs : r.id <= cl'.id
      BY <1>3, <1>4, <2>2, <2>3
    <3>2. \A r, s \in cl'.reqs : r.id = s.id => r = s
      BY <1>3, <1>4, <1>5, <2>2, <2>3
    <3> QED BY <3>1, <3>2 DEF Fresh
  <2>8. \A i \in DOMAIN fromSrc', r \in cl'.reqs : r.id = fromSrc'[i].id => Fits(r, fromSrc'[i])
    <3> SUFFICES ASSUME NEW i \in DOMAIN fromSrc', NEW r \in cl'.reqs, r.id = fromSrc'[i].id
                 PROVE  Fits(r, fromSrc'[i])
      OBVIOUS
    <3>1. PICK s \in cl.reqs : s.id = fromSrc'[i].id
      BY <1>6 DEF Matched
    <3>2. r # e
      BY <1>3, <1>4, <2>2, <3>1
    <3> QED BY <1>1, <1>7, <2>3, <3>2
  <2>9. /\ e.off \in Nat /\ e.len \in Nat /\ q.off \in Nat /\ q.len \in Nat /\ len \in Nat
        /\ e.off + e.len = q.off + q.len
    BY <1>4, <1>q, <2>2
  <2>10. \A r \in cl'.reqs : /\ r.off + r.len <= cl.offset
                             /\ \/ r \in cl.reqs /\ r # q
                                \/ r.off = q.off + len /\ r.off + r.len = q.off + q.len
    <3> SUFFICES ASSUME NEW r \in cl'.reqs
                 PROVE  /\ r.off + r.len <= cl.offset
                        /\ \/ r \in cl.reqs /\ r # q
                           \/ r.off = q.off + len /\ r.off + r.len = q.off + q.len
      OBVIOUS
    <3>1. (r \in cl.reqs /\ r # q) \/ r = e
      BY <2>3, Zenon
    <3>2. CASE r \in cl.reqs /\ r # q
      BY <1>7, <3>2, Zenon
    <3>3. CASE r = e
      BY <1>1, <2>2, <2>9, <3>3, Zenon
    <3> QED BY <3>1, <3>2, <3>3, Zenon
  <2>11. \A r, s \in cl'.reqs : r = s \/ r.off + r.len <= s.off \/ s.off + s.len <= r.off
    <3>1. \A r \in cl.reqs : r # q => e.off + e.len <= r.off \/ r.off + r.len <= e.off
      <4> SUFFICES ASSUME NEW r \in cl.reqs, r # q
                   PROVE  e.off + e.len <= r.off \/ r.off + r.len <= e.off
        OBVIOUS
      <4>1. r.off \in Nat /\ r.len \in Nat /\ (q.off + q.len <= r.off \/ r.off + r.len <= q.off)
        BY <1>4, <1>7, <1>q, Zenon
      <4>2. PICK a \in Nat, b \in Nat, c \in Nat, l \in Nat, m \in Nat :
              a = r.off /\ b = r.len /\ c = q.off /\ l = q.len /\ m = len
        BY <2>9, <4>1, Zenon
      <4>3. c + l <= a \/ a + b <= c
        BY <4>1, <4>2, Zenon
      <4>4. c + l <= a \/ a + b <= c + m
        BY <4>3
      <4> QED BY <2>2, <2>9, <4>2, <4>4, Zenon
    <3> SUFFICES ASSUME NEW r \in cl'.reqs, NEW s \in cl'.reqs, r # s
                 PROVE  r.off + r.len <= s.off \/ s.off + s.len <= r.off
      OBVIOUS
    <3>2. ((r \in cl.reqs /\ r # q) \/ r = e) /\ ((s \in cl.reqs /\ s # q) \/ s = e)
      BY <2>3, Zenon
    <3> QED BY <1>7, <3>1, <3>2, Zenon
  <2>12. \A u : Asked(u) => Asked(u)' \/ u \in Units(q.off, len)
    <3> SUFFICES ASSUME NEW u, NEW r \in cl.reqs, u \in Units(r.off, r.len)
                 PROVE  Asked(u)' \/ u \in Units(q.off, len)
      BY DEF Asked
    <3>1. CASE r # q
      BY <2>3, <3>1 DEF Asked
    <3>2. CASE r = q
      <4>1. u \in Units(q.off, len) \/ u \in Units(e.off, e.len)
        <5>1. PICK o \in Nat, l \in Nat, m \in Nat : o = q.off /\ l = q.len /\ m = len
          BY <2>9
        <5>2. u \in o..(o + l - 1)
          BY <3>2, <5>1 DEF Units
        <5>3. u \in o..(o + m - 1) \/ u \in (o + m)..(o + l - 1)
          BY <5>2
        <5>4. e.off = o + m /\ e.off + e.len = o + l
          BY <2>2, <2>9, <5>1, Zenon
        <5>5. Units(e.off, e.len) = (o + m)..(o + l - 1)
          <6>1. Units(e.off, e.len) = e.off..(e.off + e.len - 1)
            BY Zenon DEF Units
          <6>2. e.off + e.len - 1 = o + l - 1
            <7>1. PICK a \in Nat, b \in Nat : a = e.off /\ b = e.len
              BY <2>2, <2>9, Zenon
            <7>2. a + b = o + l
              BY <5>4, <7>1, Zenon
            <7>3. a + b - 1 = o + l - 1
              BY <7>2
            <7> QED BY <7>1, <7>3, Zenon
          <6> QED BY <5>4, <6>1, <6>2
        <5>6. Units(q.off, len) = o..(o + m - 1)
          BY <5>1 DEF Units
        <5> QED BY <5>3, <5>5, <5>6
      <4> QED BY <2>3, <4>1 DEF Asked
    <3> QED BY <3>1, <3>2
  <2>13. toSrc' \in Seq(Request)
    BY <1>3, <2>2, <2>3
  <2> QED BY <1>1, <1>2, <2>3, <2>6, <2>7, <2>8, <2>10, <2>11, <2>12, <2>13 DEF Settlement
<1> QED BY <1>8, <1>9

\* an answer without data
LEMMA SettlementStatus ==
  ASSUME Types, InFlight, Stage, Reading, NEW q, Answered(q), fromSrc' = Tail(fromSrc),
         cl' \in Transfer, cl'.reqs = cl.reqs \ {q}, cl'.id = cl.id, toSrc' = toSrc
  PROVE  Settlement(q, q.len)
<1>1. /\ conf.dir # "put" /\ Running /\ q \in Request /\ fromSrc' \in Seq(ReadAnswer)
      /\ Settled(cl.reqs, toSrc, fromSrc, q)
      /\ \A j \in DOMAIN fromSrc' : j + 1 \in DOMAIN fromSrc /\ fromSrc'[j] = fromSrc[j + 1]
  BY AnsweredFacts
<1>2. Matched(cl'.reqs, toSrc', fromSrc') /\ num_req' <= NumRequests
  <2>1. /\ Matched(cl.reqs \ {q}, toSrc, fromSrc') /\ Cardinality(cl.reqs) \in Nat
        /\ Cardinality(cl.reqs \ {q}) = Cardinality(cl.reqs) - 1
        /\ Cardinality(cl.reqs) <= NumRequests
    BY <1>1 DEF Settled, Stage, num_req
  <2> QED BY <2>1, Sizes DEF num_req
<1>3. Fresh(cl'.reqs, cl'.id)
  BY DEF InFlight, Fresh
<1>4. /\ \A i \in DOMAIN fromSrc, r \in cl.reqs : r.id = fromSrc[i].id => Fits(r, fromSrc[i])
      /\ \A r \in cl.reqs : r.off + r.len <= cl.offset
      /\ \A r, s \in cl.reqs : r = s \/ r.off + r.len <= s.off \/ s.off + s.len <= r.off
  BY <1>1 DEF Reading
<1>5. \A i \in DOMAIN fromSrc', r \in cl'.reqs : r.id = fromSrc'[i].id => Fits(r, fromSrc'[i])
  BY <1>1, <1>4
<1>6. \A u : Asked(u) => Asked(u)' \/ u \in Units(q.off, q.len)
  BY DEF Asked
<1>7. toSrc' \in Seq(Request)
  BY DEF Types
<1> QED BY <1>1, <1>2, <1>3, <1>4, <1>5, <1>6, <1>7 DEF Settlement

\* the requests and the place of the client after an answer
LEMMA ReplyFlight ==
  ASSUME Types, InFlight, Stage, NEW q, NEW len, conf.dir # "put", cl.pc = "recv",
         Settlement(q, len), UNCHANGED <<conf, interrupted, fromDst>>,
         cl'.pc = "loop", cl'.fatal = cl.fatal, cl'.result = cl.result,
         cl'.num_upload_req = Len(toDst') + Len(fromDst'),
         conf.dir = "get" => cl'.num_upload_req = 0
  PROVE  InFlight' /\ Stage' /\ Writing' /\ Cut' /\ Before'
<1>1. InFlight'
  BY DEF InFlight, Settlement
<1>2. Stage'
  BY DEF Stage, Settlement, num_req
<1>3. Writing' /\ Before'
  BY DEF Writing, Before
<1>4. Cut'
  BY DEF Cut, PrefixLeft, CopyFaithful, Stage
<1> QED BY <1>1, <1>2, <1>3, <1>4

\* "end of file", or an error
LEMMA StatusKeeps ==
  ASSUME IInv, NEW q, Answered(q), fromSrc' = Tail(fromSrc), Head(fromSrc).t # "data",
         cl' = Status(q, Head(fromSrc).t),
         UNCHANGED <<conf, interrupted, dst, toSrc, toDst, fromDst, faults>>
  PROVE  IInv'
<1>0. Types /\ InFlight /\ Stage /\ Reading /\ Marks /\ Writing /\ Cut /\ Before
  BY DEF IInv
<1>1. /\ conf.dir # "put" /\ Running /\ q \in Request /\ Head(fromSrc) \in ReadAnswer
      /\ Fits(q, Head(fromSrc)) /\ q.off + q.len <= cl.offset
  BY <1>0, AnsweredFacts
<1>2. PICK R \in SUBSET Request : R = cl.reqs \ {q}
  BY <1>0 DEF Types, Transfer
<1>3. PICK b \in BOOLEAN : b = (cl.read_error \/ Head(fromSrc).t # "eof")
  OBVIOUS
<1>z. PICK z \in 0..NumRequests : z = 0
  BY Sizes
<1>4. cl' = [cl EXCEPT !.reqs = R, !.max_req = z, !.pc = "loop", !.read_error = b]
  BY <1>2, <1>3, <1>z DEF Status
<1>5. cl' \in Transfer /\ cl'.reqs = R /\ cl'.max_req = 0 /\ cl'.pc = "loop" /\ cl'.read_error = b
  BY <1>0, <1>4, <1>z, ZenonT(60) DEF Types, Transfer, PCs
<1>6. /\ cl'.id = cl.id /\ cl'.offset = cl.offset /\ cl'.num_upload_req = cl.num_upload_req
      /\ SameMarks /\ SameEnd /\ cl'.write_error = cl.write_error /\ cl'.status = cl.status
  BY <1>0, <1>4, ZenonT(60) DEF Types, Transfer, SameMarks, SameEnd
<1>7. Settlement(q, q.len)
  BY <1>0, <1>2, <1>5, <1>6, SettlementStatus
<1>8. Types'
  BY <1>0, <1>7 DEF Types, Settlement
<1>9. InFlight' /\ Stage' /\ Writing' /\ Cut' /\ Before'
  <2>1. /\ cl'.num_upload_req = Len(toDst') + Len(fromDst')
        /\ conf.dir = "get" => cl'.num_upload_req = 0
    BY <1>0, <1>1, <1>6 DEF InFlight
  <2>2. cl.pc = "recv" /\ cl'.fatal = cl.fatal /\ cl'.result = cl.result
    BY <1>6 DEF Answered, SameEnd
  <2> QED BY <1>0, <1>1, <1>5, <1>7, <2>1, <2>2, ReplyFlight
<1>10. Sound' => Sound /\ q.off >= Size
  <2> SUFFICES ASSUME Sound'
               PROVE  Sound /\ q.off >= Size
    OBVIOUS
  <2>1. ~b
    BY <1>5 DEF Sound
  <2>2. ~cl.read_error /\ Head(fromSrc).t = "eof"
    BY <1>3, <2>1
  <2>3. q.off >= Size
    BY <1>1, <2>2 DEF Fits
  <2>4. Sound
    BY <1>6, <2>2 DEF Sound
  <2> QED BY <2>3, <2>4
<1>11. q.off \in Nat /\ q.len \in Nat /\ q.len >= 1 /\ cl.offset \in Nat
  BY <1>0, <1>1, RequestFields, ClientFields, Zenon
<1>12. Reading'
  <2>1. ASSUME Sound', NEW u \in 0..(Size - 1)
        PROVE  u \in dst.good \/ Asked(u)' \/ Sent(u)' \/ u >= cl.offset
    <3>1. u \in dst.good \/ Asked(u) \/ Sent(u) \/ u >= cl.offset
      BY <1>0, <1>1, <1>10, <2>1 DEF Reading
    <3>2. Sent(u)' = Sent(u)
      BY DEF Sent
    <3>3. u \notin Units(q.off, q.len)
      BY <1>10, <1>11, <2>1, Sizes DEF Units
    <3>4. Asked(u) => Asked(u)'
      BY <1>7, <3>3 DEF Settlement
    <3> QED BY <3>1, <3>2, <3>4
  <2>2. Sound' => cl.offset >= Size
    BY <1>1, <1>10, <1>11, Sizes
  <2> QED BY <1>0, <1>1, <1>5, <1>6, <1>7, <2>1, <2>2 DEF Reading, Settlement
<1>13. Marks'
  <2> SUFFICES ASSUME conf.dir = "get"
               PROVE  Marks'
    BY DEF Marks
  <2>1. ~cl.reordered => \A r \in R : r.off >= cl.highwater
    BY <1>0, <1>1, <1>2 DEF Marks
  <2>2. Sound' => Sound
    BY <1>10
  <2> QED BY <1>0, <1>1, <1>5, <1>6, <2>1, <2>2 DEF Marks, SameMarks
<1> QED BY <1>8, <1>9, <1>12, <1>13 DEF IInv

\* data for a crossload is sent on
LEMMA CrossKeeps ==
  ASSUME IInv, NEW q, Answered(q), fromSrc' = Tail(fromSrc), Head(fromSrc).t = "data",
         NEW len, len = Head(fromSrc).len, conf.dir = "cross",
         toDst' = Append(toDst, [id |-> 0, off |-> q.off, len |-> len]),
         Received([cl EXCEPT !.num_upload_req = @ + 1], q, len),
         UNCHANGED <<conf, interrupted, dst, fromDst, faults>>
  PROVE  IInv'
<1>0. Types /\ InFlight /\ Stage /\ Reading /\ Marks /\ Writing /\ Cut /\ Before
  BY DEF IInv
<1>1. /\ conf.dir # "put" /\ Running /\ q \in Request /\ Head(fromSrc) \in ReadAnswer
      /\ Fits(q, Head(fromSrc)) /\ q.off + q.len <= cl.offset
  BY <1>0, AnsweredFacts
<1>2. len \in 1..q.len /\ q.off + len <= Size /\ q.off \in Nat /\ q.len \in 1..Buflen
  BY <1>1 DEF Fits, Request
<1>3. PICK n \in Nat : n = cl.num_upload_req + 1
  <2>1. cl.num_upload_req \in Nat
    BY <1>0 DEF Types, Transfer
  <2>2. cl.num_upload_req + 1 \in Nat
    BY <2>1
  <2> QED BY <2>2, Zenon
<1>4. PICK d : d = [cl EXCEPT !.num_upload_req = n]
  OBVIOUS
<1>5. Received(d, q, len)
  BY <1>3, <1>4
<1>6. /\ d \in Transfer /\ d.reqs = cl.reqs /\ d.id = cl.id /\ d.num_upload_req = n
      /\ d.offset = cl.offset /\ d.max_req = cl.max_req
  BY <1>0, <1>4 DEF Types, Transfer
<1>7. /\ d.read_error = cl.read_error /\ d.write_error = cl.write_error /\ d.status = cl.status
      /\ d.fatal = cl.fatal /\ d.result = cl.result
  BY <1>0, <1>4 DEF Types, Transfer
<1>8. Settlement(q, len) /\ Served(d, q, len, cl')
  BY <1>0, <1>2, <1>5, <1>6, SettlementData
<1>9. PICK e : e = [id |-> 0, off |-> q.off, len |-> len]
  OBVIOUS
<1>10. e \in Request /\ e.off = q.off /\ e.len = len
  BY <1>2, <1>9, Sizes DEF Request
<1>11. /\ toDst' \in Seq(Request) /\ Len(toDst') = Len(toDst) + 1
       /\ \A j \in DOMAIN toDst' : \/ j \in DOMAIN toDst /\ toDst'[j] = toDst[j]
                                   \/ j = Len(toDst) + 1 /\ toDst'[j] = e
       /\ \A j \in DOMAIN toDst : j \in DOMAIN toDst' /\ toDst'[j] = toDst[j]
       /\ Len(toDst) + 1 \in DOMAIN toDst' /\ toDst'[Len(toDst) + 1] = e
  <2>1. toDst \in Seq(Request) /\ toDst' = Append(toDst, e)
    BY <1>0, <1>9 DEF Types
  <2> QED BY <1>10, <2>1
<1>12. Types'
  BY <1>0, <1>8, <1>11 DEF Types, Settlement
<1>13. InFlight' /\ Stage' /\ Writing' /\ Cut' /\ Before'
  <2>1. cl'.num_upload_req = Len(toDst') + Len(fromDst')
    <3>1. cl.num_upload_req = Len(toDst) + Len(fromDst) /\ Len(toDst) \in Nat /\ Len(fromDst) \in Nat
      BY <1>0, <1>1 DEF InFlight, Types
    <3> QED BY <3>1, <1>3, <1>6, <1>8, <1>11 DEF Served
  <2>2. cl.pc = "recv" /\ cl'.pc = "loop" /\ cl'.fatal = cl.fatal /\ cl'.result = cl.result
    BY <1>7, <1>8 DEF Answered, Served
  <2> QED BY <1>0, <1>1, <1>8, <2>1, <2>2, ReplyFlight
<1>14. Sound' = Sound
  BY <1>7, <1>8 DEF Sound, Served
<1>15. Reading'
  <2>1. ASSUME Sound', NEW u \in 0..(Size - 1)
        PROVE  u \in dst.good \/ Asked(u)' \/ Sent(u)' \/ u >= cl.offset
    <3>1. u \in dst.good \/ Asked(u) \/ Sent(u) \/ u >= cl.offset
      BY <1>0, <1>1, <1>14, <2>1 DEF Reading
    <3>2. Sent(u) => Sent(u)'
      BY <1>11 DEF Sent
    <3>3. u \in Units(q.off, len) => Sent(u)'
      BY <1>10, <1>11 DEF Sent
    <3>4. Asked(u) => Asked(u)' \/ u \in Units(q.off, len)
      BY <1>8 DEF Settlement
    <3> QED BY <3>1, <3>2, <3>3, <3>4
  <2>2. \A i \in DOMAIN toDst' : toDst'[i].off + toDst'[i].len <= Size
    BY <1>0, <1>1, <1>2, <1>10, <1>11 DEF Reading
  <2>3. /\ cl'.offset = cl.offset /\ cl'.status = "ok" /\ (~conf.inplace => dst.len <= Size)
        /\ (Sound /\ cl'.max_req = 0 => cl.offset >= Size) /\ cl'.pc = "loop"
    BY <1>0, <1>1, <1>6, <1>7, <1>8 DEF Reading, Served
  <2> QED BY <1>8, <1>14, <2>1, <2>2, <2>3 DEF Reading, Settlement
<1>16. Marks'
  BY DEF Marks
<1> QED BY <1>12, <1>13, <1>15, <1>16 DEF IInv

\* the marks after an answer: below the mark there is no hole, if nothing was reordered
LEMMA MarksMoved ==
  ASSUME Types, InFlight, Stage, Reading, Marks, conf.dir = "get",
         NEW q, Answered(q), fromSrc' = Tail(fromSrc), NEW len \in 1..q.len, q.off + len <= Size,
         NEW d, Marked(cl, q.off, len, d), Settlement(q, len)
  PROVE  /\ d.maxack \in Nat /\ d.highwater \in Nat
         /\ d.maxack <= Size /\ d.maxack <= cl.offset /\ d.highwater <= d.maxack
         /\ q.off + len <= d.maxack /\ cl.maxack <= d.maxack
         /\ ~d.reordered => d.highwater = d.maxack /\ \A r \in cl'.reqs : r.off >= d.highwater
         /\ d.highwater = cl.highwater \/ (cl.highwater = q.off /\ d.highwater = q.off + len)
<1>1. /\ conf.dir # "put" /\ Running /\ q \in Request /\ q.off + q.len <= cl.offset
  BY AnsweredFacts
<1>2. /\ q \in cl.reqs /\ q.off \in Nat /\ q.len \in Nat /\ len \in Nat /\ cl.maxack \in Nat
      /\ cl.highwater \in Nat /\ cl.offset \in Nat /\ cl.reordered \in BOOLEAN
  <2>1. q.off \in Nat /\ q.len \in Nat /\ len \in Nat
    BY <1>1, Sizes DEF Request
  <2>2. /\ cl.maxack \in Nat /\ cl.highwater \in Nat /\ cl.offset \in Nat
        /\ cl.reordered \in BOOLEAN
    BY DEF Types, Transfer
  <2> QED BY <2>1, <2>2 DEF Answered
<1>3. /\ cl.maxack <= Size /\ cl.maxack <= cl.offset /\ cl.highwater <= cl.maxack
      /\ ~cl.reordered => cl.highwater = cl.maxack /\ \A r \in cl.reqs : r.off >= cl.highwater
  BY <1>1 DEF Marks
<1>4. /\ d.maxack = (IF cl.maxack >= q.off + len THEN cl.maxack ELSE q.off + len)
      /\ d.highwater = (IF ~cl.reordered /\ q.off <= cl.highwater THEN d.maxack ELSE cl.highwater)
      /\ d.reordered = (cl.reordered \/ q.off > cl.highwater)
  BY DEF Marked
<1>5. /\ d.maxack \in Nat /\ d.highwater \in Nat /\ d.maxack <= Size /\ d.maxack <= cl.offset
      /\ d.highwater <= d.maxack /\ q.off + len <= d.maxack /\ cl.maxack <= d.maxack
  <2>1. PICK o \in Nat, l \in Nat, m \in Nat, h \in Nat, p \in Nat, n \in Nat :
          /\ o = q.off /\ l = len /\ m = cl.maxack /\ h = cl.highwater /\ p = cl.offset
          /\ n = q.len
    BY <1>2, Zenon
  <2>2. o + l <= Size /\ o + n <= p /\ m <= Size /\ m <= p /\ h <= m
    BY <1>1, <1>3, <2>1, Zenon
  <2>3. l <= n
    BY <2>1
  <2>4. PICK a \in Nat : a = IF m >= o + l THEN m ELSE o + l
    BY <2>1
  <2>5. a <= Size /\ a <= p /\ o + l <= a /\ m <= a
    BY <2>2, <2>3, <2>4, Sizes
  <2>6. d.maxack = a
    BY <1>4, <2>1, <2>4, Zenon
  <2>7. d.highwater = a \/ d.highwater = h
    BY <1>4, <2>1, <2>6, Zenon
  <2>8. h <= a /\ a <= a
    BY <2>2, <2>5
  <2> QED BY <2>1, <2>5, <2>6, <2>7, <2>8, Zenon
<1>6. CASE ~cl.reordered /\ q.off <= cl.highwater
  <2>1. q.off = cl.highwater /\ cl.maxack = q.off /\ d.highwater = d.maxack /\ d.maxack = q.off + len
    BY <1>2, <1>3, <1>4, <1>6
  <2>2. \A r \in cl'.reqs : r.off >= q.off + len
    <3> SUFFICES ASSUME NEW r \in cl'.reqs PROVE r.off >= q.off + len
      OBVIOUS
    <3>1. CASE r \in cl.reqs /\ r # q
      <4>1. q.off + q.len <= r.off \/ r.off + r.len <= q.off
        BY <1>1, <1>2, <3>1 DEF Reading
      <4>2. r.off \in Nat /\ r.len \in Nat /\ r.len >= 1
        <5>1. r \in Request
          BY <3>1 DEF Types, Transfer
        <5> QED BY <5>1, Sizes DEF Request
      <4>3. r.off >= q.off
        BY <1>3, <1>6, <2>1, <3>1
      <4> QED BY <1>2, <4>1, <4>2, <4>3
    <3>2. CASE r.off = q.off + len
      BY <1>2, <3>2
    <3> QED BY <3>1, <3>2 DEF Settlement
  <2> QED BY <1>5, <2>1, <2>2
<1>7. CASE ~(~cl.reordered /\ q.off <= cl.highwater)
  <2>1. cl.reordered \/ q.off > cl.highwater
    BY <1>2, <1>7
  <2>2. d.reordered /\ d.highwater = cl.highwater
    BY <1>4, <1>7, <2>1
  <2> QED BY <1>5, <2>2
<1> QED BY <1>6, <1>7

\* data for a download is written
LEMMA GetKeeps ==
  ASSUME IInv, NEW q, Answered(q), fromSrc' = Tail(fromSrc), Head(fromSrc).t = "data",
         NEW len, len = Head(fromSrc).len, conf.dir = "get", write_local(q, len),
         UNCHANGED <<conf, interrupted, toDst, fromDst>>
  PROVE  IInv'
<1>0. Types /\ InFlight /\ Stage /\ Reading /\ Marks /\ Writing /\ Cut /\ Before
  BY DEF IInv
<1>1. /\ conf.dir # "put" /\ Running /\ q \in Request /\ Head(fromSrc) \in ReadAnswer
      /\ Fits(q, Head(fromSrc)) /\ q.off + q.len <= cl.offset
  BY <1>0, AnsweredFacts
<1>2. len \in 1..q.len /\ q.off + len <= Size /\ q.off \in Nat /\ q.len \in 1..Buflen /\ len \in Nat
      /\ cl \in Transfer /\ cl.offset \in Nat
  BY <1>0, <1>1 DEF Fits, Request, ReadAnswer, Types, Transfer
<1>3. PICK m : m = Acked(cl, q.off, len)
  OBVIOUS
<1>4. Marked(cl, q.off, len, m)
  BY <1>2, <1>3, AckedFacts
<1>5. PICK z \in 0..NumRequests : z = 0
  BY Sizes
<1>6. PICK f : f = [cl EXCEPT !.write_error = TRUE, !.max_req = z]
  OBVIOUS
<1>7. /\ f \in Transfer /\ f.write_error /\ f.max_req = 0 /\ f.reqs = cl.reqs /\ f.id = cl.id
      /\ f.offset = cl.offset
  BY <1>2, <1>5, <1>6 DEF Transfer
<1>8. /\ f.num_upload_req = cl.num_upload_req /\ f.read_error = cl.read_error
      /\ f.status = cl.status /\ f.fatal = cl.fatal /\ f.result = cl.result
      /\ f.maxack = cl.maxack /\ f.highwater = cl.highwater /\ f.reordered = cl.reordered
  BY <1>2, <1>6 DEF Transfer
<1>9. PICK d \in {m, f}, n \in Nat :
        /\ Received(d, q, len) /\ dst' = Write(dst, q.off, q.off, n)
        /\ \/ faults' = faults /\ n = len /\ d = m
           \/ Fault("write") /\ cl.write_error /\ n <= len /\ d = m
           \/ Fault("write") /\ ~cl.write_error /\ n <= len /\ d = f
  <2>1. CASE Works /\ dst' = Write(dst, q.off, q.off, len) /\ Received(m, q, len)
    BY <1>2, <2>1 DEF Works
  <2>2. CASE /\ Fault("write")
             /\ \E n \in 0..(len - 1) : dst' = Write(dst, q.off, q.off, n)
             /\ Received(IF cl.write_error THEN m ELSE f, q, len)
    <3>1. PICK n \in 0..(len - 1) : dst' = Write(dst, q.off, q.off, n)
      BY <2>2
    <3>2. n \in Nat /\ n <= len
      BY <1>2, <3>1
    <3>3. CASE cl.write_error
      <4>1. Received(m, q, len)
        BY <2>2, <3>3
      <4> QED BY <2>2, <3>1, <3>2, <3>3, <4>1
    <3>4. CASE ~cl.write_error
      <4>1. Received(f, q, len)
        BY <2>2, <3>4
      <4> QED BY <2>2, <3>1, <3>2, <3>4, <4>1
    <3> QED BY <3>3, <3>4
  <2> QED BY <1>3, <1>5, <1>6, <2>1, <2>2 DEF write_local
<1>10. /\ d \in Transfer /\ d.reqs = cl.reqs /\ d.id = cl.id /\ d.offset = cl.offset
       /\ d.num_upload_req = cl.num_upload_req /\ d.read_error = cl.read_error
       /\ d.status = cl.status /\ d.fatal = cl.fatal /\ d.result = cl.result
       /\ (d = m => d.write_error = cl.write_error /\ d.max_req = cl.max_req)
  BY <1>4, <1>7, <1>8, <1>9 DEF Marked, LikeButMarks
<1>11. Settlement(q, len) /\ Served(d, q, len, cl')
  BY <1>0, <1>2, <1>9, <1>10, SettlementData
<1>12. Wrote(dst, q.off, n, dst')
  BY <1>0, <1>2, <1>9, WriteFacts DEF Types
<1>13. faults' \in [FaultKinds -> Nat] /\ (faults' = faults \/ faults'["write"] = faults["write"] + 1)
       /\ faults["write"] \in Nat
  <2>1. faults["write"] \in Nat /\ faults \in [FaultKinds -> Nat]
    BY <1>0 DEF Types, FaultKinds
  <2>2. CASE faults' = faults
    BY <2>1, <2>2
  <2>3. CASE Fault("write")
    BY <2>1, <2>3, Counted DEF FaultKinds
  <2> QED BY <1>9, <2>2, <2>3
<1>14. Types'
  BY <1>0, <1>11, <1>12, <1>13 DEF Types, Settlement, Wrote
<1>15. InFlight' /\ Stage' /\ Writing' /\ Cut' /\ Before'
  <2>1. /\ cl'.num_upload_req = Len(toDst') + Len(fromDst')
        /\ conf.dir = "get" => cl'.num_upload_req = 0
    BY <1>0, <1>1, <1>10, <1>11 DEF InFlight, Served
  <2>2. cl.pc = "recv" /\ cl'.pc = "loop" /\ cl'.fatal = cl.fatal /\ cl'.result = cl.result
    BY <1>10, <1>11 DEF Answered, Served
  <2> QED BY <1>0, <1>1, <1>11, <2>1, <2>2, ReplyFlight
<1>16. Sound' => Sound /\ n = len /\ d = m /\ faults' = faults
  <2> SUFFICES ASSUME Sound'
               PROVE  Sound /\ n = len /\ d = m /\ faults' = faults
    OBVIOUS
  <2>1. ~d.write_error /\ ~d.read_error
    BY <1>11 DEF Sound, Served
  <2>2. d = m /\ ~cl.write_error
    BY <1>7, <1>9, <1>10, <2>1
  <2>3. n = len /\ faults' = faults
    <3>1. CASE Fault("write") /\ ~cl.write_error /\ d = f
      BY <1>7, <2>1, <3>1
    <3> QED BY <1>9, <2>2, <3>1
  <2> QED BY <1>10, <2>1, <2>2, <2>3 DEF Sound
<1>17. dst.len \in Nat /\ dst'.good = dst.good \cup (q.off..(q.off + n - 1)) /\ n <= len
  BY <1>0, <1>2, <1>9, <1>12 DEF Types, File, Wrote
<1>18. Reading'
  <2>1. ASSUME Sound', NEW u \in 0..(Size - 1)
        PROVE  u \in dst'.good \/ Asked(u)' \/ Sent(u)' \/ u >= cl.offset
    <3>1. u \in dst.good \/ Asked(u) \/ Sent(u) \/ u >= cl.offset
      BY <1>0, <1>1, <1>16, <2>1 DEF Reading
    <3>2. Sent(u)' = Sent(u)
      BY DEF Sent
    <3>3. u \in dst.good \/ u \in Units(q.off, len) => u \in dst'.good
      BY <1>16, <1>17, <2>1 DEF Units
    <3>4. Asked(u) => Asked(u)' \/ u \in Units(q.off, len)
      BY <1>11 DEF Settlement
    <3> QED BY <3>1, <3>2, <3>3, <3>4
  <2>2. ~conf.inplace => dst'.len <= Size
    <3>1. ~conf.inplace => dst.len <= Size
      BY <1>0, <1>1 DEF Reading
    <3> QED BY <1>2, <1>12, <1>17, <3>1, Sizes DEF Wrote
  <2>3. Sound' /\ cl'.max_req = 0 => cl.offset >= Size
    BY <1>0, <1>1, <1>10, <1>11, <1>16 DEF Reading, Served
  <2>4. cl'.offset = cl.offset /\ cl'.status = "ok" /\ cl'.pc = "loop"
    BY <1>0, <1>1, <1>10, <1>11 DEF Reading, Served
  <2>5. \A i \in DOMAIN toDst : toDst[i].off + toDst[i].len <= Size
    BY <1>0, <1>1 DEF Reading
  <2> QED BY <1>11, <2>1, <2>2, <2>3, <2>4, <2>5 DEF Reading, Settlement
<1>19. Marks'
  <2>m. /\ cl.maxack \in Nat /\ cl.highwater \in Nat
        /\ cl.maxack <= Size /\ cl.maxack <= cl.offset /\ cl.highwater <= cl.maxack
        /\ ~cl.reordered => cl.highwater = cl.maxack /\ \A r \in cl.reqs : r.off >= cl.highwater
        /\ cl.write_error => faults["write"] >= 1
        /\ faults["write"] <= 1 => Units(0, cl.highwater) \subseteq dst.good
        /\ conf.inplace /\ Sound => dst.good \subseteq 0..(cl.maxack - 1)
    BY <1>0, <1>1 DEF Marks, Types, Transfer
  <2>1. /\ m.maxack \in Nat /\ m.highwater \in Nat
        /\ m.maxack <= Size /\ m.maxack <= cl.offset /\ m.highwater <= m.maxack
        /\ q.off + len <= m.maxack /\ cl.maxack <= m.maxack
        /\ ~m.reordered => m.highwater = m.maxack /\ \A r \in cl'.reqs : r.off >= m.highwater
        /\ m.highwater = cl.highwater \/ (cl.highwater = q.off /\ m.highwater = q.off + len)
    BY <1>0, <1>2, <1>4, <1>11, MarksMoved
  <2>2. /\ cl'.pc = "loop" /\ cl'.offset = cl.offset /\ cl'.maxack = d.maxack
        /\ cl'.highwater = d.highwater /\ cl'.reordered = d.reordered
        /\ cl'.write_error = d.write_error
    BY <1>10, <1>11 DEF Served
  <2>3. CASE faults' = faults /\ n = len /\ d = m
    <3>1. faults["write"] <= 1 => Units(0, m.highwater) \subseteq dst'.good
      <4> SUFFICES ASSUME faults["write"] <= 1
                   PROVE  0..(m.highwater - 1) \subseteq dst'.good
        BY <2>1 DEF Units
      <4>1. 0..(cl.highwater - 1) \subseteq dst.good
        BY <2>m DEF Units
      <4>2. CASE m.highwater = cl.highwater
        BY <1>17, <4>1, <4>2
      <4>3. CASE cl.highwater = q.off /\ m.highwater = q.off + len
        BY <1>2, <1>17, <2>3, <4>1, <4>3
      <4> QED BY <2>1, <4>2, <4>3
    <3>2. conf.inplace /\ Sound => dst'.good \subseteq 0..(m.maxack - 1)
      <4> SUFFICES ASSUME conf.inplace, Sound
                   PROVE  dst'.good \subseteq 0..(m.maxack - 1)
        OBVIOUS
      <4>1. dst.good \subseteq 0..(cl.maxack - 1)
        BY <2>m
      <4>2. 0..(cl.maxack - 1) \subseteq 0..(m.maxack - 1)
        BY <2>m, <2>1
      <4>3. q.off..(q.off + n - 1) \subseteq 0..(m.maxack - 1)
        <5>1. PICK a \in Nat, b \in Nat : a = q.off /\ b = m.maxack
          BY <1>2, <2>1
        <5>2. a + n <= b /\ n \in Nat
          BY <1>2, <2>1, <2>3, <5>1
        <5>3. a..(a + n - 1) \subseteq 0..(b - 1)
          BY <5>2
        <5> QED BY <5>1, <5>3
      <4> QED BY <1>17, <4>1, <4>2, <4>3
    <3> QED BY <1>10, <1>16, <2>m, <2>1, <2>2, <2>3, <3>1, <3>2 DEF Marks
  <2>4. CASE Fault("write") /\ cl.write_error /\ d = m
    <3>1. faults'["write"] \in Nat /\ ~(faults'["write"] <= 1) /\ faults'["write"] >= 1
      <4>1. faults'["write"] = faults["write"] + 1
        BY <1>0, <2>4, Counted DEF Types, FaultKinds
      <4> QED BY <1>13, <2>m, <2>4, <4>1
    <3>2. ~Sound'
      BY <1>10, <2>2, <2>4 DEF Sound
    <3> QED BY <2>1, <2>2, <2>4, <3>1, <3>2 DEF Marks
  <2>5. CASE Fault("write") /\ ~cl.write_error /\ d = f
    <3>1. faults'["write"] \in Nat /\ faults'["write"] >= 1 /\ (faults'["write"] <= 1 => faults["write"] <= 1)
      <4>1. faults'["write"] = faults["write"] + 1
        BY <1>0, <2>5, Counted DEF Types, FaultKinds
      <4> QED BY <1>13, <4>1
    <3>2. ~Sound'
      BY <1>7, <2>2, <2>5 DEF Sound
    <3>3. faults'["write"] <= 1 => Units(0, cl.highwater) \subseteq dst'.good
      BY <1>17, <2>m, <3>1
    <3>4. ~cl.reordered => \A r \in cl'.reqs : r.off >= cl.highwater
      <4> SUFFICES ASSUME ~cl.reordered, NEW r \in cl'.reqs
                   PROVE  r.off >= cl.highwater
        OBVIOUS
      <4>1. r \in cl.reqs \/ r.off = q.off + len
        BY <1>11 DEF Settlement
      <4>2. q \in cl.reqs
        BY DEF Answered
      <4> QED BY <1>2, <2>m, <4>1, <4>2
    <3> QED BY <1>8, <2>m, <2>2, <2>5, <3>1, <3>2, <3>3, <3>4 DEF Marks
  <2> QED BY <1>9, <2>3, <2>4, <2>5
<1> QED BY <1>14, <1>15, <1>18, <1>19 DEF IInv

\* an answer of the source
LEMMA ReadReplyKeeps ==
  ASSUME IInv, ReadReply
  PROVE  IInv'
<1>0. Types /\ InFlight /\ Stage
  BY DEF IInv
<1>1. /\ cl.pc = "recv" /\ fromSrc # <<>> /\ fromSrc' = Tail(fromSrc)
      /\ UNCHANGED <<conf, interrupted, fromDst>>
  BY DEF ReadReply
<1>2. PICK r : r = Head(fromSrc)
  OBVIOUS
<1>3. \E q \in cl.reqs : q.id = r.id
  <2>1. conf.dir # "put"
    BY <1>0, <1>1 DEF Stage
  <2>2. Matched(cl.reqs, toSrc, fromSrc) /\ 1 \in DOMAIN fromSrc /\ r = fromSrc[1]
    BY <1>0, <1>1, <1>2, <2>1 DEF InFlight, Types
  <2> QED BY <2>2 DEF Matched
<1>4. PICK q \in cl.reqs :
        /\ q.id = r.id
        /\ \/ r.t = "data" /\ Data(q, r.len)
           \/ r.t # "data" /\ cl' = Status(q, r.t) /\ Works /\ UNCHANGED <<dst, toSrc, toDst>>
  <2>1. request_find(r.id) # {}
    BY <1>3 DEF request_find
  <2>2. PICK q \in request_find(r.id) :
          \/ r.t = "data" /\ Data(q, r.len)
          \/ r.t # "data" /\ cl' = Status(q, r.t) /\ Works /\ UNCHANGED <<dst, toSrc, toDst>>
    BY <1>2, <2>1 DEF ReadReply
  <2> QED BY <2>2 DEF request_find
<1>5. Answered(q)
  BY <1>1, <1>2, <1>4 DEF Answered
<1>6. CASE r.t # "data" /\ cl' = Status(q, r.t) /\ Works /\ UNCHANGED <<dst, toSrc, toDst>>
  BY <1>1, <1>2, <1>5, <1>6, StatusKeeps DEF Works
<1>7. CASE r.t = "data" /\ conf.dir = "get" /\ write_local(q, r.len) /\ UNCHANGED toDst
  BY <1>1, <1>2, <1>5, <1>7, GetKeeps
<1>8. CASE /\ r.t = "data" /\ conf.dir = "cross"
           /\ toDst' = Append(toDst, [id |-> 0, off |-> q.off, len |-> r.len])
           /\ Received([cl EXCEPT !.num_upload_req = @ + 1], q, r.len)
           /\ Works /\ UNCHANGED dst
  BY <1>1, <1>2, <1>5, <1>8, CrossKeeps DEF Works
<1> QED BY <1>4, <1>6, <1>7, <1>8 DEF Data

-----------------------------------------------------------------------------
(* The client: writing.                                                     *)

\* w is the transfer k after a piece was sent: its counters move, nothing else does
Pieced(k, i, n, o, R, p, w) ==
  /\ w \in Transfer /\ w.id = i /\ w.sent = n /\ w.offset = o /\ w.reqs = R /\ w.pc = p
  /\ w.maxack = k.maxack /\ w.highwater = k.highwater /\ w.reordered = k.reordered
  /\ w.read_error = k.read_error /\ w.write_error = k.write_error /\ w.status = k.status
  /\ w.fatal = k.fatal /\ w.everything = k.everything /\ w.result = k.result
  /\ w.acked = k.acked /\ w.num_upload_req = k.num_upload_req

\* what a client that sends a piece remembers
LEMMA PieceSent ==
  ASSUME NEW k \in Transfer, NEW i \in Nat, NEW n \in Nat, NEW o \in Nat, NEW R \in SUBSET Request,
         NEW p \in {"ack", "loop"}, NEW w,
         w = [k EXCEPT !.id = i, !.sent = n, !.offset = o, !.reqs = R, !.pc = p]
  PROVE  Pieced(k, i, n, o, R, p, w)
<1>1. PICK v : v = [k EXCEPT !.id = i, !.sent = n]
  OBVIOUS
<1>2. /\ v \in Transfer /\ v.id = i /\ v.sent = n
  BY <1>1 DEF Transfer
<1>3. /\ v.maxack = k.maxack /\ v.highwater = k.highwater /\ v.reordered = k.reordered
      /\ v.read_error = k.read_error /\ v.write_error = k.write_error /\ v.status = k.status
      /\ v.fatal = k.fatal /\ v.everything = k.everything /\ v.result = k.result
      /\ v.acked = k.acked /\ v.num_upload_req = k.num_upload_req
  BY <1>1 DEF Transfer
<1>4. w = [v EXCEPT !.offset = o, !.reqs = R, !.pc = p]
  BY <1>1
<1>5. /\ w \in Transfer /\ w.id = i /\ w.sent = n /\ w.offset = o /\ w.reqs = R /\ w.pc = p
  BY <1>2, <1>4, ZenonT(60) DEF Transfer, PCs
<1>6. /\ w.maxack = v.maxack /\ w.highwater = v.highwater /\ w.reordered = v.reordered
      /\ w.read_error = v.read_error /\ w.write_error = v.write_error /\ w.status = v.status
      /\ w.fatal = v.fatal /\ w.everything = v.everything /\ w.result = v.result
      /\ w.acked = v.acked /\ w.num_upload_req = v.num_upload_req
  BY <1>2, <1>4 DEF Transfer
<1> QED BY <1>3, <1>5, <1>6 DEF Pieced

\* the next piece is sent
LEMMA WriteSendKeeps ==
  ASSUME IInv, cl.pc = "loop", conf.dir = "put", NEW len, len = LocalRead, len > 0,
         toDst' = Append(toDst, [id |-> cl.id + 1, off |-> cl.offset, len |-> len]),
         cl' = [cl EXCEPT !.id = @ + 1, !.sent = @ + 1, !.offset = @ + len,
                          !.reqs = @ \cup {[id |-> cl.id + 1, off |-> cl.offset, len |-> len]},
                          !.pc = IF MustWait(len, cl.sent + 1) THEN "ack" ELSE "loop"],
         UNCHANGED <<conf, interrupted, dst, toSrc, fromSrc, fromDst, faults>>
  PROVE  IInv'
<1>0. Types /\ InFlight /\ Stage /\ Reading /\ Marks /\ Writing /\ Cut /\ Before
  BY DEF IInv
<1>1. /\ cl.reqs \in SUBSET Request /\ cl.id \in Nat /\ cl.offset \in Nat /\ cl.sent \in Nat
      /\ cl.acked \in Nat /\ cl.maxack \in Nat /\ Running
  BY <1>0 DEF Types, Transfer, Running
<1>w. /\ cl.offset <= Size /\ ~cl.read_error /\ ~cl.write_error
      /\ \A r \in cl.reqs : r.off + r.len <= cl.offset
      /\ conf.inplace => cl.maxack <= cl.offset
  BY <1>0, <1>1 DEF Writing
<1>2. len \in 1..Buflen /\ cl.offset + len <= Size /\ ~interrupted /\ cl.status = "ok"
  <2>1. PICK a \in Int, b \in Int : a = Buflen /\ b = Size - cl.offset
    BY <1>1, Sizes
  <2>2. Min({a, b}) = IF a <= b THEN a ELSE b
    BY MinTwo
  <2>3. ~interrupted /\ cl.status = "ok" /\ len = Min({a, b})
    BY <2>1 DEF LocalRead
  <2>4. PICK c \in Nat, z \in Nat : c = cl.offset /\ z = Size
    BY <1>1, Sizes, Zenon
  <2>5. b = z - c /\ len = IF a <= b THEN a ELSE b
    BY <2>1, <2>2, <2>3, <2>4, Zenon
  <2>6. len \in 1..a /\ c + len <= z
    BY <2>5
  <2> QED BY <2>1, <2>3, <2>4, <2>6, Zenon
<1>3. PICK i \in Nat, n \in Nat, o \in Nat : i = cl.id + 1 /\ n = cl.sent + 1 /\ o = cl.offset + len
  <2>1. cl.id + 1 \in Nat /\ cl.sent + 1 \in Nat
    BY <1>1
  <2>2. cl.offset + len \in Nat
    <3>1. PICK a \in Nat : a = cl.offset
      BY <1>1, Zenon
    <3>2. a + len \in Nat
      BY <1>2, Sizes
    <3> QED BY <3>1, <3>2, Zenon
  <2> QED BY <2>1, <2>2, Zenon
<1>4. PICK e \in Request : e = [id |-> cl.id + 1, off |-> cl.offset, len |-> len]
  BY <1>1, <1>2, <1>3 DEF Request
<1>5. e.id = i /\ e.off = cl.offset /\ e.len = len
  BY <1>3, <1>4
<1>6. PICK R \in SUBSET Request : R = cl.reqs \cup {e}
  BY <1>1
<1>7. PICK p \in {"ack", "loop"} : p = IF MustWait(len, cl.sent + 1) THEN "ack" ELSE "loop"
  OBVIOUS
<1>8. cl' = [cl EXCEPT !.id = i, !.sent = n, !.offset = o, !.reqs = R, !.pc = p]
  <2>1. cl.reqs \cup {[id |-> cl.id + 1, off |-> cl.offset, len |-> len]} = R
    BY <1>4, <1>6, Zenon
  <2>2. cl.id + 1 = i /\ cl.sent + 1 = n /\ cl.offset + len = o
    BY <1>3, Zenon
  <2>3. (IF MustWait(len, cl.sent + 1) THEN "ack" ELSE "loop") = p
    BY <1>7
  <2>4. cl' = [cl EXCEPT !.id = cl.id + 1, !.sent = cl.sent + 1, !.offset = cl.offset + len,
                         !.reqs = R, !.pc = p]
    BY <2>1, <2>3, Zenon
  <2> QED BY <2>2, <2>4, Zenon
<1>k. cl \in Transfer
  BY <1>0 DEF Types
<1>p. Pieced(cl, i, n, o, R, p, cl')
  <2>1. PICK k \in Transfer : k = cl
    BY <1>k, Zenon
  <2>1a. PICK w : w = cl'
    OBVIOUS
  <2>2. w = [k EXCEPT !.id = i, !.sent = n, !.offset = o, !.reqs = R, !.pc = p]
    BY <1>8, <2>1, <2>1a, Zenon
  <2>3. Pieced(k, i, n, o, R, p, w)
    BY <2>2, PieceSent, Zenon
  <2> QED BY <2>1, <2>1a, <2>3, Zenon
<1>9. /\ cl' \in Transfer /\ cl'.id = i /\ cl'.sent = n /\ cl'.offset = o /\ cl'.reqs = R /\ cl'.pc = p
  BY <1>p, Zenon DEF Pieced
<1>10. /\ SameMarks /\ SameErrors /\ SameEnd /\ cl'.acked = cl.acked
       /\ cl'.num_upload_req = cl.num_upload_req
  <2>1. /\ cl'.maxack = cl.maxack /\ cl'.highwater = cl.highwater /\ cl'.reordered = cl.reordered
        /\ cl'.read_error = cl.read_error /\ cl'.write_error = cl.write_error
        /\ cl'.status = cl.status /\ cl'.fatal = cl.fatal /\ cl'.everything = cl.everything
        /\ cl'.result = cl.result /\ cl'.acked = cl.acked
        /\ cl'.num_upload_req = cl.num_upload_req
    BY <1>p, Zenon DEF Pieced
  <2> QED BY <2>1 DEF SameMarks, SameErrors, SameEnd
<1>11. /\ toDst \in Seq(Request) /\ toDst' = Append(toDst, e) /\ fromDst \in Seq(WriteAnswer)
  BY <1>0, <1>4 DEF Types
<1>12. /\ toDst' \in Seq(Request) /\ Len(toDst') = Len(toDst) + 1 /\ Len(toDst) \in Nat
       /\ \A j \in DOMAIN toDst : j \in DOMAIN toDst' /\ toDst'[j] = toDst[j]
       /\ Len(toDst) + 1 \in DOMAIN toDst' /\ toDst'[Len(toDst) + 1] = e
       /\ DOMAIN toDst' = 1..(Len(toDst) + 1) /\ DOMAIN toDst = 1..Len(toDst)
  BY <1>11
<1>13. Types'
  BY <1>0, <1>9, <1>12 DEF Types
<1>14. \A r \in cl.reqs : r.id \in Nat /\ r.id <= cl.id /\ r.off \in Nat /\ r.len \in Nat
  <2> SUFFICES ASSUME NEW r \in cl.reqs
               PROVE  r.id \in Nat /\ r.id <= cl.id /\ r.off \in Nat /\ r.len \in Nat
    OBVIOUS
  <2>1. r \in Request
    BY <1>1
  <2>2. r.id \in Nat /\ r.off \in Nat /\ r.len \in Nat
    BY <2>1, RequestFields, Zenon
  <2> QED BY <1>0, <2>2 DEF InFlight, Fresh
<1>15. Joined(cl.reqs, toDst, fromDst, e)
  <2>1. Newer(cl.reqs, e)
    BY <1>1, <1>3, <1>5, <1>14 DEF Newer
  <2>2. Matched(cl.reqs, toDst, fromDst)
    BY <1>0 DEF InFlight
  <2> QED BY <1>1, <1>11, <2>1, <2>2, MatchedMore
<1>16. Matched(R, toDst', fromDst') /\ num_req \in Nat /\ num_req' = num_req + 1
  BY <1>6, <1>9, <1>11, <1>15 DEF Joined, num_req
<1>17. InFlight'
  <2>1. \A r \in R : r.id <= i
    BY <1>1, <1>3, <1>5, <1>6, <1>14
  <2>2. \A r, s \in R : r.id = s.id => r = s
    <3>1. \A r, s \in cl.reqs : r.id = s.id => r = s
      BY <1>0 DEF InFlight, Fresh
    <3>2. \A r \in cl.reqs : r.id # e.id
      BY <1>1, <1>3, <1>5, <1>14
    <3> QED BY <1>6, <3>1, <3>2
  <2> QED BY <1>0, <1>9, <1>10, <1>16, <2>1, <2>2 DEF InFlight, Fresh
<1>18. Stage'
  <2>1. num_req = cl.sent - cl.acked /\ num_req <= NumRequests
    BY <1>0, Sizes DEF Stage
  <2>2. num_req' = n - cl.acked
    <3>1. PICK a \in Nat, b \in Nat : a = cl.sent /\ b = cl.acked
      BY <1>1
    <3>2. num_req = a - b /\ n = a + 1
      BY <1>3, <2>1, <3>1
    <3>3. num_req' = num_req + 1
      BY <1>16
    <3>4. num_req' = n - b
      BY <3>2, <3>3
    <3> QED BY <3>1, <3>4
  <2>3. p = "loop" => num_req' <= NumRequests
    <3> SUFFICES ASSUME p = "loop"
                 PROVE  num_req' <= NumRequests
      OBVIOUS
    <3>1. ~((cl.sent + 1) - cl.acked - 1 >= NumRequests)
      BY <1>7 DEF MustWait
    <3>2. PICK a \in Nat, b \in Nat, k \in Nat : a = cl.sent /\ b = cl.acked /\ k = num_req
      BY <1>1, <1>16, Zenon
    <3>3. ~((a + 1) - b - 1 >= NumRequests) /\ k = a - b
      BY <2>1, <3>1, <3>2, Zenon
    <3>4. k + 1 <= NumRequests
      <4>1. PICK z \in Nat : z = NumRequests
        BY Sizes
      <4>2. ~((a + 1) - b - 1 >= z) /\ k = a - b
        BY <3>3, <4>1, Zenon
      <4>3. k + 1 <= z
        BY <4>2
      <4> QED BY <4>1, <4>3, Zenon
    <3>5. num_req' = k + 1
      BY <1>16, <3>2, Zenon
    <3> QED BY <3>4, <3>5, Zenon
  <2>4. num_req' <= NumRequests + 1
    <3>1. PICK k \in Nat : k = num_req
      BY <1>16, Zenon
    <3>2. k <= NumRequests /\ num_req' = k + 1
      BY <1>16, <2>1, <3>1, Zenon
    <3> QED BY <3>2, Sizes
  <2> QED BY <1>0, <1>9, <1>10, <2>2, <2>3, <2>4, Sizes DEF Stage, SameEnd
<1>19. Writing'
  <2>1. \A r \in R : r.off + r.len <= o
    BY <1>1, <1>2, <1>3, <1>5, <1>6, <1>14, <1>w
  <2>2. e \in R /\ e.off + e.len = o
    BY <1>3, <1>5, <1>6
  <2>3. o <= Size /\ (conf.inplace => cl.maxack <= o)
    BY <1>1, <1>2, <1>3, <1>w
  <2>4. ASSUME faults["write"] = 0
        PROVE  /\ cl.status = "ok" /\ \A j \in DOMAIN fromDst : fromDst[j].ok
               /\ \A j \in DOMAIN toDst' : j + 1 \in DOMAIN toDst' =>
                    toDst'[j + 1].off = toDst'[j].off + toDst'[j].len
               /\ toDst'[Len(toDst')].off + toDst'[Len(toDst')].len = o
               /\ Units(0, Stands') \subseteq dst.good /\ (~conf.inplace => dst.len = Stands')
    <3>1. /\ cl.status = "ok" /\ \A j \in DOMAIN fromDst : fromDst[j].ok
          /\ \A j \in DOMAIN toDst : j + 1 \in DOMAIN toDst =>
               toDst[j + 1].off = toDst[j].off + toDst[j].len
          /\ toDst # <<>> => toDst[Len(toDst)].off + toDst[Len(toDst)].len = cl.offset
          /\ Units(0, Stands) \subseteq dst.good /\ (~conf.inplace => dst.len = Stands)
      BY <1>0, <1>1, <2>4 DEF Writing
    <3>2. Stands' = Stands
      <4>1. CASE toDst = <<>>
        <5>1. toDst' # <<>> /\ toDst'[1] = e
          BY <1>12, <4>1
        <5> QED BY <1>5, <4>1, <5>1 DEF Stands
      <4>2. CASE toDst # <<>>
        <5>1. 1 \in DOMAIN toDst /\ toDst' # <<>>
          BY <1>11, <1>12, <4>2
        <5> QED BY <1>12, <4>2, <5>1 DEF Stands
      <4> QED BY <4>1, <4>2
    <3>3. ASSUME NEW j \in DOMAIN toDst', j + 1 \in DOMAIN toDst'
          PROVE  toDst'[j + 1].off = toDst'[j].off + toDst'[j].len
      <4>1. CASE j + 1 \in DOMAIN toDst
        <5>1. j \in DOMAIN toDst
          BY <1>12, <3>3, <4>1
        <5> QED BY <1>12, <3>1, <4>1, <5>1
      <4>2. CASE j + 1 \notin DOMAIN toDst
        <5>1. j = Len(toDst) /\ j \in DOMAIN toDst
          BY <1>12, <3>3, <4>2
        <5>2. toDst # <<>>
          BY <5>1
        <5> QED BY <1>5, <1>12, <3>1, <5>1, <5>2
      <4> QED BY <4>1, <4>2
    <3>4. toDst'[Len(toDst')].off + toDst'[Len(toDst')].len = o
      BY <1>12, <2>2
    <3> QED BY <3>1, <3>2, <3>3, <3>4
  <2> QED BY <1>9, <1>10, <1>w, <2>1, <2>2, <2>3, <2>4 DEF Writing, SameMarks, SameErrors
<1>20. Reading' /\ Marks' /\ Before' /\ Cut'
  BY <1>0, <1>9, <1>10 DEF Reading, Marks, Before, Cut, PrefixLeft, CopyFaithful, Stage, SameEnd
<1> QED BY <1>13, <1>17, <1>18, <1>19, <1>20 DEF IInv

\* the loop of sftp_upload()
LEMMA WriteLoopKeeps ==
  ASSUME IInv, WriteLoop
  PROVE  IInv'
<1>0. Types /\ InFlight /\ Stage /\ Reading /\ Marks /\ Writing /\ Cut /\ Before
  BY DEF IInv
<1>1. /\ cl.pc = "loop" /\ conf.dir = "put" /\ Running /\ cl.result = "busy"
      /\ UNCHANGED <<conf, interrupted, dst, toSrc, fromSrc, fromDst, faults>>
  BY <1>0 DEF WriteLoop, Running, Stage
<1>2. PICK len \in {LocalRead} :
       \/ /\ len > 0
          /\ toDst' = Append(toDst, [id |-> cl.id + 1, off |-> cl.offset, len |-> len])
          /\ cl' = [cl EXCEPT !.id = @ + 1, !.sent = @ + 1, !.offset = @ + len,
                              !.reqs = @ \cup {[id |-> cl.id + 1, off |-> cl.offset, len |-> len]},
                              !.pc = IF MustWait(len, cl.sent + 1) THEN "ack" ELSE "loop"]
       \/ /\ len = 0
          /\ cl' = [cl EXCEPT !.pc = IF cl.reqs = {} THEN "check" ELSE "ack"]
          /\ UNCHANGED toDst
  BY DEF WriteLoop
<1>3. CASE /\ len > 0
           /\ toDst' = Append(toDst, [id |-> cl.id + 1, off |-> cl.offset, len |-> len])
           /\ cl' = [cl EXCEPT !.id = @ + 1, !.sent = @ + 1, !.offset = @ + len,
                               !.reqs = @ \cup {[id |-> cl.id + 1, off |-> cl.offset, len |-> len]},
                               !.pc = IF MustWait(len, cl.sent + 1) THEN "ack" ELSE "loop"]
  BY <1>1, <1>2, <1>3, WriteSendKeeps
<1>4. CASE /\ len = 0 /\ cl' = [cl EXCEPT !.pc = IF cl.reqs = {} THEN "check" ELSE "ack"]
           /\ UNCHANGED toDst
  <2>1. PICK p \in PCs : p = IF cl.reqs = {} THEN "check" ELSE "ack"
    BY DEF PCs
  <2>2. cl' = [cl EXCEPT !.pc = p]
    BY <1>4, <2>1
  <2>3. cl' \in Transfer /\ cl'.pc = p /\ SameRequests /\ SamePlan /\ SameMarks /\ SameErrors /\ SameEnd
    BY <1>0, <2>2, Moved DEF Types
  <2>4. Types'
    BY <1>0, <1>1, <1>4, <2>3 DEF Types
  <2>5. InFlight'
    BY <1>0, <1>1, <1>4, <2>3 DEF InFlight, SameRequests
  <2>6. Stage'
    <3>1. num_req' = num_req /\ num_req = cl.sent - cl.acked /\ num_req <= NumRequests
      BY <1>0, <1>1, <2>3, Sizes DEF Stage, SameRequests, num_req
    <3>2. num_req \in Nat
      BY <1>0, <1>1, FS_CardinalityType DEF InFlight, Matched, num_req
    <3>3. num_req <= NumRequests + (IF p = "ack" THEN 1 ELSE 0)
      BY <3>1, <3>2, Sizes
    <3>4. cl'.reqs = cl.reqs /\ cl'.sent = cl.sent /\ cl'.acked = cl.acked
          /\ cl'.num_upload_req = cl.num_upload_req /\ cl'.fatal = cl.fatal /\ cl'.result = cl.result
      BY <2>3 DEF SameRequests, SamePlan, SameEnd
    <3>5. cl.num_upload_req = 0 /\ cl.fatal = "none"
      BY <1>0, <1>1 DEF InFlight, Stage
    <3>6. p = "check" => cl.reqs = {}
      BY <2>1
    <3> QED BY <1>1, <2>1, <2>3, <3>1, <3>3, <3>4, <3>5, <3>6 DEF Stage
  <2>7. faults["write"] = 0 /\ ~interrupted => cl.offset = Size
    <3> SUFFICES ASSUME faults["write"] = 0, ~interrupted
                 PROVE  cl.offset = Size
      OBVIOUS
    <3>1. cl.offset <= Size /\ cl.status = "ok" /\ cl.offset \in Nat
      BY <1>0, <1>1 DEF Writing, Types, Transfer
    <3>2. PICK a \in Int, b \in Int : a = Buflen /\ b = Size - cl.offset
      BY <3>1, Sizes
    <3>3. Min({a, b}) = IF a <= b THEN a ELSE b
      BY MinTwo
    <3>4. Min({a, b}) = 0
      BY <1>2, <1>4, <3>1, <3>2 DEF LocalRead
    <3> QED BY <3>1, <3>2, <3>3, <3>4, Sizes
  <2>8. Writing'
    <3>1. Stands' = Stands
      BY <1>4, <2>3 DEF Stands, SamePlan
    <3> QED BY <1>0, <1>1, <1>4, <2>1, <2>3, <2>7, <3>1 DEF Writing, SameRequests, SamePlan, SameErrors, SameMarks
  <2>9. Reading' /\ Marks' /\ Before' /\ Cut'
    BY <1>1, <2>1, <2>3 DEF Reading, Marks, Before, Cut, PrefixLeft, CopyFaithful, SameEnd
  <2> QED BY <2>4, <2>5, <2>6, <2>8, <2>9 DEF IInv
<1> QED BY <1>2, <1>3, <1>4

\* an answer of the destination
LEMMA WriteReplyKeeps ==
  ASSUME IInv, WriteReply
  PROVE  IInv'
<1>0. Types /\ InFlight /\ Stage /\ Reading /\ Marks /\ Writing /\ Cut /\ Before
  BY DEF IInv
<1>1. /\ cl.pc = "ack" /\ conf.dir = "put" /\ Running /\ cl.result = "busy" /\ fromDst # <<>>
      /\ fromDst' = Tail(fromDst)
      /\ UNCHANGED <<conf, interrupted, dst, toSrc, fromSrc, toDst, faults>>
  BY <1>0 DEF WriteReply, Running, Stage
<1>2. PICK r : r = Head(fromDst)
  OBVIOUS
<1>3. /\ fromDst \in Seq(WriteAnswer) /\ toDst \in Seq(Request) /\ cl.reqs \in SUBSET Request
      /\ Matched(cl.reqs, toDst, fromDst) /\ Fresh(cl.reqs, cl.id)
  BY <1>0, <1>1 DEF Types, Transfer, InFlight
<1>4. /\ fromDst' \in Seq(WriteAnswer) /\ Len(fromDst') = Len(fromDst) - 1
      /\ r = fromDst[1] /\ r \in WriteAnswer /\ 1 \in DOMAIN fromDst
      /\ \A j \in DOMAIN fromDst' : j + 1 \in DOMAIN fromDst /\ fromDst'[j] = fromDst[j + 1]
  BY <1>1, <1>2, <1>3, Taken
<1>5. PICK q \in cl.reqs :
        /\ q.id = r.id
        /\ cl' = [Acked(cl, q.off, q.len) EXCEPT !.reqs = @ \ {q}, !.acked = @ + 1, !.pc = "loop",
                                                 !.status = IF r.ok THEN "ok" ELSE "failed"]
  <2>1. \E q \in cl.reqs : q.id = r.id
    BY <1>3, <1>4 DEF Matched
  <2>2. request_find(r.id) # {}
    BY <2>1 DEF request_find
  <2>3. \E q \in request_find(r.id) :
          cl' = [Acked(cl, q.off, q.len) EXCEPT !.reqs = @ \ {q}, !.acked = @ + 1, !.pc = "loop",
                                                !.status = IF r.ok THEN "ok" ELSE "failed"]
    BY <1>2, <2>2 DEF WriteReply
  <2> QED BY <2>3 DEF request_find
<1>6. q \in Request /\ q.off \in Nat /\ q.len \in Nat /\ cl \in Transfer
  BY <1>0, <1>3, Sizes DEF Request, Types
<1>7. PICK m : m = Acked(cl, q.off, q.len)
  OBVIOUS
<1>8. Marked(cl, q.off, q.len, m)
  BY <1>6, <1>7, AckedFacts
<1>9. m \in Transfer /\ LikeButMarks(cl, m)
  BY <1>8 DEF Marked
<1>10. PICK R \in SUBSET Request, n \in Nat, s \in {"ok", "failed"} :
         R = cl.reqs \ {q} /\ n = cl.acked + 1 /\ s = IF r.ok THEN "ok" ELSE "failed"
  <2>1. cl.acked + 1 \in Nat
    BY <1>6 DEF Transfer
  <2>2. cl.reqs \ {q} \in SUBSET Request
    BY <1>3
  <2>3. (IF r.ok THEN "ok" ELSE "failed") \in {"ok", "failed"}
    OBVIOUS
  <2> QED BY <2>1, <2>2, <2>3
<1>11. cl' = [m EXCEPT !.reqs = R, !.acked = n, !.pc = "loop", !.status = s]
  <2>1. m.reqs = cl.reqs /\ m.acked = cl.acked
    BY <1>9 DEF LikeButMarks
  <2>2. cl' = [m EXCEPT !.reqs = m.reqs \ {q}, !.acked = m.acked + 1, !.pc = "loop",
                        !.status = IF r.ok THEN "ok" ELSE "failed"]
    BY <1>5, <1>7
  <2> QED BY <1>10, <2>1, <2>2
<1>12. /\ cl' \in Transfer /\ cl'.reqs = R /\ cl'.acked = n /\ cl'.pc = "loop" /\ cl'.status = s
  BY <1>9, <1>11 DEF Transfer, PCs
<1>13. /\ cl'.id = m.id /\ cl'.offset = m.offset /\ cl'.sent = m.sent /\ cl'.maxack = m.maxack
       /\ cl'.num_upload_req = m.num_upload_req /\ cl'.fatal = m.fatal /\ cl'.result = m.result
       /\ cl'.read_error = m.read_error /\ cl'.write_error = m.write_error
  BY <1>9, <1>11 DEF Transfer
<1>14. /\ cl'.id = cl.id /\ cl'.offset = cl.offset /\ cl'.sent = cl.sent
       /\ cl'.num_upload_req = cl.num_upload_req /\ cl'.fatal = cl.fatal /\ cl'.result = cl.result
       /\ cl'.read_error = cl.read_error /\ cl'.write_error = cl.write_error
  BY <1>9, <1>13 DEF LikeButMarks
<1>15. cl'.maxack = IF cl.maxack >= q.off + q.len THEN cl.maxack ELSE q.off + q.len
  BY <1>8, <1>13 DEF Marked
<1>16. Types'
  BY <1>0, <1>1, <1>4, <1>12 DEF Types
<1>17. Settled(cl.reqs, toDst, fromDst, q)
  <2>1. q.id = Head(fromDst).id
    BY <1>2, <1>5
  <2> QED BY <1>1, <1>3, <2>1, MatchedSettle
<1>18. /\ Matched(R, toDst, fromDst') /\ num_req \in Nat /\ num_req >= 1 /\ num_req' = num_req - 1
  BY <1>1, <1>10, <1>12, <1>17 DEF Settled, num_req
<1>19. InFlight'
  BY <1>0, <1>1, <1>3, <1>10, <1>12, <1>14, <1>18 DEF InFlight, Fresh
<1>20. Stage'
  <2>1. num_req = cl.sent - cl.acked /\ num_req <= NumRequests + 1 /\ cl.sent \in Nat /\ cl.acked \in Nat
    BY <1>0, <1>1, <1>6 DEF Stage, Transfer
  <2>2. num_req' = cl.sent - n /\ num_req' <= NumRequests
    BY <1>10, <1>18, <2>1, Sizes
  <2> QED BY <1>0, <1>1, <1>12, <1>14, <2>2, Sizes DEF Stage
<1>21. Writing'
  <2>w. /\ cl.offset <= Size /\ ~cl.read_error /\ ~cl.write_error
        /\ \A x \in cl.reqs : x.off + x.len <= cl.offset
        /\ conf.inplace => /\ cl.maxack <= cl.offset
                           /\ cl.maxack = cl.offset \/ \E x \in cl.reqs : x.off + x.len = cl.offset
        /\ faults["write"] = 0 =>
             /\ cl.status = "ok" /\ \A i \in DOMAIN fromDst : fromDst[i].ok
             /\ \A i \in DOMAIN toDst : i + 1 \in DOMAIN toDst =>
                  toDst[i + 1].off = toDst[i].off + toDst[i].len
             /\ toDst # <<>> => toDst[Len(toDst)].off + toDst[Len(toDst)].len = cl.offset
             /\ Units(0, Stands) \subseteq dst.good /\ (~conf.inplace => dst.len = Stands)
    BY <1>0, <1>1 DEF Writing
  <2>1. Stands' = Stands
    BY <1>1, <1>14 DEF Stands
  <2>2. cl.maxack \in Nat /\ cl.offset \in Nat
    BY <1>6 DEF Transfer
  <2>3. conf.inplace => /\ cl'.maxack <= cl.offset
                        /\ cl'.maxack = cl.offset \/ \E x \in R : x.off + x.len = cl.offset
    <3> SUFFICES ASSUME conf.inplace
                 PROVE  /\ cl'.maxack <= cl.offset
                        /\ cl'.maxack = cl.offset \/ \E x \in R : x.off + x.len = cl.offset
      OBVIOUS
    <3>1. q.off + q.len <= cl.offset /\ cl.maxack <= cl.offset
      BY <1>5, <2>w
    <3>2. cl'.maxack <= cl.offset
      BY <1>15, <3>1
    <3>3. CASE cl.maxack = cl.offset
      BY <1>6, <1>15, <2>2, <3>1, <3>3
    <3>4. CASE q.off + q.len = cl.offset
      BY <1>6, <1>15, <2>2, <3>1, <3>4
    <3>5. CASE \E x \in cl.reqs : x # q /\ x.off + x.len = cl.offset
      BY <1>10, <3>2, <3>5
    <3> QED BY <2>w, <3>2, <3>3, <3>4, <3>5
  <2>4. faults["write"] = 0 => s = "ok" /\ \A i \in DOMAIN fromDst' : fromDst'[i].ok
    BY <1>4, <1>10, <2>w
  <2>5. \A x \in R : x.off + x.len <= cl.offset
    BY <1>10, <2>w
  <2> QED BY <1>1, <1>12, <1>14, <2>w, <2>1, <2>3, <2>4, <2>5 DEF Writing
<1>22. Reading' /\ Marks' /\ Before' /\ Cut'
  BY <1>1, <1>12, <1>14 DEF Reading, Marks, Before, Cut, PrefixLeft, CopyFaithful
<1> QED BY <1>16, <1>19, <1>20, <1>21, <1>22 DEF IInv

-----------------------------------------------------------------------------
(* The theorems.                                                            *)

\* nothing happens
LEMMA StutterKeeps ==
  ASSUME IInv, UNCHANGED vars
  PROVE  IInv'
<1>1. /\ conf' = conf /\ cl' = cl /\ interrupted' = interrupted /\ dst' = dst /\ toSrc' = toSrc
      /\ fromSrc' = fromSrc /\ toDst' = toDst /\ fromDst' = fromDst /\ faults' = faults
  BY DEF vars
<1>2. Types' /\ InFlight' /\ Stage'
  BY <1>1 DEF IInv, Types, InFlight, Stage, num_req
<1>3. Reading' /\ Marks'
  BY <1>1 DEF IInv, Reading, Marks, Running, Sound, Asked, Sent
<1>4. Writing'
  BY <1>1 DEF IInv, Writing, Running, Stands
<1>5. Cut' /\ Before'
  BY <1>1 DEF IInv, Cut, Before, PrefixLeft, CopyFaithful, NothingIgnored, CanCut, Sound, Copied,
              Prefix
<1> QED BY <1>2, <1>3, <1>4, <1>5 DEF IInv

\* every step
LEMMA NextKeeps ==
  ASSUME IInv, [Next]_vars
  PROVE  IInv'
<1>1. CASE Open
  BY <1>1, OpenKeeps
<1>2. CASE ReadLoop
  BY <1>2, ReadLoopKeeps
<1>3. CASE handle_dest_replies
  BY <1>3, DestRepliesKeep
<1>4. CASE ReadReply
  BY <1>4, ReadReplyKeeps
<1>5. CASE WriteLoop
  BY <1>5, WriteLoopKeeps
<1>6. CASE WriteReply
  BY <1>6, WriteReplyKeeps
<1>7. CASE Check
  BY <1>7, CheckKeeps
<1>8. CASE Truncate
  BY <1>8, TruncateKeeps
<1>9. CASE Close
  BY <1>9, CloseKeeps
<1>10. CASE process_read
  BY <1>10, ProcessReadKeeps
<1>11. CASE process_write
  BY <1>11, ProcessWriteKeeps
<1>12. CASE Interrupt
  BY <1>12, InterruptKeeps
<1>13. CASE UNCHANGED vars
  BY <1>13, StutterKeeps
<1> QED BY <1>1, <1>2, <1>3, <1>4, <1>5, <1>6, <1>7, <1>8, <1>9, <1>10, <1>11, <1>12, <1>13
        DEF Next, Client

\* the invariant holds in every state
LEMMA Inductive == Spec => []IInv
<1>1. Init => IInv
  BY InitHolds
<1>2. IInv /\ [Next]_vars => IInv'
  BY NextKeeps
<1> QED BY <1>1, <1>2, PTL DEF Spec

(* The variables of sftp_download(), sftp_upload() and sftp_crossload() and *)
(* the file they write have their types; in particular the number and the  *)
(* size of the requests stay in their ranges, however short the answers    *)
(* are that the client adapts them to.                                     *)
THEOREM TypeCorrect == Spec => []TypeOK
<1>1. IInv => TypeOK
  <2> SUFFICES ASSUME IInv
               PROVE  TypeOK
    OBVIOUS
  <2>1. Types
    BY DEF IInv
  <2>2. conf \in Conf
    BY <2>1, SftpAssumption DEF Types
  <2>3. \A q \in cl.reqs : q.len \in 1..Buflen
    BY <2>1 DEF Types, Transfer, Request
  <2>4. dst.len \in Nat /\ dst.good \subseteq 0..(dst.len - 1)
    BY <2>1 DEF Types, File
  <2>5. /\ cl.pc \in PCs /\ cl.max_req \in 0..NumRequests /\ cl.buflen \in 1..Buflen
        /\ cl.num_upload_req \in Nat /\ cl.result \in {"busy", "ok", "failed"}
        /\ interrupted \in BOOLEAN
    BY <2>1 DEF Types, Transfer
  <2> QED BY <2>2, <2>3, <2>4, <2>5 DEF TypeOK, PCs
<1> QED BY Inductive, <1>1, PTL

(* request_find() always finds the request an answer belongs to, the       *)
(* queue of requests is as long as the messages in flight and within the   *)
(* option -R, and nothing is in flight when a transfer is over.            *)
THEOREM AnswersMatched == Spec => []RepliesMatched
<1>1. IInv => RepliesMatched
  <2> SUFFICES ASSUME IInv
               PROVE  RepliesMatched
    OBVIOUS
  <2>0. Types /\ InFlight /\ Stage
    BY DEF IInv
  <2>1. PICK a \in Nat, b \in Nat, d \in Nat, e \in Nat :
          a = Len(toSrc) /\ b = Len(fromSrc) /\ d = Len(toDst) /\ e = Len(fromDst)
    BY <2>0 DEF Types
  <2>2. num_req + cl.num_upload_req = a + b + d + e
    <3>1. CASE conf.dir = "put"
      <4>1. num_req = d + e /\ a = 0 /\ b = 0 /\ cl.num_upload_req = 0
        BY <2>0, <2>1, <3>1 DEF InFlight, Matched, num_req
      <4> QED BY <4>1
    <3>2. CASE conf.dir # "put"
      <4>1. num_req = a + b /\ cl.num_upload_req = d + e
        BY <2>0, <2>1, <3>2 DEF InFlight, Matched, num_req
      <4> QED BY <4>1
    <3> QED BY <3>1, <3>2
  <2>3. num_req \in Nat
    <3>1. IsFiniteSet(cl.reqs)
      BY <2>0 DEF InFlight, Matched
    <3> QED BY <3>1, FS_CardinalityType DEF num_req
  <2>4. num_req <= NumRequests + (IF conf.dir = "put" THEN 1 ELSE 0)
    <3>1. CASE conf.dir = "put"
      <4>1. num_req <= NumRequests + (IF cl.pc = "ack" THEN 1 ELSE 0)
        BY <2>0, <3>1 DEF Stage
      <4> QED BY <2>3, <3>1, <4>1, Sizes
    <3>2. CASE conf.dir # "put"
      <4>1. num_req <= NumRequests
        BY <2>0, <3>2 DEF Stage
      <4> QED BY <2>3, <3>2, <4>1, Sizes
    <3> QED BY <3>1, <3>2
  <2>5. ASSUME cl.pc \in {"check", "truncate", "close", "done"}
        PROVE  Len(toSrc \o fromSrc \o toDst \o fromDst) = 0
    <3>1. cl.reqs = {} /\ cl.num_upload_req = 0
      BY <2>0, <2>5 DEF Stage
    <3>2. num_req = 0
      BY <3>1, FS_EmptySet DEF num_req
    <3>3. a = 0 /\ b = 0 /\ d = 0 /\ e = 0
      BY <2>2, <3>1, <3>2
    <3>4. toSrc = <<>> /\ fromSrc = <<>> /\ toDst = <<>> /\ fromDst = <<>>
      <4>1. toSrc \in Seq(Request) /\ fromSrc \in Seq(ReadAnswer)
            /\ toDst \in Seq(Request) /\ fromDst \in Seq(WriteAnswer)
        BY <2>0 DEF Types
      <4>2. toSrc = <<>> /\ fromSrc = <<>>
        BY <2>1, <3>3, <4>1, EmptySeq
      <4>3. toDst = <<>> /\ fromDst = <<>>
        BY <2>1, <3>3, <4>1, EmptySeq
      <4> QED BY <4>2, <4>3
    <3> QED BY <3>4
  <2>6. cl.fatal = "none"
    BY <2>0 DEF Stage
  <2> QED BY <2>1, <2>2, <2>4, <2>5, <2>6 DEF RepliesMatched
<1> QED BY Inductive, <1>1, PTL

(* A copy that is reported as done is one, for any length of the source,   *)
(* any size of the requests, whatever the order and the length of the      *)
(* answers and whatever failed, unless the code ignores it (an upload's    *)
(* failed write or signal, a truncation or a close of what was written).   *)
THEOREM CopiesFaithful == Spec => []CopyFaithful
<1>1. IInv => CopyFaithful
  BY DEF IInv, Cut
<1> QED BY Inductive, <1>1, PTL

(* A download that failed, was interrupted or was answered out of order    *)
(* leaves a beginning of the source if at most one write failed and the    *)
(* file could be cut, and a crossload leaves everything or nothing.        *)
THEOREM PrefixesLeft == Spec => []PrefixLeft
<1>1. IInv => PrefixLeft
  BY DEF IInv, Cut
<1> QED BY Inductive, <1>1, PTL

=============================================================================
