---------------------------- MODULE SftpTransfer ----------------------------
(***************************************************************************)
(* Copying a file with sftp: sftp_download(), sftp_upload() and            *)
(* sftp_crossload() of sftp-client.c, which keep several requests in       *)
(* flight, against sftp-server.c, which answers them.  The file is read    *)
(* from the server Src ("get", "cross") or from the local disk ("put") and *)
(* written to the local disk ("get") or to the server Dst.                 *)
(*                                                                         *)
(* A file is its length and the set of its positions that hold what the    *)
(* source holds there; a hole or older content is not in the set.  The     *)
(* source does not change during the copy.  Requests that the client makes *)
(* one at a time, with nothing else in flight (stat, open, fsetstat,       *)
(* close), are part of the step that makes them.                           *)
(***************************************************************************)
EXTENDS Integers, Sequences, FiniteSets, FiniteSetsExt, SequencesExt

CONSTANTS
  Confs,         \* the copies that are asked for, see Conf below
  Size,          \* length of the source
  Buflen,        \* conn->download_buflen, conn->upload_buflen
  MinRead,       \* MIN_READ_SIZE
  NumRequests,   \* conn->num_requests
  Faults,        \* what may go wrong: subset of FaultKinds
  MaxFaults      \* how often

\* "close" is about the file that is read, "store" about closing the one that is written
FaultKinds == {"open", "read", "write", "truncate", "close", "store", "interrupt"}

Conf == [dir : {"get", "put", "cross"}, resume : BOOLEAN, inplace : BOOLEAN, sized : BOOLEAN,
         old : Nat, maxread : Nat \ {0}, reorder : BOOLEAN]

\* sftp resumes and never writes in place, scp does the opposite; sftp_crossload() does neither
ASSUME SftpAssumption ==
  /\ Confs \subseteq Conf
  /\ \A k \in Confs : ~(k.resume /\ k.inplace) /\ (k.dir = "cross" => ~k.resume /\ ~k.inplace)
  /\ Size \in Nat /\ Buflen \in Nat \ {0} /\ MinRead \in 1..Buflen /\ NumRequests \in Nat \ {0}
  /\ Faults \subseteq FaultKinds /\ MaxFaults \in Nat

VARIABLES
  conf,          \* the copy, fixed
  cl,            \* the client's variables
  interrupted,   \* set by the signal handler
  dst,           \* the file that is written
  toSrc, fromSrc, toDst, fromDst,   \* messages in flight
  faults         \* faults so far, by kind

vars == <<conf, cl, interrupted, dst, toSrc, fromSrc, toDst, fromDst, faults>>
net == <<toSrc, fromSrc, toDst, fromDst>>

\* something goes wrong, if it still may
Fault(kind) ==
  /\ kind \in Faults /\ FoldFunction(+, 0, faults) < MaxFaults
  /\ faults' = [faults EXCEPT ![kind] = @ + 1]

Works == UNCHANGED faults

-----------------------------------------------------------------------------
(* Files.                                                                   *)

Units(off, len) == off..(off + len - 1)

\* len units, taken from off of the source, are written at pos
Write(f, pos, off, len) ==
  IF len = 0 THEN f
  ELSE [len |-> Max({f.len, pos + len}),
        good |-> IF pos = off THEN f.good \cup Units(off, len) ELSE f.good \ Units(pos, len)]

ftruncate(f, n) == [len |-> n, good |-> f.good \cap Units(0, n)]

Copied(f) == f.len = Size /\ f.good = Units(0, Size)
Prefix(f) == f.good = Units(0, f.len)

-----------------------------------------------------------------------------
(* The servers take the requests in order.  OpenSSH's own also answers in   *)
(* order; with conf.reorder an answer may overtake others.                  *)

\* send_msg(): places where an answer may go
Places(q) == {k \in 1..(Len(q) + 1) : conf.reorder \/ k = Len(q) + 1}

\* reads of more than SFTP_MAX_READ_LENGTH are cut to it
ReadLen(q) == Min({q.len, conf.maxread, Size - q.off})

process_read ==
  /\ toSrc # <<>>
  /\ toSrc' = Tail(toSrc)
  /\ LET q == Head(toSrc)
         Answer(t, len) == \E k \in Places(fromSrc) :
                             fromSrc' = InsertAt(fromSrc, k, [id |-> q.id, t |-> t, len |-> len])
     IN \/ Works /\ q.off >= Size /\ Answer("eof", 0)
        \/ Works /\ q.off < Size /\ Answer("data", ReadLen(q))
        \/ Fault("read") /\ Answer("fail", 0)
  /\ UNCHANGED <<conf, cl, interrupted, dst, toDst, fromDst>>

\* a write that fails may have written a part; a resumed upload appends
process_write ==
  /\ toDst # <<>>
  /\ toDst' = Tail(toDst)
  /\ LET q == Head(toDst)
         pos == IF conf.resume THEN dst.len ELSE q.off
         Answer(ok) == \E k \in Places(fromDst) :
                         fromDst' = InsertAt(fromDst, k, [id |-> q.id, ok |-> ok])
     IN \/ Works /\ Answer(TRUE) /\ dst' = Write(dst, pos, q.off, q.len)
        \/ /\ Fault("write") /\ Answer(FALSE)
           /\ \E n \in 0..(q.len - 1) : dst' = Write(dst, pos, q.off, n)
  /\ UNCHANGED <<conf, cl, interrupted, toSrc, fromSrc>>

-----------------------------------------------------------------------------
(* The client: opening.                                                     *)

\* a->size, 0 if the server does not tell
RemoteSize == IF conf.sized THEN Size ELSE 0

\* the variables of the transfer when it starts at offset n; sftp_upload() starts its
\* marks at 0 even if it resumes
Start(n, mark) ==
  [pc |-> "loop", offset |-> n, buflen |-> Buflen, max_req |-> 1, reqs |-> {}, id |-> 0,
   sent |-> 0, acked |-> 0, num_upload_req |-> 0, maxack |-> mark, highwater |-> mark,
   reordered |-> FALSE, read_error |-> FALSE, write_error |-> FALSE, status |-> "ok",
   fatal |-> "none", everything |-> FALSE, result |-> "busy"]

Idle == [Start(0, 0) EXCEPT !.pc = "open"]
Refused == [cl EXCEPT !.pc = "done", !.result = "failed"]

Opened(f) == IF conf.resume \/ conf.inplace THEN f ELSE ftruncate(f, 0)

sftp_download_open ==
  IF conf.resume /\ dst.len > RemoteSize THEN cl' = Refused /\ dst' = dst
  ELSE /\ cl' = IF conf.resume THEN Start(dst.len, dst.len) ELSE Start(0, 0)
       /\ dst' = Opened(dst)

sftp_upload_open ==
  IF conf.resume /\ dst.len >= Size THEN cl' = Refused /\ dst' = dst
  ELSE /\ cl' = IF conf.resume THEN Start(dst.len, 0) ELSE Start(0, 0)
       /\ dst' = Opened(dst)

sftp_crossload_open == cl' = Start(0, 0) /\ dst' = ftruncate(dst, 0)

\* send_open(), get_handle(), open(): any of them may fail
Open ==
  /\ cl.pc = "open"
  /\ \/ /\ Works
        /\ \/ conf.dir = "get" /\ sftp_download_open
           \/ conf.dir = "put" /\ sftp_upload_open
           \/ conf.dir = "cross" /\ sftp_crossload_open
     \/ Fault("open") /\ cl' = Refused /\ dst' = dst
  /\ UNCHANGED <<conf, interrupted, net>>

-----------------------------------------------------------------------------
(* The client: reading from Src, in sftp_download() and sftp_crossload().   *)

num_req == Cardinality(cl.reqs)

\* the next n requests of request_enqueue() and send_read_request()
Wanted(n) == [i \in 1..n |-> [id |-> cl.id + i, off |-> cl.offset + (i - 1) * cl.buflen,
                              len |-> cl.buflen]]

Send(reads) ==
  /\ toSrc' = toSrc \o reads
  /\ cl' = [cl EXCEPT !.pc = "eat", !.reqs = @ \cup ToSet(reads), !.id = @ + Len(reads),
                      !.offset = @ + Len(reads) * cl.buflen]

\* the top of the loop; an interrupt is taken for the end of the file
ReadLoop ==
  /\ cl.pc = "loop" /\ conf.dir # "put"
  /\ \/ /\ num_req = 0 /\ (cl.max_req = 0 \/ interrupted)
        /\ cl' = [cl EXCEPT !.pc = "drain"]
        /\ UNCHANGED toSrc
     \/ /\ num_req > 0 /\ interrupted
        /\ cl' = [cl EXCEPT !.pc = "eat", !.max_req = 0]
        /\ UNCHANGED toSrc
     \/ /\ ~interrupted /\ (num_req > 0 \/ cl.max_req > 0)
        /\ Send(Wanted(Max({0, cl.max_req - num_req})))
  /\ UNCHANGED <<conf, interrupted, dst, fromSrc, toDst, fromDst, faults>>

\* handle_dest_replies(), in sftp_crossload() only: what is there while reading ("eat"), and
\* everything in the end ("drain"); replies are counted and not matched
handle_dest_replies ==
  /\ cl.pc \in {"eat", "drain"}
  /\ \/ /\ cl.num_upload_req > 0 /\ fromDst # <<>>
        /\ cl' = [cl EXCEPT !.num_upload_req = @ - 1, !.write_error = @ \/ ~Head(fromDst).ok]
        /\ fromDst' = Tail(fromDst)
     \/ /\ cl.num_upload_req = 0 \/ (cl.pc = "eat" /\ fromDst = <<>>)
        /\ cl' = [cl EXCEPT !.pc = IF cl.pc = "eat" THEN "recv" ELSE "check"]
        /\ UNCHANGED fromDst
  /\ UNCHANGED <<conf, interrupted, dst, toSrc, fromSrc, toDst, faults>>

\* the highest offset acknowledged, and the highest up to which there are no holes
Acked(c, off, len) ==
  LET m == Max({c.maxack, off + len})
  IN [c EXCEPT !.maxack = m,
               !.highwater = IF ~c.reordered /\ off <= @ THEN m ELSE @,
               !.reordered = @ \/ off > c.highwater]

\* a short answer: the rest is asked for again
Rest(c, q, len) == [id |-> c.id + 1, off |-> q.off + len, len |-> q.len - len]

Settle(c, q, len) ==
  IF len = q.len THEN [c EXCEPT !.reqs = @ \ {q}]
  ELSE [c EXCEPT !.reqs = (@ \ {q}) \cup {Rest(c, q, len)}, !.id = @ + 1,
                 !.buflen = IF len < @ THEN Max({MinRead, len}) ELSE @]

\* one request at a time after the expected end, otherwise one more with every answer
Widen(c) ==
  [c EXCEPT !.pc = "loop",
            !.max_req = IF @ = 0 THEN 0
                        ELSE IF RemoteSize > 0 /\ c.offset > RemoteSize THEN 1
                        ELSE Min({@ + 1, Max({@, NumRequests})})]

\* mutant: the rest is noted but not asked for
Received_silent(d, q, len) == cl' = Widen(Settle(d, q, len)) /\ UNCHANGED toSrc

\* d: the client once the data is written; the request is settled
Received(d, q, len) ==
  /\ cl' = Widen(Settle(d, q, len))
  /\ toSrc' = IF len = q.len THEN toSrc ELSE Append(toSrc, Rest(d, q, len))

\* a write after one that failed is not looked at any more
write_local(q, len) ==
  \/ /\ Works
     /\ dst' = Write(dst, q.off, q.off, len)
     /\ Received(Acked(cl, q.off, len), q, len)
  \/ /\ Fault("write")
     /\ \E n \in 0..(len - 1) : dst' = Write(dst, q.off, q.off, n)
     /\ Received(IF cl.write_error THEN Acked(cl, q.off, len)
                 ELSE [cl EXCEPT !.write_error = TRUE, !.max_req = 0], q, len)

Data(q, len) ==
  \/ conf.dir = "get" /\ write_local(q, len) /\ UNCHANGED toDst
  \/ /\ conf.dir = "cross"
     /\ toDst' = Append(toDst, [id |-> 0, off |-> q.off, len |-> len])
     /\ Received([cl EXCEPT !.num_upload_req = @ + 1], q, len)
     /\ Works /\ UNCHANGED dst

\* mutant: one answer "end of file" ends the transfer
Status_break(q, t) == [cl EXCEPT !.reqs = @ \ {q}, !.max_req = 0, !.pc = "drain",
                                 !.read_error = @ \/ t # "eof"]

\* SSH2_FXP_STATUS: no more requests, but the ones in flight are waited for
Status(q, t) == [cl EXCEPT !.reqs = @ \ {q}, !.max_req = 0, !.pc = "loop",
                           !.read_error = @ \/ t # "eof"]

request_find(id) == {q \in cl.reqs : q.id = id}

Dead(why) == [cl EXCEPT !.pc = "done", !.result = "failed", !.fatal = why]

ReadReply ==
  /\ cl.pc = "recv" /\ fromSrc # <<>>
  /\ fromSrc' = Tail(fromSrc)
  /\ LET r == Head(fromSrc)
     IN IF request_find(r.id) = {}
        THEN cl' = Dead("Unexpected reply") /\ Works /\ UNCHANGED <<dst, toSrc, toDst>>
        ELSE \E q \in request_find(r.id) :
               \/ r.t = "data" /\ Data(q, r.len)
               \/ r.t # "data" /\ cl' = Status(q, r.t) /\ Works /\ UNCHANGED <<dst, toSrc, toDst>>
  /\ UNCHANGED <<conf, interrupted, fromDst>>

-----------------------------------------------------------------------------
(* The client: sftp_upload().                                               *)

\* id == startid || len == 0 || id - ackid >= conn->num_requests
MustWait(len, sent) == sent = 1 \/ len = 0 \/ sent - cl.acked - 1 >= NumRequests

\* read(), which an interrupt or an error ends
LocalRead == IF interrupted \/ cl.status # "ok" THEN 0 ELSE Min({Buflen, Size - cl.offset})

WriteLoop ==
  /\ cl.pc = "loop" /\ conf.dir = "put"
  /\ \E len \in {LocalRead} :
       \/ /\ len > 0
          /\ toDst' = Append(toDst, [id |-> cl.id + 1, off |-> cl.offset, len |-> len])
          /\ cl' = [cl EXCEPT !.id = @ + 1, !.sent = @ + 1, !.offset = @ + len,
                              !.reqs = @ \cup {[id |-> cl.id + 1, off |-> cl.offset, len |-> len]},
                              !.pc = IF MustWait(len, cl.sent + 1) THEN "ack" ELSE "loop"]
       \/ /\ len = 0
          /\ cl' = [cl EXCEPT !.pc = IF cl.reqs = {} THEN "check" ELSE "ack"]
          /\ UNCHANGED toDst
  /\ UNCHANGED <<conf, interrupted, dst, toSrc, fromSrc, fromDst, faults>>

\* the status of the last answer is the one that counts
WriteReply ==
  /\ cl.pc = "ack" /\ fromDst # <<>>
  /\ fromDst' = Tail(fromDst)
  /\ LET r == Head(fromDst)
     IN IF request_find(r.id) = {} THEN cl' = Dead("Can't find request")
        ELSE \E q \in request_find(r.id) :
             cl' = [Acked(cl, q.off, q.len) EXCEPT !.reqs = @ \ {q}, !.acked = @ + 1, !.pc = "loop",
                                                   !.status = IF r.ok THEN "ok" ELSE "failed"]
  /\ UNCHANGED <<conf, interrupted, dst, toSrc, fromSrc, toDst, faults>>

-----------------------------------------------------------------------------
(* The client: the end.  A signal may arrive between any two of the tests.  *)

Failing == cl.read_error \/ cl.write_error \/ cl.status # "ok"

\* mutant: the mark is moved although the transfer failed
got_everything_always(c) == [c EXCEPT !.highwater = c.maxack, !.everything = TRUE]

\* "we got everything"; sftp_crossload() has no marks
got_everything(c) ==
  IF Failing \/ interrupted \/ conf.dir = "cross" THEN c
  ELSE [c EXCEPT !.highwater = c.maxack, !.everything = TRUE]

Check ==
  /\ cl.pc = "check"
  /\ cl' = IF conf.dir # "put" /\ cl.reqs # {}
           THEN Dead("Transfer complete, but requests still in queue")
           ELSE [got_everything(cl) EXCEPT !.pc = "truncate"]
  /\ UNCHANGED <<conf, interrupted, dst, net, faults>>

\* mutant: a download is cut only if it failed
MustTruncate_failed ==
  \/ conf.dir = "get" /\ (Failing \/ interrupted)
  \/ conf.dir = "put" /\ (conf.inplace \/ (conf.resume /\ (Failing \/ interrupted)))
  \/ conf.dir = "cross" /\ (Failing \/ interrupted)

MustTruncate ==
  \/ conf.dir = "get" /\ (conf.inplace \/ Failing \/ interrupted)
  \/ conf.dir = "put" /\ (conf.inplace \/ (conf.resume /\ (Failing \/ interrupted)))
  \/ conf.dir = "cross" /\ (Failing \/ interrupted)

\* a download's ftruncate(), whose failure is only logged
truncate_local ==
  /\ conf.dir = "get"
  /\ \/ Works /\ dst' = ftruncate(dst, cl.highwater)
     \/ Fault("truncate") /\ UNCHANGED dst

\* an upload's sftp_fsetstat(), whose result is ignored
truncate_remote ==
  /\ conf.dir = "put"
  /\ \/ Works /\ dst' = ftruncate(dst, cl.highwater)
     \/ Fault("truncate") /\ UNCHANGED dst

\* sftp_crossload() closes the file and opens it again, empty
truncate_reopen ==
  /\ conf.dir = "cross"
  /\ \/ Works /\ dst' = ftruncate(dst, 0)
     \/ Fault("open") /\ UNCHANGED dst

Truncate ==
  /\ cl.pc = "truncate"
  /\ cl' = [cl EXCEPT !.pc = "close"]
  /\ \/ ~MustTruncate /\ Works /\ UNCHANGED dst
     \/ MustTruncate /\ (truncate_local \/ truncate_remote \/ truncate_reopen)
  /\ UNCHANGED <<conf, interrupted, net>>

\* what is returned; sftp_upload() does not ask again whether it was interrupted
Report ==
  [cl EXCEPT !.pc = "done",
             !.result = IF Failing \/ (conf.dir # "put" /\ interrupted) THEN "failed" ELSE "ok"]

\* what was written last may not have been stored
Unstored(f, n) == [f EXCEPT !.good = @ \cap Units(0, n)]

\* closing the file that is read, a handle or a local descriptor
close_source == Fault("close") /\ cl' = Refused /\ UNCHANGED dst

\* closing the file that is written: only sftp_upload() looks at the result
close_destination ==
  /\ Fault("store")
  /\ \E n \in 0..dst.len : dst' = Unstored(dst, n)
  /\ cl' = IF conf.dir = "put" THEN Refused ELSE Report

Close ==
  /\ cl.pc = "close"
  /\ \/ Works /\ cl' = Report /\ UNCHANGED dst
     \/ close_source
     \/ close_destination
  /\ UNCHANGED <<conf, interrupted, net>>

\* the signal handler
Interrupt ==
  /\ ~interrupted /\ cl.pc # "done"
  /\ Fault("interrupt")
  /\ interrupted' = TRUE
  /\ UNCHANGED <<conf, cl, dst, net>>

-----------------------------------------------------------------------------

Init ==
  /\ conf \in Confs
  /\ cl = Idle /\ interrupted = FALSE
  /\ dst = [len |-> conf.old, good |-> IF conf.resume THEN Units(0, conf.old) ELSE {}]
  /\ toSrc = <<>> /\ fromSrc = <<>> /\ toDst = <<>> /\ fromDst = <<>>
  /\ faults = [k \in FaultKinds |-> 0]

Client == Open \/ ReadLoop \/ handle_dest_replies \/ ReadReply \/ WriteLoop \/ WriteReply
          \/ Check \/ Truncate \/ Close

Next == Client \/ process_read \/ process_write \/ Interrupt

\* Client and servers go on as long as they can.
Spec == Init /\ [][Next]_vars /\ WF_vars(Client) /\ WF_vars(process_read) /\ WF_vars(process_write)

-----------------------------------------------------------------------------
(* Properties.                                                              *)

TypeOK ==
  /\ conf \in Conf /\ interrupted \in BOOLEAN
  /\ cl.pc \in {"open", "loop", "eat", "recv", "ack", "drain", "check", "truncate", "close", "done"}
  /\ cl.max_req \in 0..NumRequests /\ cl.buflen \in 1..Buflen /\ cl.num_upload_req \in Nat
  /\ \A q \in cl.reqs : q.len \in 1..Buflen
  /\ cl.result \in {"busy", "ok", "failed"}
  /\ dst.len \in Nat /\ dst.good \subseteq 0..(dst.len - 1)

\* Every answer belongs to a request that the client remembers, there are never more of them
\* than the option -R allows (one more in sftp_upload()), and when a transfer is over none is
\* left for the next one to stumble over, however it ended.
RepliesMatched ==
  /\ cl.fatal = "none"
  /\ num_req + cl.num_upload_req = Len(toSrc) + Len(fromSrc) + Len(toDst) + Len(fromDst)
  /\ num_req <= NumRequests + (IF conf.dir = "put" THEN 1 ELSE 0)
  /\ cl.pc \in {"check", "truncate", "close", "done"} => Len(toSrc \o fromSrc \o toDst \o fromDst) = 0

\* Nothing has happened that the code does not look at: in sftp_upload() a failed write (a later
\* one may succeed) and a signal, in the others a failing close of what was written, and
\* anywhere a file written in place that cannot be cut.
NothingIgnored ==
  /\ conf.dir = "put" => faults["write"] = 0 /\ ~interrupted
  /\ conf.dir # "put" => faults["store"] = 0
  /\ conf.inplace => faults["truncate"] = 0

\* A copy that is reported as done is one: nothing is missing, nothing is left of an older
\* file, whatever the order of the answers and however they were cut, and whatever failed, but
\* for the failures that the code ignores (NothingIgnored).
CopyFaithful == (cl.result = "ok" /\ NothingIgnored) => Copied(dst)

\* What a failed download leaves can be resumed: it is a beginning of the source, without holes,
\* as long as at most one write failed and the file could be cut.  A crossload leaves the whole
\* file or nothing, unless the file could not be opened again.
PrefixLeft ==
  cl.pc = "close" =>
    /\ (conf.dir = "get" /\ faults["write"] <= 1 /\ faults["truncate"] = 0) => Prefix(dst)
    /\ (conf.dir = "cross" /\ faults["open"] = 0) => dst.len = 0 \/ Copied(dst)

\* sftp_upload() says "we got everything" only if that is so.
GotEverything == (conf.dir = "put" /\ cl.everything) => dst.good = Units(0, Size)

\* Every transfer ends, interrupted or not.
TransferEnds == <>(cl.pc = "done")
=============================================================================
