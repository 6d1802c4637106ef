---------------------------- MODULE BatchesProofs ---------------------------
(***************************************************************************)
(* One package or one emission at a time holds an invoice, for any number  *)
(* of invoices, requests, packages and CUFDs, whatever is selected twice,  *)
(* answered late, lost or cut off by a crash.                              *)
(***************************************************************************)
EXTENDS BatchGroupingProofs

\* The rows, the packages and the requests, as far as the argument needs them.
RowFields == {"status", "cuf", "received"}
RowsOK ==
    /\ row = [i \in Invoices |-> row[i]]
    /\ \A i \in Invoices : row[i] = [f \in RowFields |-> row[i][f]]

PackageFields == {"kind", "ids", "docs", "status", "received", "sent"}
PackagesOK ==
    /\ pkgs \in Seq(Range(pkgs))
    /\ \A p \in DOMAIN pkgs : pkgs[p] = [f \in PackageFields |-> pkgs[p][f]]

\* A request that has reserved knows its package, and no answer sends an invoice
\* back to PENDING.
Sent == {"send", "await", "consult", "update"}
RequestFields == {"pc", "kind", "todo", "docs", "saved", "made", "pkg", "answer"}
AnswerFields == {"status", "received", "to"}
RequestsOK ==
    /\ req = [r \in Requests |-> req[r]]
    /\ \A r \in Requests :
          /\ req[r] = [f \in RequestFields |-> req[r][f]]
          /\ req[r].answer = [f \in AnswerFields |-> req[r].answer[f]]
          /\ req[r].answer.to \subseteq {"SENT", "ACCEPTED", "REJECTED"}
          /\ req[r].pc \in Sent => req[r].pkg \in DOMAIN pkgs

\* An emission holds an invoice that is SENDING, and a package none that is free.
EmittedSending ==
    /\ emitting \subseteq Invoices
    /\ \A i \in emitting : row[i].status = "SENDING"
ReservedTaken == \A i \in Invoices : Reserved(i) => row[i].status # "PENDING"

HoldInv ==
    /\ RowsOK /\ PackagesOK /\ RequestsOK
    /\ HeldOnce /\ EmittedSending /\ ReservedTaken

\* Initially nothing is held.
LEMMA HoldInit == Init => HoldInv
  <1> SUFFICES ASSUME Init PROVE HoldInv
    OBVIOUS
  <1>1. RowsOK
    BY DEF Init, RowsOK, RowFields
  <1>2. PackagesOK
    BY DEF Init, PackagesOK
  <1>3. RequestsOK
    BY DEF Init, RequestsOK, NoRequest, NoAnswer, RequestFields, AnswerFields, Sent
  <1>4. HeldOnce /\ EmittedSending /\ ReservedTaken
    BY DEF Init, HeldOnce, OneLivePackage, PackagedNotEmitted, Reserved,
           EmittedSending, ReservedTaken
  <1> QED
    BY <1>1, <1>2, <1>3, <1>4 DEF HoldInv

\* A step that leaves rows, packages and emissions alone disturbs no holder.
LEMMA HoldersKept ==
    ASSUME HoldInv, UNCHANGED <<row, pkgs, emitting>>, RequestsOK'
    PROVE  HoldInv'
  BY DEF HoldInv, RowsOK, PackagesOK, HeldOnce, OneLivePackage, PackagedNotEmitted,
         Reserved, Live, Members, EmittedSending, ReservedTaken

\* A request whose answer is as before, or brings a status an answer may bring,
\* stays well formed.
LEMMA RequestMoves ==
    ASSUME RequestsOK, NEW r \in Requests, NEW w,
           req' = [req EXCEPT ![r] = w],
           w = [f \in RequestFields |-> w[f]],
           w.answer = [f \in AnswerFields |-> w.answer[f]],
           w.answer.to \subseteq {"SENT", "ACCEPTED", "REJECTED"},
           DOMAIN pkgs \subseteq DOMAIN pkgs', w.pc \in Sent => w.pkg \in DOMAIN pkgs'
    PROVE  RequestsOK'
  BY DEF RequestsOK

\* A request that goes on with its next batch forgets the answer.
LEMMA NextBatchMoves ==
    ASSUME RequestsOK, NEW r \in Requests, NextBatch(r), DOMAIN pkgs \subseteq DOMAIN pkgs'
    PROVE  RequestsOK'
  <1> DEFINE w == IF Len(req[r].todo) <= 1 THEN NoRequest
                  ELSE [NoRequest EXCEPT !.pc = "save", !.kind = req[r].kind,
                                         !.todo = Tail(req[r].todo), !.docs = req[r].docs]
  <1>1. req' = [req EXCEPT ![r] = w]
    BY DEF NextBatch, RequestsOK
  <1>2. w = [f \in RequestFields |-> w[f]] /\ w.answer = NoAnswer /\ w.pc \notin Sent
    BY DEF NoRequest, RequestFields, Sent
  <1>3. /\ w.answer = [f \in AnswerFields |-> w.answer[f]]
        /\ w.answer.to \subseteq {"SENT", "ACCEPTED", "REJECTED"}
    BY <1>2 DEF NoAnswer, AnswerFields
  <1> HIDE DEF w
  <1> QED
    BY <1>1, <1>2, <1>3, RequestMoves

\* The steps of a request but those that write a package or a row.
LEMMA LocalStep ==
    ASSUME HoldInv, NEW r \in Requests,
           \/ \E kind \in BatchKinds, ids \in SUBSET Invoices : Select(r, kind, ids)
           \/ SaveDocument(r) \/ GiveUpBatch(r) \/ Cleanup(r) \/ Answer(r)
           \/ \E p \in 1..MaxPackages : ReadPackage(r, p)
           \/ Consult(r) \/ UpdateFails(r) \/ Crash(r)
    PROVE  HoldInv'
  <1> USE DEF HoldInv
  <1>1. ASSUME NEW w, req' = [req EXCEPT ![r] = w],
               UNCHANGED <<row, pkgs, emitting>>,
               w = [f \in RequestFields |-> w[f]],
               w.answer = [f \in AnswerFields |-> w.answer[f]],
               w.answer.to \subseteq {"SENT", "ACCEPTED", "REJECTED"},
               w.pc \in Sent => w.pkg \in DOMAIN pkgs
        PROVE  HoldInv'
    BY <1>1, RequestMoves, HoldersKept
  <1>2. ASSUME NextBatch(r), UNCHANGED <<row, pkgs, emitting>>
        PROVE  HoldInv'
    BY <1>2, NextBatchMoves, HoldersKept
  <1>3. /\ NoRequest = [f \in RequestFields |-> NoRequest[f]]
        /\ NoRequest.answer = [f \in AnswerFields |-> NoRequest.answer[f]]
        /\ NoRequest.answer.to = {} /\ NoRequest.pc \notin Sent
    BY DEF NoRequest, NoAnswer, RequestFields, AnswerFields, Sent
  <1>4. /\ req[r] = [f \in RequestFields |-> req[r][f]]
        /\ req[r].answer = [f \in AnswerFields |-> req[r].answer[f]]
        /\ req[r].answer.to \subseteq {"SENT", "ACCEPTED", "REJECTED"}
        /\ req[r].pc \in Sent => req[r].pkg \in DOMAIN pkgs
    BY DEF RequestsOK
  <1>5. CASE \E kind \in BatchKinds, ids \in SUBSET Invoices : Select(r, kind, ids)
    <2>1. PICK todo, docs, kind :
             req' = [req EXCEPT ![r] = [NoRequest EXCEPT !.pc = "save", !.kind = kind,
                                          !.todo = todo, !.docs = docs]]
      BY <1>5 DEF Select
    <2> DEFINE w == [NoRequest EXCEPT !.pc = "save", !.kind = kind,
                                      !.todo = todo, !.docs = docs]
    <2>2. w = [f \in RequestFields |-> w[f]] /\ w.answer = NoRequest.answer /\ w.pc = "save"
      BY DEF NoRequest, RequestFields
    <2>3. req' = [req EXCEPT ![r] = w]
      BY <2>1
    <2> HIDE DEF w
    <2> QED
      BY <1>1, <1>3, <1>5, <2>2, <2>3 DEF Select, Sent
  <1>6. CASE SaveDocument(r)
    <2>1. PICK made : \E pc \in {"save", "reserve"} :
             req' = [req EXCEPT ![r].saved = @ + 1, ![r].made = made, ![r].pc = pc]
      BY <1>6 DEF SaveDocument, RAt
    <2>4. PICK pc \in {"save", "reserve"} :
             req' = [req EXCEPT ![r].saved = @ + 1, ![r].made = made, ![r].pc = pc]
      BY <2>1
    <2> DEFINE w == [req[r] EXCEPT !.saved = @ + 1, !.made = made, !.pc = pc]
    <2>2. w = [f \in RequestFields |-> w[f]] /\ w.answer = req[r].answer /\ w.pc \notin Sent
      BY <1>4 DEF RequestFields, Sent
    <2>3. req' = [req EXCEPT ![r] = w]
      BY <2>4 DEF RequestsOK
    <2> HIDE DEF w
    <2> QED
      BY <1>1, <1>4, <1>6, <2>2, <2>3 DEF SaveDocument
  <1>7. CASE GiveUpBatch(r)
    <2> DEFINE w == [req[r] EXCEPT !.pc = "clean"]
    <2>1. w = [f \in RequestFields |-> w[f]] /\ w.answer = req[r].answer /\ w.pc = "clean"
      BY <1>4 DEF RequestFields
    <2>2. req' = [req EXCEPT ![r] = w]
      BY <1>7 DEF GiveUpBatch, RequestsOK
    <2> HIDE DEF w
    <2> QED
      BY <1>1, <1>4, <1>7, <2>1, <2>2 DEF GiveUpBatch, Sent
  <1>8. CASE Cleanup(r)
    <2>1. CASE NextBatch(r)
      BY <1>2, <1>8, <2>1 DEF Cleanup
    <2>2. CASE ~NextBatch(r)
      <3>1. PICK i : req' = [req EXCEPT ![r].made = @ \ {i}]
        BY <1>8, <2>2 DEF Cleanup
      <3> DEFINE w == [req[r] EXCEPT !.made = @ \ {i}]
      <3>2. /\ w = [f \in RequestFields |-> w[f]] /\ w.answer = req[r].answer
            /\ w.pc = req[r].pc
        BY <1>4 DEF RequestFields
      <3>3. req' = [req EXCEPT ![r] = w]
        BY <3>1 DEF RequestsOK
      <3> HIDE DEF w
      <3> QED
        BY <1>1, <1>4, <1>8, <3>2, <3>3 DEF Cleanup, RAt, Sent
    <2> QED
      BY <2>1, <2>2
  <1>9. CASE Answer(r)
    <2>1. PICK answer \in SendingAnswers(lot[req[r].pkg]) \cup {NoAnswer} :
             req' = [req EXCEPT ![r].pc = "update", ![r].answer = answer]
      BY <1>9 DEF Answer
    <2>2. /\ answer = [f \in AnswerFields |-> answer[f]]
          /\ answer.to \subseteq {"SENT", "ACCEPTED", "REJECTED"}
      BY <2>1 DEF SendingAnswers, NoAnswer, AnswerFields
    <2> DEFINE w == [req[r] EXCEPT !.pc = "update", !.answer = answer]
    <2>3. w = [f \in RequestFields |-> w[f]] /\ w.answer = answer /\ w.pkg = req[r].pkg
      BY <1>4 DEF RequestFields
    <2>4. req' = [req EXCEPT ![r] = w]
      BY <2>1 DEF RequestsOK
    <2> HIDE DEF w
    <2> QED
      BY <1>1, <1>4, <1>9, <2>2, <2>3, <2>4 DEF Answer, RAt, Sent
  <1>10. CASE \E p \in 1..MaxPackages : ReadPackage(r, p)
    <2>1. PICK p \in 1..MaxPackages : ReadPackage(r, p)
      BY <1>10
    <2> DEFINE answer == [NoAnswer EXCEPT !.status = pkgs[p].status, !.received = TRUE]
               w == [req[r] EXCEPT !.pc = "consult", !.pkg = p, !.answer = answer]
    <2>2. /\ answer = [f \in AnswerFields |-> answer[f]]
          /\ answer.to \subseteq {"SENT", "ACCEPTED", "REJECTED"}
      BY DEF NoAnswer, AnswerFields
    <2>3. req' = [req EXCEPT ![r] = w]
      BY <2>1 DEF ReadPackage, RequestsOK
    <2> HIDE DEF answer
    <2>4. w = [f \in RequestFields |-> w[f]] /\ w.answer = answer /\ w.pkg = p
      BY <1>4 DEF RequestFields
    <2> HIDE DEF w
    <2> QED
      BY <1>1, <2>1, <2>2, <2>3, <2>4 DEF ReadPackage
  <1>11. CASE Consult(r)
    <2> DEFINE answer == ValidationAnswer(lot[req[r].pkg], req[r].answer)
               w == [req[r] EXCEPT !.pc = "update", !.answer = answer]
    <2>1. /\ answer = [f \in AnswerFields |-> answer[f]]
          /\ answer.to \subseteq {"SENT", "ACCEPTED", "REJECTED"}
      BY <1>4 DEF ValidationAnswer, AnswerFields
    <2>2. req' = [req EXCEPT ![r] = w]
      BY <1>11 DEF Consult, RequestsOK
    <2> HIDE DEF answer
    <2>3. w = [f \in RequestFields |-> w[f]] /\ w.answer = answer /\ w.pkg = req[r].pkg
      BY <1>4 DEF RequestFields
    <2> HIDE DEF w
    <2> QED
      BY <1>1, <1>4, <1>11, <2>1, <2>2, <2>3 DEF Consult, RAt, Sent
  <1>12. CASE UpdateFails(r)
    BY <1>2, <1>12 DEF UpdateFails
  <1>13. CASE Crash(r)
    BY <1>1, <1>3, <1>13 DEF Crash
  <1> QED
    BY <1>5, <1>6, <1>7, <1>8, <1>9, <1>10, <1>11, <1>12, <1>13

\* A package changes, but not its members, nor out of REJECTED; no row changes
\* but of the members of a package that is not rejected, and none to PENDING.
LEMMA PackageStep ==
    ASSUME HoldInv, NEW p \in DOMAIN pkgs, NEW w,
           w = [f \in PackageFields |-> w[f]],
           w.ids = pkgs[p].ids, ~Live(p) => w.status = "REJECTED",
           pkgs' = [pkgs EXCEPT ![p] = w],
           RowsOK', UNCHANGED emitting,
           \A i \in Invoices :
              row'[i].status # row[i].status
                 => Live(p) /\ i \in Members(p) /\ row'[i].status # "PENDING",
           RequestsOK'
    PROVE  HoldInv'
  <1>1. /\ DOMAIN pkgs' = DOMAIN pkgs
        /\ \A q \in DOMAIN pkgs : Members(q)' = Members(q) /\ (Live(q)' => Live(q))
        /\ \A q \in DOMAIN pkgs : q # p => pkgs'[q] = pkgs[q]
    BY DEF HoldInv, PackagesOK, Members, Live
  <1>2. PackagesOK'
    <2>1. Len(pkgs) \in Nat /\ DOMAIN pkgs = 1..Len(pkgs)
      BY DEF HoldInv, PackagesOK
    <2>2. DOMAIN pkgs' = 1..Len(pkgs) /\ \A q \in 1..Len(pkgs) : pkgs'[q] \in Range(pkgs')
      BY <1>1, <2>1 DEF Range
    <2> DEFINE S == Range(pkgs')
    <2>4. pkgs' \in [1..Len(pkgs) -> S]
      BY <2>1, <2>2
    <2> HIDE DEF S
    <2>5. pkgs' \in Seq(S)
      BY <2>1, <2>4, SeqDef
    <2>3. pkgs' \in Seq(Range(pkgs'))
      BY <2>5 DEF S
    <2> QED
      BY <1>1, <2>3 DEF HoldInv, PackagesOK
  <1>3. \A i : Reserved(i)' => Reserved(i)
    BY <1>1 DEF Reserved
  <1>4. HeldOnce'
    BY <1>1, <1>3 DEF HoldInv, HeldOnce, OneLivePackage, PackagedNotEmitted
  <1>5. EmittedSending'
    <2> SUFFICES ASSUME NEW i \in emitting PROVE row'[i].status = "SENDING"
      BY DEF HoldInv, EmittedSending
    <2>1. i \in Invoices /\ row[i].status = "SENDING" /\ ~Reserved(i)
      BY DEF HoldInv, EmittedSending, HeldOnce, PackagedNotEmitted
    <2> QED
      BY <2>1 DEF Reserved
  <1>6. ReservedTaken'
    BY <1>3 DEF HoldInv, ReservedTaken
  <1> QED
    BY <1>2, <1>4, <1>5, <1>6 DEF HoldInv

\* Sending marks the package.
LEMMA SendStep ==
    ASSUME HoldInv, NEW r \in Requests, SendBatch(r)
    PROVE  HoldInv'
  <1> DEFINE p == req[r].pkg
             w == [pkgs[p] EXCEPT !.sent = TRUE]
             v == [req[r] EXCEPT !.pc = "await"]
  <1>1. pkgs' = [pkgs EXCEPT ![p] = w] /\ req' = [req EXCEPT ![r] = v]
    BY DEF SendBatch, HoldInv, PackagesOK, RequestsOK
  <1>2. /\ v = [f \in RequestFields |-> v[f]]
        /\ v.answer = req[r].answer /\ v.pkg = p
    BY DEF HoldInv, RequestsOK, RequestFields
  <1>6. p \in DOMAIN pkgs
    BY DEF SendBatch, RAt, HoldInv, RequestsOK, Sent
  <1>3. /\ w = [f \in PackageFields |-> w[f]]
        /\ w.ids = pkgs[p].ids /\ w.status = pkgs[p].status
    BY <1>6 DEF HoldInv, PackagesOK, PackageFields
  <1>4. UNCHANGED <<row, emitting>>
    BY DEF SendBatch
  <1> HIDE DEF p, w, v
  <1>5. RequestsOK'
    BY <1>1, <1>2, <1>6, RequestMoves DEF HoldInv, RequestsOK
  <1> QED
    BY <1>1, <1>3, <1>4, <1>5, <1>6, PackageStep DEF HoldInv, RowsOK, Live

\* An answer changes a package that is not rejected and its open members.
LEMMA UpdateStep ==
    ASSUME HoldInv, NEW r \in Requests, UpdateBatch(r)
    PROVE  HoldInv'
  <1> DEFINE p == req[r].pkg
             answer == req[r].answer
             w == [pkgs[p] EXCEPT !.status = answer.status, !.received = answer.received]
  <1>1. RequestsOK' /\ UNCHANGED emitting
    BY NextBatchMoves DEF UpdateBatch, HoldInv, PackagesOK
  <1>2. CASE Repeats(p, answer)
    BY <1>1, <1>2, HoldersKept DEF UpdateBatch
  <1>3. CASE ~Repeats(p, answer)
    <2>1. pkgs[p].status \notin FinalPackage
      BY <1>3 DEF UpdateBatch, Advances
    <2>2. Live(p)
      BY <2>1 DEF Live, FinalPackage
    <2>3. pkgs' = [pkgs EXCEPT ![p] = w]
      BY <1>3 DEF UpdateBatch, HoldInv, PackagesOK
    <2>8. p \in DOMAIN pkgs
      BY DEF UpdateBatch, RAt, HoldInv, RequestsOK, Sent
    <2>4. w = [f \in PackageFields |-> w[f]] /\ w.ids = pkgs[p].ids
      BY <2>8 DEF HoldInv, PackagesOK, PackageFields
    <2>5. row' = [i \in Invoices |->
                    IF Settles(p, answer, i)
                    THEN [row[i] EXCEPT !.status = CHOOSE to \in answer.to : TRUE,
                                        !.received = @ \/ answer.received]
                    ELSE row[i]]
      BY <1>3 DEF UpdateBatch
    <2>6. ASSUME NEW i \in Invoices
          PROVE  /\ row'[i] = [f \in RowFields |-> row'[i][f]]
                 /\ row'[i].status # row[i].status
                      => /\ i \in Members(p)
                         /\ row'[i].status # "PENDING"
      <3>1. CASE Settles(p, answer, i)
        <4>1. (CHOOSE to \in answer.to : TRUE) \in {"SENT", "ACCEPTED", "REJECTED"}
          BY <3>1 DEF Settles, HoldInv, RequestsOK
        <4> DEFINE to == CHOOSE to \in answer.to : TRUE
                   rec == row[i].received \/ answer.received
        <4>2. row'[i] = [row[i] EXCEPT !.status = to, !.received = rec]
          BY <2>5, <3>1
        <4> HIDE DEF to, rec
        <4>3. row'[i] = [f \in RowFields |-> row'[i][f]] /\ row'[i].status = to
          BY <4>2 DEF HoldInv, RowsOK, RowFields
        <4> QED
          BY <3>1, <4>1, <4>3 DEF Settles, to
      <3>2. CASE ~Settles(p, answer, i)
        BY <2>5, <3>2 DEF HoldInv, RowsOK
      <3> QED
        BY <3>1, <3>2
    <2>7. RowsOK'
      BY <2>5, <2>6 DEF RowsOK
    <2> HIDE DEF p, w, answer
    <2> QED
      BY <1>1, <2>2, <2>3, <2>4, <2>6, <2>7, <2>8, PackageStep
  <1> QED
    BY <1>2, <1>3

\* A reservation takes invoices that are free: in no live package, not in flight.
LEMMA ReserveStep ==
    ASSUME HoldInv, NEW r \in Requests, ReserveBatch(r)
    PROVE  HoldInv'
  <1>0. PICK n : n = Len(pkgs) + 1
    OBVIOUS
  <1> DEFINE kind == req[r].kind
             docs == req[r].docs
             ids == ToSet(Batch(r))
             new == [kind |-> kind, ids |-> Batch(r), docs |-> docs,
                     status |-> "SENDING", received |-> FALSE, sent |-> FALSE]
             v == [req[r] EXCEPT !.pc = "send", !.pkg = n, !.made = {}]
  <1>1. /\ pkgs' = Append(pkgs, new) /\ UNCHANGED emitting
        /\ row' = [i \in Invoices |-> IF i \in ids THEN ReservedRow(kind, docs[i], row[i])
                                                  ELSE row[i]]
    BY DEF ReserveBatch
  <1>2. req' = [req EXCEPT ![r] = v]
    BY <1>0 DEF ReserveBatch, HoldInv, RequestsOK
  <1>3. \A i \in ids : /\ ~Reserved(i) /\ row[i].status \in {"PENDING", "OFFLINE"}
                       /\ row[i].status = "PENDING" => kind = "MASIVA"
    BY DEF ReserveBatch, Reservable, Available
  <1>4. /\ DOMAIN pkgs = 1..Len(pkgs) /\ Len(pkgs) \in Nat
        /\ DOMAIN pkgs' = DOMAIN pkgs \cup {n} /\ pkgs'[n] = new /\ n \notin DOMAIN pkgs
        /\ \A q \in DOMAIN pkgs : pkgs'[q] = pkgs[q]
        /\ pkgs' \in Seq(Range(pkgs'))
    <2> DEFINE S == Range(pkgs) \cup {new}
    <2>1. pkgs \in Seq(Range(pkgs))
      BY DEF HoldInv, PackagesOK
    <2> HIDE DEF new
    <2>2. DOMAIN pkgs = 1..Len(pkgs) /\ Len(pkgs) \in Nat
      BY <2>1
    <2>3. \A q \in 1..Len(pkgs) : pkgs[q] \in S
      BY <2>2 DEF Range
    <2> HIDE DEF S
    <2>4. pkgs \in [1..Len(pkgs) -> S]
      BY <2>1, <2>2, <2>3
    <2>5. pkgs \in Seq(S)
      BY <2>2, <2>4, SeqDef
    <2>6. new \in S
      BY DEF S
    <2>7. /\ pkgs' \in Seq(S) /\ Len(pkgs') = n /\ pkgs'[n] = new
          /\ \A q \in 1..Len(pkgs) : pkgs'[q] = pkgs[q]
      BY <1>0, <1>1, <2>5, <2>6, AppendProperties
    <2>8. DOMAIN pkgs' = 1..n
      BY <1>0, <2>2, <2>7
    <2> DEFINE T == Range(pkgs')
    <2>9. \A q \in 1..n : pkgs'[q] \in T
      BY <2>8 DEF Range
    <2> HIDE DEF T
    <2>10. pkgs' \in [1..n -> T]
      BY <2>7, <2>8, <2>9
    <2>11. pkgs' \in Seq(T)
      BY <1>0, <2>2, <2>10, SeqDef
    <2> QED
      BY <1>0, <2>2, <2>7, <2>8, <2>11 DEF T
  <1>5. PackagesOK'
    <2>1. new = [f \in PackageFields |-> new[f]]
      BY DEF PackageFields
    <2> HIDE DEF new
    <2>2. ASSUME NEW q \in DOMAIN pkgs'
          PROVE  pkgs'[q] = [f \in PackageFields |-> pkgs'[q][f]]
      BY <1>4, <2>1, q \in DOMAIN pkgs \/ q = n DEF HoldInv, PackagesOK
    <2> QED
      BY <1>4, <2>2 DEF PackagesOK
  <1>6. /\ \A q \in DOMAIN pkgs : Members(q)' = Members(q) /\ Live(q)' = Live(q)
        /\ Members(n)' = ids
    BY <1>4 DEF Members, Live
  <1> HIDE DEF ids, docs, kind, new
  <1>7. \A i : Reserved(i)' => Reserved(i) \/ i \in ids
    BY <1>4, <1>6 DEF Reserved
  <1>8. RequestsOK'
    <2>1. DOMAIN req[r] = RequestFields
      BY DEF HoldInv, RequestsOK
    <2>2. v.answer = req[r].answer /\ v.pkg = n
      BY <2>1 DEF RequestFields
    <2>3. v = [f \in RequestFields |-> v[f]]
      BY <2>1
    <2>4. v.pkg \in DOMAIN pkgs'
      BY <1>4, <2>2
    <2>5. /\ v = [f \in RequestFields |-> v[f]] /\ v.answer = req[r].answer
          /\ v.pkg \in DOMAIN pkgs'
      BY <2>2, <2>3, <2>4
    <2> HIDE DEF v
    <2> QED
      BY <1>2, <1>4, <2>5, RequestMoves DEF HoldInv, RequestsOK
  <1>9. ASSUME NEW i \in Invoices
        PROVE  /\ row'[i] = [f \in RowFields |-> row'[i][f]]
               /\ i \notin ids => row'[i] = row[i]
               /\ i \in ids => row'[i].status # "PENDING"
    <2>1. CASE i \in ids /\ kind = "MASIVA"
      <3> DEFINE d == docs[i]
      <3>1. row'[i] = [row[i] EXCEPT !.status = "SENDING", !.cuf = d]
        BY <1>1, <2>1 DEF ReservedRow
      <3> HIDE DEF d
      <3> QED
        BY <2>1, <3>1 DEF HoldInv, RowsOK, RowFields
    <2>2. CASE i \notin ids \/ kind # "MASIVA"
      BY <1>1, <1>3, <2>2 DEF ReservedRow, HoldInv, RowsOK
    <2> QED
      BY <2>1, <2>2
  <1>10. RowsOK'
    BY <1>1, <1>9 DEF RowsOK
  <1>11. OneLivePackage'
    <2> SUFFICES ASSUME NEW p \in DOMAIN pkgs', NEW q \in DOMAIN pkgs', p # q,
                        Live(p)', Live(q)', NEW i, i \in Members(p)', i \in Members(q)'
                 PROVE  FALSE
      BY DEF OneLivePackage
    <2>1. p \in DOMAIN pkgs \/ p = n
      BY <1>4
    <2>2. q \in DOMAIN pkgs \/ q = n
      BY <1>4
    <2>3. p \in DOMAIN pkgs /\ q \in DOMAIN pkgs => FALSE
      BY <1>6 DEF HoldInv, HeldOnce, OneLivePackage
    <2> QED
      BY <1>3, <1>6, <2>1, <2>2, <2>3 DEF Reserved
  <1>12. \A i \in emitting : i \notin ids
    BY <1>3 DEF HoldInv, EmittedSending
  <1>13. HeldOnce' /\ EmittedSending' /\ ReservedTaken'
    BY <1>1, <1>7, <1>9, <1>11, <1>12
       DEF HoldInv, HeldOnce, PackagedNotEmitted, EmittedSending, ReservedTaken
  <1> QED
    BY <1>5, <1>8, <1>10, <1>13 DEF HoldInv

\* One row changes: an emission holds it only SENDING and unreserved, and it is
\* PENDING only unreserved.
LEMMA RowStep ==
    ASSUME HoldInv, NEW i \in Invoices, RowsOK',
           \A j \in Invoices : j # i => row'[j] = row[j],
           UNCHANGED <<pkgs, req>>, emitting' \subseteq emitting \cup {i},
           i \in emitting' => row'[i].status = "SENDING" /\ ~Reserved(i),
           row'[i].status = "PENDING" => ~Reserved(i)
    PROVE  HoldInv'
  <1>1. PackagesOK' /\ RequestsOK' /\ OneLivePackage'
    BY DEF HoldInv, PackagesOK, RequestsOK, HeldOnce, OneLivePackage, Live, Members
  <1>2. \A j : Reserved(j)' <=> Reserved(j)
    BY DEF Reserved, Live, Members
  <1>3. PackagedNotEmitted' /\ EmittedSending' /\ ReservedTaken'
    BY <1>2 DEF HoldInv, HeldOnce, PackagedNotEmitted, EmittedSending, ReservedTaken
  <1> QED
    BY <1>1, <1>3 DEF HoldInv, HeldOnce

\* The steps of single emissions, the reaper and the reconciliations.
LEMMA SingleStep ==
    ASSUME HoldInv, NEW i \in Invoices, Single(i)
    PROVE  HoldInv'
  <1> DEFINE Only(status) == /\ RowsOK' /\ row'[i].status = status
                             /\ \A j \in Invoices : j # i => row'[j] = row[j]
  <1>1. i \in emitting => ~Reserved(i) /\ row[i].status = "SENDING"
    BY DEF HoldInv, HeldOnce, PackagedNotEmitted, EmittedSending
  <1>2. CASE EmissionClaims(i)
    <2>1. Only("SENDING")
      BY <1>2 DEF EmissionClaims, HoldInv, RowsOK, RowFields
    <2>2. ~Reserved(i)
      BY <1>2 DEF EmissionClaims, HoldInv, ReservedTaken
    <2> QED
      BY <1>2, <2>1, <2>2, RowStep DEF EmissionClaims
  <1>3. CASE EmissionReserves(i)
    <2>1. PICK doc : row' = [row EXCEPT ![i].cuf = doc]
      BY <1>3 DEF EmissionReserves
    <2>2. Only("SENDING")
      BY <1>3, <2>1 DEF EmissionReserves, Emitted, HoldInv, RowsOK, RowFields
    <2> QED
      BY <1>1, <1>3, <2>2, RowStep DEF EmissionReserves, Emitted
  <1>4. CASE EmissionDispatches(i)
    BY <1>4, HoldersKept DEF EmissionDispatches, HoldInv, RequestsOK
  <1>5. CASE EmissionAnswered(i)
    <2>1. PICK status \in Settled : row' = [row EXCEPT ![i].status = status, ![i].received = TRUE]
      BY <1>5 DEF EmissionAnswered, EmissionOutcome, Settled
    <2>2. Only(status)
      BY <2>1 DEF HoldInv, RowsOK, RowFields
    <2> QED
      BY <1>1, <1>5, <2>2, RowStep DEF EmissionAnswered, Emitted
  <1>6. CASE EmissionRollsBack(i)
    <2>1. Only("PENDING")
      BY <1>6 DEF EmissionRollsBack, HoldInv, RowsOK, RowFields
    <2> QED
      BY <1>1, <1>6, <2>1, RowStep DEF EmissionRollsBack, Emitted
  <1>7. CASE EmissionGoesOffline(i)
    <2>1. PICK doc : row' = [row EXCEPT ![i].status = "OFFLINE", ![i].cuf = doc]
      BY <1>7 DEF EmissionGoesOffline
    <2>2. Only("OFFLINE")
      BY <2>1 DEF HoldInv, RowsOK, RowFields
    <2> QED
      BY <1>1, <1>7, <2>2, RowStep DEF EmissionGoesOffline, Emitted
  <1>8. CASE EmissionDies(i)
    <2>1. Only("SENDING")
      BY <1>1, <1>8 DEF EmissionDies, HoldInv, RowsOK
    <2> QED
      BY <1>1, <1>8, <2>1, RowStep DEF EmissionDies
  <1>9. CASE Reap(i)
    <2>1. Only("PENDING")
      BY <1>9 DEF Reap, HoldInv, RowsOK, RowFields
    <2> QED
      BY <1>9, <2>1, RowStep DEF Reap, Stale
  <1>10. CASE Reconcile(i)
    <2>1. PICK estado \in SiatEstadoToDomain(siat[<<i, row[i].cuf>>]) :
             row' = [row EXCEPT ![i].status = estado]
      BY <1>10 DEF Reconcile
    <2>2. estado # "PENDING"
      BY <2>1 DEF SiatEstadoToDomain
    <2>3. Only(estado)
      BY <2>1 DEF HoldInv, RowsOK, RowFields
    <2> QED
      BY <1>10, <2>2, <2>3, RowStep DEF Reconcile
  <1> QED
    BY <1>2, <1>3, <1>4, <1>5, <1>6, <1>7, <1>8, <1>9, <1>10 DEF Single

\* The invariant is inductive.
LEMMA HoldStep == HoldInv /\ [Next]_bvars => HoldInv'
  <1> SUFFICES ASSUME HoldInv, [Next]_bvars PROVE HoldInv'
    OBVIOUS
  <1>1. CASE UNCHANGED bvars
    BY <1>1, HoldersKept DEF bvars, HoldInv, RequestsOK
  <1>2. ASSUME NEW r \in Requests, Request(r) PROVE HoldInv'
    BY <1>2, LocalStep, ReserveStep, SendStep, UpdateStep DEF Request
  <1>3. ASSUME NEW i \in Invoices, Single(i) PROVE HoldInv'
    BY <1>3, SingleStep
  <1>4. ASSUME NEW p \in 1..MaxPackages, ReceiveLot(p) \/ ValidateLot(p) PROVE HoldInv'
    BY <1>4, HoldersKept DEF ReceiveLot, ValidateLot, HoldInv, RequestsOK
  <1>5. CASE RenewCufd
    BY <1>5, HoldersKept DEF RenewCufd, HoldInv, RequestsOK
  <1> QED
    BY <1>1, <1>2, <1>3, <1>4, <1>5 DEF Next

(***************************************************************************)
(* Whatever requests select, reserve, send and lose at once, an invoice is *)
(* in at most one package that is not rejected, and no single emission     *)
(* holds an invoice of such a package.                                     *)
(***************************************************************************)
THEOREM OneHolder == Spec => []HeldOnce
  <1>1. HoldInv => HeldOnce
    BY DEF HoldInv
  <1> QED
    BY <1>1, HoldInit, HoldStep, PTL DEF Spec

\* What a step may do to a package.
LEMMA PackageKept ==
    ASSUME HoldInv, [Next]_bvars, NEW p \in DOMAIN pkgs
    PROVE  /\ Stage(pkgs[p].status) <= Stage(pkgs'[p].status)
           /\ pkgs[p].status \in FinalPackage => pkgs'[p].status = pkgs[p].status
           /\ pkgs[p].received => pkgs'[p].received
  <1>1. Stage(pkgs[p].status) <= Stage(pkgs[p].status)
    BY DEF Stage
  <1>2. ASSUME NEW r \in Requests, ReserveBatch(r) PROVE pkgs'[p] = pkgs[p]
    <2>1. PICK new : pkgs' = Append(pkgs, new)
      BY <1>2 DEF ReserveBatch
    <2>2. pkgs \in Seq(Range(pkgs))
      BY DEF HoldInv, PackagesOK
    <2> QED
      BY <2>1, <2>2
  <1>3. ASSUME NEW r \in Requests, SendBatch(r)
        PROVE  pkgs'[p].status = pkgs[p].status /\ pkgs'[p].received = pkgs[p].received
    BY <1>3 DEF SendBatch, HoldInv, PackagesOK, PackageFields
  <1>4. ASSUME NEW r \in Requests, UpdateBatch(r), pkgs'[p] # pkgs[p]
        PROVE  /\ Advances(p, req[r].answer) /\ ~Repeats(p, req[r].answer)
               /\ pkgs'[p].status = req[r].answer.status
               /\ pkgs'[p].received = req[r].answer.received
    <2>1. DOMAIN pkgs[p] = PackageFields
      BY DEF HoldInv, PackagesOK
    <2>2. /\ pkgs' = [pkgs EXCEPT ![req[r].pkg].status = req[r].answer.status,
                                 ![req[r].pkg].received = req[r].answer.received]
          /\ Advances(req[r].pkg, req[r].answer) /\ ~Repeats(req[r].pkg, req[r].answer)
      BY <1>4 DEF UpdateBatch
    <2> QED
      BY <1>4, <2>1, <2>2 DEF PackageFields
  <1>5. ASSUME NEW r \in Requests, Request(r),
               ~ReserveBatch(r), ~SendBatch(r), ~UpdateBatch(r)
        PROVE  pkgs' = pkgs
    BY <1>5 DEF Request, Select, SaveDocument, GiveUpBatch, Cleanup, Answer, ReadPackage,
                Consult, UpdateFails, Crash
  <1>6. ASSUME NEW i \in Invoices, Single(i) PROVE pkgs' = pkgs
    BY <1>6 DEF Single, EmissionClaims, EmissionReserves, EmissionDispatches, EmissionAnswered,
                EmissionRollsBack, EmissionGoesOffline, EmissionDies, Reap, Reconcile
  <1>7. ASSUME NEW r \in Requests, UpdateBatch(r), pkgs'[p] # pkgs[p]
        PROVE  /\ Stage(pkgs[p].status) <= Stage(pkgs'[p].status)
               /\ pkgs[p].status \notin FinalPackage
               /\ pkgs[p].received => pkgs'[p].received
    BY <1>4, <1>7 DEF Advances
  <1>8. ASSUME NEW q \in 1..MaxPackages, ReceiveLot(q) \/ ValidateLot(q) PROVE pkgs' = pkgs
    BY <1>8 DEF ReceiveLot, ValidateLot
  <1>9. \/ pkgs' = pkgs
        \/ \E r \in Requests : ReserveBatch(r) \/ SendBatch(r) \/ UpdateBatch(r)
    BY <1>5, <1>6, <1>8 DEF Next, RenewCufd, bvars
  <1> QED
    BY <1>1, <1>2, <1>3, <1>7, <1>9

(***************************************************************************)
(* A late or repeated answer never takes a package back a stage, nor out of *)
(* a final status, nor loses its reception code.                           *)
(***************************************************************************)
THEOREM PackagesAdvance == Spec => PackageAdvances
  <1>1. HoldInv /\ [Next]_bvars
          => [\A p \in DOMAIN pkgs :
                 /\ Stage(pkgs[p].status) <= Stage(pkgs'[p].status)
                 /\ pkgs[p].status \in FinalPackage => pkgs'[p].status = pkgs[p].status
                 /\ pkgs[p].received => pkgs'[p].received]_bvars
    BY PackageKept
  <1> QED
    BY <1>1, HoldInit, HoldStep, PTL DEF Spec, PackageAdvances

-----------------------------------------------------------------------------
(* Types. *)

Places == {"idle", "save", "reserve", "clean", "send", "await", "consult", "update"}
DocumentMaps == UNION {[S -> Codes] : S \in SUBSET Invoices}
Answers == [status : PackageStatuses, received : BOOLEAN,
            to : SUBSET {"SENT", "ACCEPTED", "REJECTED"}]
RowRecords == [status : Statuses, cuf : Codes \cup {NoCuf}, received : BOOLEAN]
PackageRecords == [kind : BatchKinds, ids : Seq(Invoices), docs : DocumentMaps,
                   status : PackageStatuses, received : BOOLEAN, sent : BOOLEAN]
RequestRecords == [pc : Places, kind : BatchKinds, todo : Seq(Seq(Invoices)),
                   docs : DocumentMaps, saved : Nat, made : SUBSET Invoices, pkg : Nat,
                   answer : Answers]

\* The documents are of the kind of the batch.
DocumentsOf(kind, docs) ==
    \A i \in DOMAIN docs : docs[i].type = IF kind = "MASIVA" THEN "MASIVA" ELSE "OFFLINE"

\* A request's batches have invoices, with a document each.
SoundRequest(q) ==
    /\ DocumentsOf(q.kind, q.docs)
    /\ \A b \in DOMAIN q.todo : q.todo[b] # << >> /\ ToSet(q.todo[b]) \subseteq DOMAIN q.docs
    /\ q.pc \in {"save", "reserve", "clean"} => q.todo # << >>
    /\ q.pc = "save" => q.saved < Len(q.todo[1])

SoundPackage(q) ==
    /\ DocumentsOf(q.kind, q.docs)
    /\ q.ids # << >> /\ ToSet(q.ids) \subseteq DOMAIN q.docs

RowTypes ==
    /\ row \in [Invoices -> RowRecords] /\ file \in [Invoices -> Codes \cup {NoCuf}]
    /\ emitting \subseteq Invoices /\ cufd \in 1..MaxCufd
    /\ lot \in [1..MaxPackages -> LotStates]
    /\ siat \in [Invoices \X Codes -> {"none", "accepted", "rejected"}]
PackageTypes ==
    /\ pkgs \in Seq(PackageRecords) /\ Len(pkgs) <= MaxPackages
    /\ \A p \in DOMAIN pkgs : SoundPackage(pkgs[p])
RequestTypes ==
    /\ req \in [Requests -> RequestRecords]
    /\ \A r \in Requests : SoundRequest(req[r])

BatchTypes == RowTypes /\ PackageTypes /\ RequestTypes

\* The packages of a sequence of packages.
LEMMA PackageAt ==
    ASSUME NEW R, NEW s \in Seq(R), NEW p \in DOMAIN s
    PROVE  s[p] \in R /\ p \in 1..Len(s) /\ Len(s) \in Nat /\ DOMAIN s = 1..Len(s)
  OBVIOUS

\* The request of a process that is idle, and an answer that did not come.
LEMMA IdleTypes ==
    /\ NoRequest \in RequestRecords /\ SoundRequest(NoRequest)
    /\ NoAnswer \in Answers /\ NoRequest.answer = NoAnswer /\ NoRequest.pc = "idle"
    /\ << >> \in DocumentMaps
  <1>1. << >> \in [{} -> Codes] /\ << >> \in Seq(Seq(Invoices))
    OBVIOUS
  <1>2. << >> \in DocumentMaps
    BY <1>1, {} \in SUBSET Invoices, Zenon DEF DocumentMaps
  <1>3. NoAnswer \in Answers
    BY DEF NoAnswer, Answers, PackageStatuses
  <1>4. NoRequest \in RequestRecords /\ NoRequest.answer = NoAnswer /\ NoRequest.pc = "idle"
    BY <1>1, <1>2, <1>3 DEF NoRequest, RequestRecords, Places, BatchKinds
  <1>5. SoundRequest(NoRequest)
    BY DEF NoRequest, SoundRequest, DocumentsOf
  <1> QED
    BY <1>2, <1>3, <1>4, <1>5

\* Initially.
LEMMA BatchTypesInit == Init => BatchTypes
  <1> SUFFICES ASSUME Init PROVE BatchTypes
    OBVIOUS
  <1>1. RowTypes
    BY BatchBoundAssumption DEF Init, RowTypes, RowRecords, Statuses, LotStates
  <1>2. PackageTypes
    BY BatchBoundAssumption DEF Init, PackageTypes
  <1>3. RequestTypes
    BY IdleTypes DEF Init, RequestTypes
  <1> QED
    BY <1>1, <1>2, <1>3 DEF BatchTypes

\* A request that changes to one with the types.
LEMMA RequestTyped ==
    ASSUME RequestTypes, NEW r \in Requests, NEW w \in RequestRecords, SoundRequest(w),
           req' = [req EXCEPT ![r] = w]
    PROVE  RequestTypes'
  BY DEF RequestTypes

\* A document map, seen as what it is.
LEMMA DocumentMap ==
    ASSUME NEW docs
    PROVE  docs \in DocumentMaps <=>
              /\ docs = [i \in DOMAIN docs |-> docs[i]] /\ DOMAIN docs \subseteq Invoices
              /\ \A i \in DOMAIN docs : docs[i] \in Codes
  BY DEF DocumentMaps

\* The next batch of a request has documents, too.
LEMMA NextBatchTyped ==
    ASSUME RequestTypes, NEW r \in Requests, NextBatch(r)
    PROVE  RequestTypes'
  <1> DEFINE q == req[r]
             w == IF Len(q.todo) <= 1 THEN NoRequest
                  ELSE [NoRequest EXCEPT !.pc = "save", !.kind = q.kind,
                                         !.todo = Tail(q.todo), !.docs = q.docs]
  <1>1. req' = [req EXCEPT ![r] = w]
    BY DEF NextBatch, RequestTypes
  <1>2. q \in RequestRecords /\ SoundRequest(q)
    BY DEF RequestTypes
  <1>3. w \in RequestRecords /\ SoundRequest(w)
    <2>1. CASE Len(q.todo) <= 1
      BY <2>1, IdleTypes
    <2>2. CASE ~(Len(q.todo) <= 1)
      <3> DEFINE todo == q.todo
                 rest == Tail(todo)
                 v == [NoRequest EXCEPT !.pc = "save", !.kind = q.kind,
                                        !.todo = rest, !.docs = q.docs]
      <3>1. todo \in Seq(Seq(Invoices)) /\ q.kind \in BatchKinds /\ q.docs \in DocumentMaps
        BY <1>2 DEF RequestRecords
      <3>2. /\ rest \in Seq(Seq(Invoices)) /\ rest # << >> /\ 1 \in DOMAIN rest
            /\ \A b \in DOMAIN rest : b + 1 \in DOMAIN todo /\ rest[b] = todo[b + 1]
        <4>1. todo # << >> /\ Len(todo) \in Nat /\ Len(todo) >= 2
          BY <2>2, <3>1
        <4> HIDE DEF rest, todo
        <4>2. /\ rest \in Seq(Seq(Invoices)) /\ Len(rest) = Len(todo) - 1
              /\ \A b \in 1..Len(rest) : rest[b] = todo[b + 1]
          BY <3>1, <4>1, HeadTailProperties DEF rest
        <4>3. DOMAIN rest = 1..Len(rest) /\ DOMAIN todo = 1..Len(todo)
          BY <3>1, <4>2
        <4> QED
          BY <4>1, <4>2, <4>3
      <3> HIDE DEF rest, todo, q
      <3>3. /\ v.pc = "save" /\ v.kind = q.kind /\ v.todo = rest /\ v.docs = q.docs
            /\ v.saved = 0 /\ v \in RequestRecords
        BY <3>1, <3>2, IdleTypes DEF RequestRecords, Places, NoRequest
      <3>4. \A b \in DOMAIN rest : rest[b] # << >> /\ ToSet(rest[b]) \subseteq DOMAIN q.docs
        BY <1>2, <3>2 DEF SoundRequest, todo
      <3>5. rest[1] \in Seq(Invoices) /\ rest[1] # << >>
        BY <3>2, <3>4
      <3>6. 0 < Len(rest[1])
        BY <3>5
      <3> HIDE DEF v
      <3>7. SoundRequest(v)
        BY <1>2, <3>2, <3>3, <3>4, <3>6 DEF SoundRequest
      <3>8. w = v
        BY <2>2 DEF v, rest, todo, q
      <3> QED
        BY <3>3, <3>7, <3>8
    <2> QED
      BY <2>1, <2>2
  <1> HIDE DEF w
  <1> QED
    BY <1>1, <1>3, RequestTyped

\* The documents a selection is issued with, and the batches it makes.
LEMMA SelectionTyped ==
    ASSUME BatchTypes, NEW r \in Requests, NEW kind \in BatchKinds, NEW ids \in SUBSET Invoices,
           Select(r, kind, ids)
    PROVE  RequestTypes'
  <1> DEFINE docs == Documents(kind, ids)
             batches == GroupIntoBatches(docs, ids)
             w == [NoRequest EXCEPT !.pc = "save", !.kind = kind, !.todo = batches, !.docs = docs]
  <1>1. req' = [req EXCEPT ![r] = w]
    BY DEF Select
  <1>2. ids \subseteq Nat /\ IsFiniteSet(ids)
    BY InvoicesAssumption, FS_Subset
  <1>3. IsGrouping(docs, ids, batches)
    BY <1>2, BatchBoundAssumption, SelectionIsGrouped
  <1>4. /\ ids # {} /\ \A i \in ids : Eligible(kind, i)
        /\ \A b \in DOMAIN batches : LotIsValid(kind, docs, batches[b])
    BY DEF Select, AllPrepared
  <1>5. DOMAIN docs = ids /\ docs = [i \in DOMAIN docs |-> docs[i]]
    BY DEF Documents
  <1>6. ASSUME NEW i \in ids PROVE docs[i] \in Codes
    <2>1. docs[i] = DocumentOf(kind, i)
      BY DEF Documents
    <2>2. CASE kind = "MASIVA"
      BY <2>1, <2>2 DEF DocumentOf, Codes, BatchTypes, RowTypes
    <2>3. CASE kind # "MASIVA"
      <3>1. row[i].cuf # NoCuf /\ row[i] \in RowRecords
        BY <1>4, <2>3 DEF Eligible, BatchTypes, RowTypes
      <3> QED
        BY <2>1, <2>3, <3>1 DEF DocumentOf, RowRecords
    <2> QED
      BY <2>2, <2>3
  <1> HIDE DEF docs, batches
  <1>7. docs \in DocumentMaps
    BY <1>5, <1>6, DocumentMap
  <1>8. /\ batches \in Seq(Seq(ids)) /\ batches \in Seq(Seq(Invoices))
        /\ \A b \in DOMAIN batches : IsLot(docs, batches[b])
        /\ \A i \in ids : \E b \in DOMAIN batches : \E u \in DOMAIN batches[b] : batches[b][u] = i
    BY <1>3 DEF IsGrouping
  <1>9. \A b \in DOMAIN batches : /\ batches[b] \in Seq(ids) /\ Len(batches[b]) > 0
                                  /\ batches[b] # << >>
    BY <1>8 DEF IsLot
  <1>10. batches # << >> /\ 1 \in DOMAIN batches
    <2>1. DOMAIN batches # {}
      BY <1>4, <1>8
    <2> QED
      BY <1>8, <2>1
  <1>11. \A b \in DOMAIN batches : ToSet(batches[b]) \subseteq DOMAIN docs
    BY <1>5, <1>9 DEF ToSet
  <1>12. DocumentsOf(kind, docs)
    <2> SUFFICES ASSUME NEW i \in ids
                 PROVE  docs[i].type = IF kind = "MASIVA" THEN "MASIVA" ELSE "OFFLINE"
      BY <1>5 DEF DocumentsOf
    <2>1. CASE kind = "MASIVA"
      BY <2>1 DEF docs, Documents, DocumentOf
    <2>2. CASE kind # "MASIVA"
      <3>1. \E b \in DOMAIN batches : i \in ToSet(batches[b])
        BY <1>8 DEF ToSet
      <3> QED
        BY <1>4, <2>2, <3>1 DEF LotIsValid, LotIsUniform, LotDocument
    <2> QED
      BY <2>1, <2>2
  <1>13. /\ w \in RequestRecords /\ w.pc = "save" /\ w.kind = kind /\ w.todo = batches
         /\ w.docs = docs /\ w.saved = 0
    BY <1>7, <1>8, IdleTypes DEF RequestRecords, Places, NoRequest
  <1> HIDE DEF w
  <1>14. SoundRequest(w)
    BY <1>9, <1>10, <1>11, <1>12, <1>13 DEF SoundRequest
  <1> QED
    BY <1>1, <1>13, <1>14, RequestTyped DEF BatchTypes

\* Every answer to a sending is one.
LEMMA SendingAnswersTyped ==
    ASSUME NEW state, NEW answer \in SendingAnswers(state) PROVE answer \in Answers
  <1> DEFINE pending == [status |-> "PENDING_VALIDATION", received |-> TRUE, to |-> {"SENT"}]
             unclear == [NoAnswer EXCEPT !.received = TRUE]
             accepted == [status |-> "ACCEPTED", received |-> TRUE, to |-> {"ACCEPTED"}]
             Rejected(rec) == [status |-> "REJECTED", received |-> rec, to |-> {"REJECTED"}]
  <1>1. pending \in Answers /\ unclear \in Answers /\ accepted \in Answers
    BY DEF NoAnswer, Answers, PackageStatuses
  <1>2. \A rec \in BOOLEAN : Rejected(rec) \in Answers
    BY DEF Answers, PackageStatuses
  <1>3. \/ answer = pending \/ answer = unclear \/ answer = accepted
        \/ \E rec \in BOOLEAN : answer = Rejected(rec)
    BY Zenon DEF SendingAnswers
  <1> HIDE DEF pending, unclear, accepted, Rejected
  <1> QED
    BY <1>1, <1>2, <1>3

\* The steps of a request that leave the packages and the rows alone.
LEMMA OwnStepTyped ==
    ASSUME BatchTypes, NEW r \in Requests,
           \/ SaveDocument(r) \/ GiveUpBatch(r) \/ Cleanup(r) \/ Answer(r)
           \/ \E p \in 1..MaxPackages : ReadPackage(r, p)
           \/ Consult(r) \/ UpdateFails(r) \/ Crash(r)
    PROVE  RequestTypes'
  <1> DEFINE q == req[r]
  <1>1. /\ q \in RequestRecords /\ SoundRequest(q) /\ RequestTypes
        /\ q.answer \in Answers /\ q.made \in SUBSET Invoices /\ q.saved \in Nat
        /\ q.todo \in Seq(Seq(Invoices)) /\ req = [s \in Requests |-> req[s]]
    BY DEF BatchTypes, RequestTypes, RequestRecords
  <1>2. ASSUME NEW w, req' = [req EXCEPT ![r] = w], w \in RequestRecords, SoundRequest(w)
        PROVE  RequestTypes'
    BY <1>1, <1>2, RequestTyped
  <1>3. CASE SaveDocument(r)
    <2> DEFINE i == Batch(r)[q.saved + 1]
               made == IF file[i] = NoCuf THEN q.made \cup {i} ELSE q.made
               pc == IF q.saved + 1 = Len(Batch(r)) THEN "reserve" ELSE q.pc
               w == [q EXCEPT !.saved = @ + 1, !.made = made, !.pc = pc]
    <2>1. req' = [req EXCEPT ![r] = w]
      BY <1>1, <1>3 DEF SaveDocument
    <2>2. /\ q.pc = "save" /\ q.todo # << >> /\ q.saved < Len(q.todo[1])
          /\ Batch(r) = q.todo[1] /\ 1 \in DOMAIN q.todo
      <3>1. q.pc = "save" /\ q.todo # << >> /\ q.saved < Len(q.todo[1])
        BY <1>1, <1>3 DEF SaveDocument, RAt, SoundRequest
      <3>2. Batch(r) = Head(q.todo)
        BY DEF Batch
      <3> HIDE DEF q
      <3>3. 1 \in DOMAIN q.todo /\ Head(q.todo) = q.todo[1]
        BY <1>1, <3>1
      <3> QED
        BY <3>1, <3>2, <3>3
    <2>3. Batch(r) \in Seq(Invoices)
      BY <1>1, <2>2
    <2>4. i \in Invoices
      BY <1>1, <2>2, <2>3
    <2> HIDE DEF i
    <2>5. made \in SUBSET Invoices
      BY <1>1, <2>4
    <2>6. pc \in {"save", "reserve"} /\ (pc = "save" => q.saved + 1 < Len(q.todo[1]))
      BY <1>1, <2>2, <2>3
    <2> HIDE DEF made, pc, q
    <2>7. /\ w \in RequestRecords /\ w.pc = pc /\ w.saved = q.saved + 1
          /\ w.kind = q.kind /\ w.todo = q.todo /\ w.docs = q.docs
      <3>1. pc \in Places /\ q.saved + 1 \in Nat
        BY <1>1, <2>6 DEF Places
      <3> QED
        BY <1>1, <2>5, <3>1 DEF RequestRecords
    <2> HIDE DEF w
    <2>8. SoundRequest(w)
      BY <1>1, <2>2, <2>6, <2>7 DEF SoundRequest
    <2> QED
      BY <1>2, <2>1, <2>7, <2>8
  <1>4. CASE GiveUpBatch(r)
    <2> DEFINE w == [q EXCEPT !.pc = "clean"]
    <2>1. req' = [req EXCEPT ![r] = w] /\ q.pc \in {"save", "reserve"}
      BY <1>1, <1>4 DEF GiveUpBatch
    <2> HIDE DEF q
    <2>2. /\ w \in RequestRecords /\ w.pc = "clean"
          /\ w.kind = q.kind /\ w.todo = q.todo /\ w.docs = q.docs
      BY <1>1 DEF RequestRecords, Places
    <2> HIDE DEF w
    <2>3. SoundRequest(w)
      BY <1>1, <2>1, <2>2 DEF SoundRequest
    <2> QED
      BY <1>2, <2>1, <2>2, <2>3
  <1>5. CASE Cleanup(r)
    <2>1. CASE NextBatch(r)
      BY <1>1, <2>1, NextBatchTyped
    <2>2. CASE ~NextBatch(r)
      <3>1. PICK i : req' = [req EXCEPT ![r].made = @ \ {i}]
        BY <1>5, <2>2 DEF Cleanup
      <3> DEFINE w == [q EXCEPT !.made = @ \ {i}]
      <3>2. req' = [req EXCEPT ![r] = w]
        BY <1>1, <3>1
      <3> HIDE DEF q
      <3>3. /\ w \in RequestRecords /\ w.pc = q.pc /\ w.saved = q.saved
            /\ w.kind = q.kind /\ w.todo = q.todo /\ w.docs = q.docs
        BY <1>1 DEF RequestRecords
      <3> HIDE DEF w
      <3>4. SoundRequest(w)
        BY <1>1, <3>3 DEF SoundRequest
      <3> QED
        BY <1>2, <3>2, <3>3, <3>4
    <2> QED
      BY <2>1, <2>2
  <1>6. ASSUME NEW answer \in Answers, NEW pc \in {"consult", "update"}, NEW p \in Nat,
               req' = [req EXCEPT ![r] = [q EXCEPT !.pc = pc, !.pkg = p, !.answer = answer]]
        PROVE  RequestTypes'
    <2> DEFINE w == [q EXCEPT !.pc = pc, !.pkg = p, !.answer = answer]
    <2>1. req' = [req EXCEPT ![r] = w]
      BY <1>6
    <2> HIDE DEF q
    <2>2. /\ w \in RequestRecords /\ w.pc = pc
          /\ w.kind = q.kind /\ w.todo = q.todo /\ w.docs = q.docs
      BY <1>1, <1>6 DEF RequestRecords, Places
    <2> HIDE DEF w
    <2>3. SoundRequest(w)
      BY <1>1, <2>2 DEF SoundRequest
    <2> QED
      BY <1>2, <2>1, <2>2, <2>3
  <1>7. CASE Answer(r)
    <2>1. PICK answer \in SendingAnswers(lot[q.pkg]) \cup {NoAnswer} :
             req' = [req EXCEPT ![r].pc = "update", ![r].answer = answer]
      BY <1>7 DEF Answer
    <2>2. answer \in Answers
      BY <2>1, IdleTypes, SendingAnswersTyped
    <2>3. q = [q EXCEPT !.pkg = q.pkg] /\ q.pkg \in Nat
      BY <1>1 DEF RequestRecords
    <2>4. req' = [req EXCEPT ![r] = [q EXCEPT !.pc = "update", !.pkg = q.pkg,
                                              !.answer = answer]]
      <3> DEFINE v == [q EXCEPT !.pc = "update", !.answer = answer]
                 w == [q EXCEPT !.pc = "update", !.pkg = q.pkg, !.answer = answer]
      <3>1. req' = [req EXCEPT ![r] = v]
        BY <1>1, <2>1
      <3>2. v = w
        <4> HIDE DEF q
        <4> QED
          BY <1>1, <2>3 DEF RequestRecords
      <3> QED
        BY <3>1, <3>2
    <2> QED
      BY <1>6, <2>2, <2>3, <2>4
  <1>8. CASE \E p \in 1..MaxPackages : ReadPackage(r, p)
    <2>1. PICK p \in 1..MaxPackages : ReadPackage(r, p)
      BY <1>8
    <2> DEFINE answer == [NoAnswer EXCEPT !.status = pkgs[p].status, !.received = TRUE]
    <2>2. pkgs[p].status \in PackageStatuses
      <3>1. p \in DOMAIN pkgs /\ pkgs \in Seq(PackageRecords)
        BY <2>1 DEF ReadPackage, BatchTypes, PackageTypes
      <3>2. pkgs[p] \in PackageRecords
        BY <3>1, PackageAt
      <3> QED
        BY <3>2 DEF PackageRecords
    <2>3. answer \in Answers /\ p \in Nat
      <3> DEFINE status == pkgs[p].status
      <3>1. status \in PackageStatuses
        BY <2>2
      <3> HIDE DEF status
      <3>2. [NoAnswer EXCEPT !.status = status, !.received = TRUE] \in Answers
        BY <3>1 DEF NoAnswer, Answers
      <3> QED
        BY <3>2 DEF status
    <2>4. req' = [req EXCEPT ![r] = [q EXCEPT !.pc = "consult", !.pkg = p, !.answer = answer]]
      BY <1>1, <2>1 DEF ReadPackage
    <2> QED
      BY <1>6, <2>3, <2>4
  <1>9. CASE Consult(r)
    <2> DEFINE answer == ValidationAnswer(lot[q.pkg], q.answer)
               v == [q EXCEPT !.pc = "update", !.answer = answer]
    <2>1. answer \in Answers
      BY <1>1 DEF ValidationAnswer, Answers, PackageStatuses
    <2>2. req' = [req EXCEPT ![r] = v]
      BY <1>1, <1>9 DEF Consult
    <2> HIDE DEF answer
    <2>3. v = [q EXCEPT !.pc = "update", !.pkg = q.pkg, !.answer = answer] /\ q.pkg \in Nat
      <3> HIDE DEF q
      <3> QED
        BY <1>1 DEF RequestRecords
    <2> QED
      BY <1>6, <2>1, <2>2, <2>3
  <1>10. CASE UpdateFails(r)
    BY <1>1, <1>10, NextBatchTyped DEF UpdateFails
  <1>11. CASE Crash(r)
    BY <1>2, <1>11, IdleTypes DEF Crash
  <1> QED
    BY <1>3, <1>4, <1>5, <1>7, <1>8, <1>9, <1>10, <1>11

-----------------------------------------------------------------------------
\* A row with some of its fields replaced.
LEMMA RowTyped ==
    ASSUME NEW w \in RowRecords, NEW s \in Statuses, NEW c \in Codes \cup {NoCuf}, NEW b \in BOOLEAN
    PROVE  /\ [w EXCEPT !.status = s] \in RowRecords /\ [w EXCEPT !.cuf = c] \in RowRecords
           /\ [w EXCEPT !.status = s, !.cuf = c] \in RowRecords
           /\ [w EXCEPT !.status = s, !.received = b] \in RowRecords
  BY DEF RowRecords

\* The steps of single emissions, the reaper and the reconciliations.
LEMMA SingleTyped ==
    ASSUME RowTypes, NEW i \in Invoices, Single(i)
    PROVE  RowTypes'
  <1> USE DEF RowTypes
  <1>1. row[i] \in RowRecords /\ row[i].cuf \in Codes \cup {NoCuf} /\ TRUE \in BOOLEAN
    BY DEF RowRecords
  <1>2. ASSUME NEW w \in RowRecords, row' = [row EXCEPT ![i] = w], UNCHANGED <<cufd, lot, siat>>,
               file' \in [Invoices -> Codes \cup {NoCuf}], emitting' \subseteq emitting \cup {i}
        PROVE  RowTypes'
    BY <1>2
  <1>3. ASSUME NEW s \in Statuses
        PROVE  /\ [row EXCEPT ![i].status = s] = [row EXCEPT ![i] = [row[i] EXCEPT !.status = s]]
               /\ [row[i] EXCEPT !.status = s] \in RowRecords
    BY <1>1, RowTyped
  <1>4. CASE EmissionClaims(i)
    <2>1. "SENDING" \in Statuses
      BY DEF Statuses
    <2> QED
      BY <1>2, <1>3, <1>4, <2>1 DEF EmissionClaims
  <1>5. CASE EmissionReserves(i)
    <2>1. PICK doc \in Stored(i, OwnDocument(i)) :
             /\ file' = [file EXCEPT ![i] = doc] /\ row' = [row EXCEPT ![i].cuf = doc]
      BY <1>5 DEF EmissionReserves
    <2>2. doc \in Codes
      BY <1>1, <2>1 DEF Stored, OwnDocument, Codes
    <2> DEFINE w == [row[i] EXCEPT !.cuf = doc]
    <2>3. w \in RowRecords /\ row' = [row EXCEPT ![i] = w]
      BY <1>1, <2>1, <2>2, RowTyped, row[i].status \in Statuses DEF RowRecords
    <2>4. file' \in [Invoices -> Codes \cup {NoCuf}]
      BY <2>1, <2>2
    <2> HIDE DEF w
    <2> QED
      BY <1>2, <1>5, <2>3, <2>4 DEF EmissionReserves
  <1>6. CASE EmissionDispatches(i)
    BY <1>6 DEF EmissionDispatches
  <1>7. CASE EmissionAnswered(i)
    <2> DEFINE s == EmissionOutcome(siat[<<i, row[i].cuf>>])
               w == [row[i] EXCEPT !.status = s, !.received = TRUE]
    <2>1. s \in Statuses
      BY DEF EmissionOutcome, Statuses
    <2>2. row' = [row EXCEPT ![i] = w]
      BY <1>7 DEF EmissionAnswered
    <2> HIDE DEF s
    <2>3. w \in RowRecords
      BY <1>1, <2>1, RowTyped
    <2> HIDE DEF w
    <2> QED
      BY <1>2, <1>7, <2>2, <2>3 DEF EmissionAnswered
  <1>8. CASE EmissionRollsBack(i)
    <2>1. "PENDING" \in Statuses
      BY DEF Statuses
    <2> QED
      BY <1>2, <1>3, <1>8, <2>1 DEF EmissionRollsBack
  <1>9. CASE EmissionGoesOffline(i)
    <2> DEFINE doc == [type |-> "OFFLINE", cufd |-> row[i].cuf.cufd]
               w == [row[i] EXCEPT !.status = "OFFLINE", !.cuf = doc]
    <2>1. doc \in Codes /\ "OFFLINE" \in Statuses
      BY <1>1, <1>9 DEF EmissionGoesOffline, Codes, Statuses
    <2>2. row' = [row EXCEPT ![i] = w] /\ file' = [file EXCEPT ![i] = doc]
      BY <1>9 DEF EmissionGoesOffline
    <2> HIDE DEF doc
    <2>3. w \in RowRecords /\ file' \in [Invoices -> Codes \cup {NoCuf}]
      BY <1>1, <2>1, <2>2, RowTyped
    <2> HIDE DEF w
    <2> QED
      BY <1>2, <1>9, <2>2, <2>3 DEF EmissionGoesOffline
  <1>10. CASE EmissionDies(i)
    BY <1>10 DEF EmissionDies
  <1>11. CASE Reap(i)
    <2>1. "PENDING" \in Statuses
      BY DEF Statuses
    <2> QED
      BY <1>2, <1>3, <1>11, <2>1 DEF Reap
  <1>12. CASE Reconcile(i)
    <2>1. PICK estado \in SiatEstadoToDomain(siat[<<i, row[i].cuf>>]) :
             row' = [row EXCEPT ![i].status = estado]
      BY <1>12 DEF Reconcile
    <2>2. estado \in Statuses
      BY <2>1 DEF SiatEstadoToDomain, Statuses
    <2> QED
      BY <1>2, <1>3, <1>12, <2>1, <2>2 DEF Reconcile
  <1> QED
    BY <1>4, <1>5, <1>6, <1>7, <1>8, <1>9, <1>10, <1>11, <1>12 DEF Single

\* The SIAT's own steps.
LEMMA JudgeTyped ==
    ASSUME RowTypes, NEW p, NEW verdict, Judge(p, verdict),
           \A i \in Members(p) : verdict[i] \in {"accepted", "rejected"}
    PROVE  siat' \in [Invoices \X Codes -> {"none", "accepted", "rejected"}]
  BY DEF RowTypes, Judge, Carries

LEMMA SiatTyped ==
    ASSUME BatchTypes, NEW p \in 1..MaxPackages, ReceiveLot(p) \/ ValidateLot(p)
    PROVE  RowTypes'
  <1>1. UNCHANGED <<row, file, emitting, cufd>>
    BY DEF ReceiveLot, ValidateLot
  <1>2. lot' \in [1..MaxPackages -> LotStates]
    BY DEF ReceiveLot, ValidateLot, BatchTypes, RowTypes, LotStates
  <1>3. siat' \in [Invoices \X Codes -> {"none", "accepted", "rejected"}]
    <2>1. CASE ReceiveLot(p)
      <3>1. \/ Judge(p, [i \in Members(p) |-> "accepted"])
            \/ Judge(p, [i \in Members(p) |-> "rejected"])
            \/ UNCHANGED siat
        BY <2>1 DEF ReceiveLot
      <3> QED
        BY <3>1, JudgeTyped DEF BatchTypes, RowTypes
    <2>2. CASE ValidateLot(p)
      <3>1. PICK verdict \in [Members(p) -> {"accepted", "rejected"}] : Judge(p, verdict)
        BY <2>2 DEF ValidateLot
      <3> QED
        BY <3>1, JudgeTyped DEF BatchTypes
    <2> QED
      BY <2>1, <2>2
  <1> QED
    BY <1>1, <1>2, <1>3 DEF BatchTypes, RowTypes

\* The file of a document that is saved or removed.
LEMMA FilesTyped ==
    ASSUME BatchTypes, NEW r \in Requests, SaveDocument(r) \/ Cleanup(r)
    PROVE  RowTypes'
  <1> DEFINE q == req[r]
  <1>1. /\ q.todo \in Seq(Seq(Invoices)) /\ q.docs \in DocumentMaps /\ q.saved \in Nat
        /\ SoundRequest(q)
    BY DEF BatchTypes, RequestTypes, RequestRecords
  <1>2. CASE SaveDocument(r)
    <2> DEFINE i == Batch(r)[q.saved + 1]
    <2>1. PICK doc \in Stored(i, q.docs[i]) : file' = [file EXCEPT ![i] = doc]
      BY <1>2 DEF SaveDocument
    <2>2. /\ 1 \in DOMAIN q.todo /\ q.saved < Len(q.todo[1])
          /\ ToSet(q.todo[1]) \subseteq DOMAIN q.docs /\ Batch(r) = q.todo[1]
          /\ q.todo[1] \in Seq(Invoices)
      <3>1. q.pc = "save" /\ q.todo # << >> /\ q.saved < Len(q.todo[1])
        BY <1>1, <1>2 DEF SaveDocument, RAt, SoundRequest
      <3>2. Batch(r) = Head(q.todo) /\ \A b \in DOMAIN q.todo : ToSet(q.todo[b]) \subseteq DOMAIN q.docs
        BY <1>1 DEF Batch, SoundRequest
      <3> HIDE DEF q
      <3>3. 1 \in DOMAIN q.todo /\ Head(q.todo) = q.todo[1] /\ q.todo[1] \in Seq(Invoices)
        BY <1>1, <3>1
      <3> QED
        BY <3>1, <3>2, <3>3
    <2>3. i \in ToSet(q.todo[1])
      BY <1>1, <2>2 DEF ToSet
    <2>4. q.docs[i] \in Codes
      BY <1>1, <2>2, <2>3, DocumentMap
    <2>5. doc \in Codes
      BY <2>1, <2>4 DEF Stored
    <2> HIDE DEF i
    <2>6. file' \in [Invoices -> Codes \cup {NoCuf}]
      BY <2>1, <2>5 DEF BatchTypes, RowTypes
    <2> QED
      BY <1>2, <2>6 DEF SaveDocument, BatchTypes, RowTypes
  <1>3. CASE Cleanup(r)
    <2>1. \/ UNCHANGED file
          \/ \E i \in Invoices : file' = [file EXCEPT ![i] = IF @ = q.docs[i] THEN NoCuf ELSE @]
      BY <1>3 DEF Cleanup, BatchTypes, RequestTypes, RequestRecords
    <2>2. file' \in [Invoices -> Codes \cup {NoCuf}]
      BY <2>1 DEF BatchTypes, RowTypes
    <2> QED
      BY <1>3, <2>2 DEF Cleanup, BatchTypes, RowTypes
  <1> QED
    BY <1>2, <1>3

\* A package written beside those there are.
LEMMA PackageAdded ==
    ASSUME PackageTypes, NEW w \in PackageRecords, SoundPackage(w), Len(pkgs) < MaxPackages,
           pkgs' = Append(pkgs, w)
    PROVE  PackageTypes'
  <1>1. pkgs \in Seq(PackageRecords) /\ Len(pkgs) \in Nat /\ DOMAIN pkgs = 1..Len(pkgs)
    BY PackageAt DEF PackageTypes
  <1>2. /\ pkgs' \in Seq(PackageRecords) /\ Len(pkgs') = Len(pkgs) + 1
        /\ \A p \in 1..Len(pkgs) : pkgs'[p] = pkgs[p]
        /\ pkgs'[Len(pkgs) + 1] = w
    BY <1>1, AppendProperties
  <1>3. DOMAIN pkgs' = 1..Len(pkgs')
    BY <1>2
  <1>4. ASSUME NEW p \in DOMAIN pkgs' PROVE SoundPackage(pkgs'[p])
    <2>1. p \in DOMAIN pkgs \/ p = Len(pkgs) + 1
      BY <1>1, <1>2, <1>3
    <2> QED
      BY <1>1, <1>2, <2>1 DEF PackageTypes
  <1>5. Len(pkgs') <= MaxPackages
    BY <1>1, <1>2, BatchBoundAssumption
  <1> QED
    BY <1>2, <1>4, <1>5 DEF PackageTypes

\* A package that changes, but not its documents.
LEMMA PackageChanged ==
    ASSUME PackageTypes, NEW p \in DOMAIN pkgs, NEW w \in PackageRecords, SoundPackage(w),
           pkgs' = [pkgs EXCEPT ![p] = w]
    PROVE  PackageTypes'
  <1>1. pkgs \in Seq(PackageRecords) /\ Len(pkgs) \in Nat /\ DOMAIN pkgs = 1..Len(pkgs)
    BY PackageAt DEF PackageTypes
  <1>2. pkgs' \in Seq(PackageRecords) /\ Len(pkgs') = Len(pkgs)
    BY <1>1, ExceptSeq
  <1>3. \A q \in DOMAIN pkgs' : SoundPackage(pkgs'[q])
    BY DEF PackageTypes
  <1> QED
    BY <1>2, <1>3 DEF PackageTypes

\* A reservation writes a package with its documents, and codes that are documents.
LEMMA ReserveTyped ==
    ASSUME BatchTypes, NEW r \in Requests, ReserveBatch(r)
    PROVE  BatchTypes'
  <1> DEFINE q == req[r]
             ids == Batch(r)
             new == [kind |-> q.kind, ids |-> ids, docs |-> q.docs,
                     status |-> "SENDING", received |-> FALSE, sent |-> FALSE]
             v == [q EXCEPT !.pc = "send", !.pkg = Len(pkgs) + 1, !.made = {}]
  <1>1. /\ q \in RequestRecords /\ SoundRequest(q) /\ q.pc = "reserve"
        /\ q.kind \in BatchKinds /\ q.docs \in DocumentMaps /\ q.todo \in Seq(Seq(Invoices))
    BY DEF ReserveBatch, RAt, BatchTypes, RequestTypes, RequestRecords
  <1>2. /\ pkgs' = Append(pkgs, new) /\ Len(pkgs) < MaxPackages
        /\ UNCHANGED <<file, emitting, cufd, lot, siat>>
        /\ row' = [i \in Invoices |-> IF i \in ToSet(ids)
                                      THEN ReservedRow(q.kind, q.docs[i], row[i]) ELSE row[i]]
    BY DEF ReserveBatch
  <1>3. req' = [req EXCEPT ![r] = v]
    BY DEF ReserveBatch, BatchTypes, RequestTypes
  <1>4. ids \in Seq(Invoices) /\ ids # << >> /\ ToSet(ids) \subseteq DOMAIN q.docs
    <2>1. q.todo # << >> /\ ids = Head(q.todo)
      BY <1>1 DEF SoundRequest, Batch
    <2>2. \A b \in DOMAIN q.todo : q.todo[b] # << >> /\ ToSet(q.todo[b]) \subseteq DOMAIN q.docs
      BY <1>1 DEF SoundRequest
    <2> HIDE DEF q, ids
    <2>3. 1 \in DOMAIN q.todo /\ ids = q.todo[1]
      BY <1>1, <2>1
    <2> QED
      BY <1>1, <2>2, <2>3
  <1> HIDE DEF ids, q
  <1>5. new \in PackageRecords
    BY <1>1, <1>4 DEF PackageRecords, PackageStatuses
  <1>6. SoundPackage(new)
    BY <1>1, <1>4 DEF SoundPackage, SoundRequest
  <1> HIDE DEF new
  <1>7. PackageTypes'
    BY <1>2, <1>5, <1>6, PackageAdded DEF BatchTypes
  <1>8. v \in RequestRecords /\ v.pc = "send" /\ v.kind = q.kind /\ v.todo = q.todo /\ v.docs = q.docs
    <2>1. Len(pkgs) + 1 \in Nat
      BY DEF BatchTypes, PackageTypes
    <2> QED
      BY <1>1, <2>1 DEF RequestRecords, Places
  <1> HIDE DEF v
  <1>9. SoundRequest(v)
    BY <1>1, <1>8 DEF SoundRequest
  <1>10. RequestTypes'
    BY <1>3, <1>8, <1>9, RequestTyped DEF BatchTypes
  <1>11. ASSUME NEW i \in Invoices PROVE row'[i] \in RowRecords
    <2>1. row[i] \in RowRecords
      BY DEF BatchTypes, RowTypes
    <2>2. CASE i \in ToSet(ids) /\ q.kind = "MASIVA"
      <3> DEFINE d == q.docs[i]
      <3>1. d \in Codes /\ "SENDING" \in Statuses
        BY <1>1, <1>4, <2>2, DocumentMap DEF Statuses
      <3>2. row'[i] = [row[i] EXCEPT !.status = "SENDING", !.cuf = d]
        BY <1>2, <2>2 DEF ReservedRow
      <3> DEFINE x == row[i]
      <3>3. x \in RowRecords /\ row'[i] = [x EXCEPT !.status = "SENDING", !.cuf = d]
        BY <2>1, <3>2
      <3> HIDE DEF d, x
      <3>4. [x EXCEPT !.status = "SENDING", !.cuf = d] \in RowRecords
        BY <3>1, <3>3 DEF RowRecords
      <3> QED
        BY <3>3, <3>4
    <2>3. CASE ~(i \in ToSet(ids) /\ q.kind = "MASIVA")
      BY <1>2, <2>1, <2>3 DEF ReservedRow
    <2> QED
      BY <2>2, <2>3
  <1>12. RowTypes'
    <2>1. row' \in [Invoices -> RowRecords]
      BY <1>2, <1>11
    <2> QED
      BY <1>2, <2>1 DEF BatchTypes, RowTypes
  <1> QED
    BY <1>7, <1>10, <1>12 DEF BatchTypes

\* Sending and answers change a package, and the status of its members.
LEMMA SendTyped ==
    ASSUME HoldInv, BatchTypes, NEW r \in Requests, SendBatch(r)
    PROVE  BatchTypes'
  <1> DEFINE q == req[r]
             p == q.pkg
             w == [pkgs[p] EXCEPT !.sent = TRUE]
             v == [q EXCEPT !.pc = "await"]
  <1>1. /\ pkgs' = [pkgs EXCEPT ![p] = w] /\ req' = [req EXCEPT ![r] = v] /\ q.pc = "send"
        /\ UNCHANGED <<row, file, emitting, cufd, lot, siat>>
    BY DEF SendBatch, RAt, HoldInv, PackagesOK, RequestsOK
  <1>2. p \in DOMAIN pkgs /\ q \in RequestRecords /\ SoundRequest(q)
    BY <1>1 DEF HoldInv, RequestsOK, Sent, BatchTypes, RequestTypes
  <1>3. pkgs[p] \in PackageRecords /\ SoundPackage(pkgs[p])
    BY <1>2, PackageAt DEF BatchTypes, PackageTypes
  <1> HIDE DEF p, q
  <1> DEFINE x == pkgs[p]
  <1> HIDE DEF x
  <1>4. [x EXCEPT !.sent = TRUE] \in PackageRecords /\ SoundPackage([x EXCEPT !.sent = TRUE])
    BY <1>3 DEF PackageRecords, SoundPackage, x
  <1>5. w \in PackageRecords /\ SoundPackage(w)
    BY <1>4 DEF x
  <1>6. v \in RequestRecords /\ v.pc = "await" /\ v.kind = q.kind /\ v.todo = q.todo /\ v.docs = q.docs
    BY <1>2 DEF RequestRecords, Places
  <1> HIDE DEF w, v
  <1>7. SoundRequest(v)
    BY <1>2, <1>6 DEF SoundRequest
  <1>8. RequestTypes' /\ PackageTypes'
    BY <1>1, <1>2, <1>5, <1>6, <1>7, RequestTyped, PackageChanged DEF BatchTypes
  <1> QED
    BY <1>1, <1>8 DEF BatchTypes, RowTypes

LEMMA UpdateTyped ==
    ASSUME HoldInv, BatchTypes, NEW r \in Requests, UpdateBatch(r)
    PROVE  BatchTypes'
  <1> DEFINE q == req[r]
             p == q.pkg
             answer == q.answer
             w == [pkgs[p] EXCEPT !.status = answer.status, !.received = answer.received]
  <1>1. /\ RequestTypes' /\ UNCHANGED <<file, emitting, cufd, lot, siat>>
    BY NextBatchTyped DEF UpdateBatch, BatchTypes
  <1>2. p \in DOMAIN pkgs /\ answer \in Answers
    BY DEF UpdateBatch, RAt, HoldInv, RequestsOK, Sent, BatchTypes, RequestTypes, RequestRecords
  <1>3. CASE Repeats(p, answer)
    BY <1>1, <1>3 DEF UpdateBatch, BatchTypes, RowTypes, PackageTypes
  <1>4. CASE ~Repeats(p, answer)
    <2>1. /\ pkgs' = [pkgs EXCEPT ![p] = w]
          /\ row' = [i \in Invoices |->
                       IF Settles(p, answer, i)
                       THEN [row[i] EXCEPT !.status = CHOOSE to \in answer.to : TRUE,
                                           !.received = @ \/ answer.received]
                       ELSE row[i]]
      BY <1>4 DEF UpdateBatch, HoldInv, PackagesOK
    <2>2. pkgs[p] \in PackageRecords /\ SoundPackage(pkgs[p])
      BY <1>2, PackageAt DEF BatchTypes, PackageTypes
    <2>3. answer.status \in PackageStatuses /\ answer.received \in BOOLEAN
          /\ answer.to \subseteq {"SENT", "ACCEPTED", "REJECTED"}
      BY <1>2 DEF Answers
    <2> HIDE DEF p, answer
    <2>4. w \in PackageRecords /\ SoundPackage(w)
      <3> DEFINE x == pkgs[p]
                 s == answer.status
                 b == answer.received
      <3>1. x \in PackageRecords /\ SoundPackage(x) /\ s \in PackageStatuses /\ b \in BOOLEAN
        BY <2>2, <2>3
      <3>2. w = [x EXCEPT !.status = s, !.received = b]
        OBVIOUS
      <3> HIDE DEF x, s, b, w
      <3>3. w \in PackageRecords
        BY <3>1, <3>2 DEF PackageRecords
      <3>4. w.kind = x.kind /\ w.ids = x.ids /\ w.docs = x.docs
        BY <3>1, <3>2 DEF PackageRecords
      <3> QED
        BY <3>1, <3>3, <3>4 DEF SoundPackage
    <2> HIDE DEF w
    <2>5. PackageTypes'
      BY <1>2, <2>1, <2>4, PackageChanged DEF BatchTypes
    <2>6. ASSUME NEW i \in Invoices PROVE row'[i] \in RowRecords
      <3>1. /\ row[i] \in RowRecords /\ row[i].received \in BOOLEAN
            /\ row[i].cuf \in Codes \cup {NoCuf}
        BY DEF BatchTypes, RowTypes, RowRecords
      <3>2. CASE Settles(p, answer, i)
        <4> DEFINE to == CHOOSE to \in answer.to : TRUE
                   rec == row[i].received \/ answer.received
        <4>1. to \in Statuses
          BY <2>3, <3>2 DEF Settles, Statuses
        <4>2. rec \in BOOLEAN
          BY <2>3, <3>1
        <4>3. row'[i] = [row[i] EXCEPT !.status = to, !.received = rec]
          BY <2>1, <3>2
        <4> DEFINE x == row[i]
        <4>4. x \in RowRecords /\ row'[i] = [x EXCEPT !.status = to, !.received = rec]
          BY <3>1, <4>3
        <4> HIDE DEF to, rec, x
        <4>5. [x EXCEPT !.status = to, !.received = rec] \in RowRecords
          BY <4>1, <4>2, <4>4 DEF RowRecords
        <4> QED
          BY <4>4, <4>5
      <3>3. CASE ~Settles(p, answer, i)
        BY <2>1, <3>1, <3>3
      <3> QED
        BY <3>2, <3>3
    <2>7. row' \in [Invoices -> RowRecords]
      BY <2>1, <2>6
    <2> QED
      BY <1>1, <2>5, <2>7 DEF BatchTypes, RowTypes
  <1> QED
    BY <1>3, <1>4

\* The types are kept.
LEMMA TypesStep == HoldInv /\ BatchTypes /\ [Next]_bvars => BatchTypes'
  <1> SUFFICES ASSUME HoldInv, BatchTypes, [Next]_bvars PROVE BatchTypes'
    OBVIOUS
  <1>1. ASSUME UNCHANGED pkgs, RowTypes', RequestTypes' PROVE BatchTypes'
    BY <1>1 DEF BatchTypes, PackageTypes
  <1>2. CASE UNCHANGED bvars
    BY <1>1, <1>2 DEF bvars, BatchTypes, RowTypes, RequestTypes
  <1>3. ASSUME NEW r \in Requests, NEW kind \in BatchKinds, NEW ids \in SUBSET Invoices,
               Select(r, kind, ids)
        PROVE  BatchTypes'
    BY <1>1, <1>3, SelectionTyped DEF Select, BatchTypes, RowTypes
  <1>4. ASSUME NEW r \in Requests, SaveDocument(r) \/ Cleanup(r)
        PROVE  BatchTypes'
    BY <1>1, <1>4, OwnStepTyped, FilesTyped DEF SaveDocument, Cleanup
  <1>5. ASSUME NEW r \in Requests,
               \/ GiveUpBatch(r) \/ Answer(r) \/ \E p \in 1..MaxPackages : ReadPackage(r, p)
               \/ Consult(r) \/ UpdateFails(r) \/ Crash(r)
        PROVE  BatchTypes'
    <2>1. RequestTypes'
      BY <1>5, OwnStepTyped
    <2>2. UNCHANGED <<row, file, pkgs, emitting, cufd, lot, siat>>
      BY <1>5 DEF GiveUpBatch, Answer, ReadPackage, Consult, UpdateFails, Crash
    <2> QED
      BY <1>1, <2>1, <2>2 DEF BatchTypes, RowTypes
  <1>6. ASSUME NEW r \in Requests, Request(r) PROVE BatchTypes'
    BY <1>3, <1>4, <1>5, <1>6, ReserveTyped, SendTyped, UpdateTyped DEF Request
  <1>7. ASSUME NEW i \in Invoices, Single(i) PROVE BatchTypes'
    <2>1. UNCHANGED <<pkgs, req>>
      BY <1>7 DEF Single, EmissionClaims, EmissionReserves, EmissionDispatches, EmissionAnswered,
                  EmissionRollsBack, EmissionGoesOffline, EmissionDies, Reap, Reconcile
    <2> QED
      BY <1>1, <1>7, <2>1, SingleTyped DEF BatchTypes, RequestTypes
  <1>8. ASSUME NEW p \in 1..MaxPackages, ReceiveLot(p) \/ ValidateLot(p) PROVE BatchTypes'
    BY <1>1, <1>8, SiatTyped DEF ReceiveLot, ValidateLot, BatchTypes, RequestTypes
  <1>9. CASE RenewCufd
    BY <1>1, <1>9, BatchBoundAssumption DEF RenewCufd, BatchTypes, RowTypes, RequestTypes
  <1> QED
    BY <1>2, <1>6, <1>7, <1>8, <1>9 DEF Next

-----------------------------------------------------------------------------
(* Verdicts. *)

\* No two packages, not even a rejected one, have an invoice in common.
Apart == \A p, q \in DOMAIN pkgs : p # q => Members(p) \cap Members(q) = {}

\* A member has the code it was reserved with, and never returns to PENDING.
MemberRows ==
    \A p \in DOMAIN pkgs : \A i \in Members(p) :
        /\ row[i].cuf = pkgs[p].docs[i]
        /\ row[i].status \in Open \cup FinalPackage

\* Outside the packages, an invoice that is not issued yet has no code but that of
\* a single emission; one that waits for a package has the code of its event, and a verdict is on some code.
Packaged(i) == \E p \in DOMAIN pkgs : i \in Members(p)
OwnCode(code) == code = NoCuf \/ code.type = "ONLINE"
FreeRows ==
    \A i \in Invoices :
        /\ row[i].status \in {"PENDING", "SENDING"} /\ ~Packaged(i) => OwnCode(row[i].cuf)
        /\ row[i].status = "OFFLINE" => row[i].cuf # NoCuf /\ row[i].cuf.type = "OFFLINE"
        /\ row[i].status \in FinalPackage => row[i].cuf # NoCuf

\* The SIAT judges the codes of packages by the lot, and all of a lot at once.
Judged == {"validated", "rejected", "observed"}
VerdictsFromLots ==
    \A i \in Invoices, c \in Codes :
        siat[<<i, c>>] # "none" /\ c.type # "ONLINE"
          => \E p \in DOMAIN pkgs : Carries(p, i, c) /\ lot[p] \in Judged
LotsJudged ==
    \A p \in 1..MaxPackages :
        /\ lot[p] # "none" => p \in DOMAIN pkgs
        /\ lot[p] = "validated" => \A i \in Members(p) : siat[<<i, pkgs[p].docs[i]>>] = "accepted"
        /\ lot[p] = "rejected" => \A i \in Members(p) : siat[<<i, pkgs[p].docs[i]>>] = "rejected"

\* An answer that settles its members is the lot's verdict; one that settles none
\* is final only if the package is.
Backed(p, answer) ==
    \/ answer.to = {} /\ (answer.status \in FinalPackage => pkgs[p].status = answer.status)
    \/ answer.to = {"SENT"} /\ answer.status = "PENDING_VALIDATION"
    \/ answer.to = {"ACCEPTED"} /\ answer.status = "ACCEPTED" /\ lot[p] = "validated"
    \/ answer.to = {"REJECTED"} /\ answer.status = "REJECTED" /\ lot[p] = "rejected"
AnswersBacked ==
    \A r \in Requests :
        req[r].pc \in {"consult", "update"} => Backed(req[r].pkg, req[r].answer)

BackInv ==
    /\ Apart /\ MemberRows /\ FreeRows
    /\ VerdictsFromLots /\ LotsJudged /\ AnswersBacked
    /\ StatusBackedBySiat /\ FinalPackageSettles

\* All of it.
BatchInv == HoldInv /\ BatchTypes /\ BackInv

\* Initially there is no verdict.
LEMMA BackInit == Init => BackInv
  <1> SUFFICES ASSUME Init PROVE BackInv
    OBVIOUS
  <1>1. Apart /\ MemberRows /\ FinalPackageSettles
    BY DEF Init, Apart, MemberRows, FinalPackageSettles
  <1>2. FreeRows /\ StatusBackedBySiat
    BY DEF Init, FreeRows, OwnCode, StatusBackedBySiat, FinalPackage
  <1>3. VerdictsFromLots /\ LotsJudged
    BY DEF Init, VerdictsFromLots, LotsJudged
  <1>4. AnswersBacked
    BY DEF Init, AnswersBacked, NoRequest
  <1> QED
    BY <1>1, <1>2, <1>3, <1>4 DEF BackInv

\* The members of a package are invoices, with a code that is not a single emission's.
LEMMA MemberCodes ==
    ASSUME BatchTypes, NEW p \in DOMAIN pkgs, NEW i \in Members(p)
    PROVE  /\ i \in Invoices /\ p \in 1..MaxPackages
           /\ pkgs[p].docs[i] \in Codes /\ pkgs[p].docs[i].type # "ONLINE"
           /\ row[i] \in RowRecords
  <1>1. pkgs[p] \in PackageRecords /\ p \in 1..Len(pkgs) /\ Len(pkgs) \in Nat
    BY PackageAt DEF BatchTypes, PackageTypes
  <1>2. SoundPackage(pkgs[p])
    BY DEF BatchTypes, PackageTypes
  <1>3. i \in DOMAIN pkgs[p].docs /\ pkgs[p].docs \in DocumentMaps
    BY <1>1, <1>2 DEF SoundPackage, Members, PackageRecords
  <1>4. i \in Invoices /\ pkgs[p].docs[i] \in Codes
    BY <1>3, DocumentMap
  <1>5. pkgs[p].docs[i].type # "ONLINE"
    BY <1>2, <1>3 DEF SoundPackage, DocumentsOf
  <1>6. p \in 1..MaxPackages
    <2>1. Len(pkgs) <= MaxPackages
      BY DEF BatchTypes, PackageTypes
    <2> QED
      BY <1>1, <2>1, BatchBoundAssumption
  <1> QED
    BY <1>4, <1>5, <1>6 DEF BatchTypes, RowTypes

\* An invoice in no live package, and not refused, is in no package at all.
LEMMA UnreservedIsFree ==
    ASSUME BatchInv, NEW i, ~Reserved(i), row[i].status # "REJECTED"
    PROVE  ~Packaged(i)
  BY DEF BatchInv, BackInv, FinalPackageSettles, FinalPackage, Reserved, Live, Packaged

\* What rows, packages, lots and codes say does not change when they do not.
LEMMA BackKept ==
    ASSUME BackInv, UNCHANGED <<row, pkgs, lot, siat>>, AnswersBacked'
    PROVE  BackInv'
  <1>1. Apart' /\ MemberRows' /\ FreeRows' /\ FinalPackageSettles'
    BY DEF BackInv, Apart, MemberRows, FreeRows, Packaged, Members, OwnCode, FinalPackageSettles
  <1>2. VerdictsFromLots' /\ LotsJudged' /\ StatusBackedBySiat'
    BY DEF BackInv, VerdictsFromLots, LotsJudged, StatusBackedBySiat, Carries, Members
  <1> QED
    BY <1>1, <1>2 DEF BackInv

\* An invoice outside the packages changes.
LEMMA FreeRowBack ==
    ASSUME BackInv, NEW i \in Invoices, ~Packaged(i),
           DOMAIN row' = DOMAIN row, \A j \in DOMAIN row : j # i => row'[j] = row[j],
           UNCHANGED <<pkgs, req, lot, siat>>,
           row'[i].status \in {"PENDING", "SENDING"} => OwnCode(row'[i].cuf),
           row'[i].status = "OFFLINE" => row'[i].cuf # NoCuf /\ row'[i].cuf.type = "OFFLINE",
           row'[i].status \in FinalPackage => row'[i].cuf # NoCuf,
           row'[i].status = "ACCEPTED" => siat[<<i, row'[i].cuf>>] = "accepted",
           row'[i].status = "REJECTED" => siat[<<i, row'[i].cuf>>] = "rejected",
           DOMAIN row = Invoices, \A p \in DOMAIN pkgs : Members(p) \subseteq Invoices
    PROVE  BackInv'
  <1>1. /\ \A p \in DOMAIN pkgs : Members(p)' = Members(p) /\ i \notin Members(p)
        /\ \A j : Packaged(j)' <=> Packaged(j)
    BY DEF Members, Packaged
  <1>2. Apart' /\ VerdictsFromLots' /\ LotsJudged' /\ AnswersBacked'
    <2>1. Apart' /\ VerdictsFromLots'
      BY DEF BackInv, Apart, VerdictsFromLots, Carries, Members
    <2>2. LotsJudged'
      BY DEF BackInv, LotsJudged, Members
    <2>3. AnswersBacked'
      BY DEF BackInv, AnswersBacked, Backed
    <2> QED
      BY <2>1, <2>2, <2>3
  <1>3. MemberRows' /\ FinalPackageSettles'
    BY <1>1 DEF BackInv, MemberRows, FinalPackageSettles
  <1>4. FreeRows'
    BY <1>1 DEF BackInv, FreeRows, OwnCode
  <1>5. StatusBackedBySiat'
    BY DEF BackInv, StatusBackedBySiat
  <1> QED
    BY <1>2, <1>3, <1>4, <1>5 DEF BackInv

\* The steps of single emissions, the reaper and the reconciliations.
LEMMA SingleBack ==
    ASSUME BatchInv, NEW i \in Invoices, Single(i)
    PROVE  BackInv'
  <1> DEFINE code == row[i].cuf
             Frame == /\ DOMAIN row' = DOMAIN row
                      /\ \A j \in DOMAIN row : j # i => row'[j] = row[j]
  <1>1. /\ row[i] \in RowRecords /\ DOMAIN row = Invoices /\ row \in [Invoices -> RowRecords]
        /\ \A p \in DOMAIN pkgs : Members(p) \subseteq Invoices
        /\ code # NoCuf => siat[<<i, code>>] \in {"none", "accepted", "rejected"}
    <2>1. row \in [Invoices -> RowRecords] /\ siat \in [Invoices \X Codes -> {"none", "accepted", "rejected"}]
      BY DEF BatchInv, BatchTypes, RowTypes
    <2> QED
      BY <2>1, MemberCodes DEF BatchInv, RowRecords
  <1>2. /\ i \in emitting => row[i].status = "SENDING" /\ ~Packaged(i)
        /\ row[i].status = "PENDING" => ~Packaged(i)
        /\ row[i].status \in {"PENDING", "SENDING"} /\ ~Packaged(i) => OwnCode(code)
    <2>1. i \in emitting => row[i].status = "SENDING" /\ ~Reserved(i)
      BY DEF BatchInv, HoldInv, HeldOnce, PackagedNotEmitted, EmittedSending
    <2>2. row[i].status = "PENDING" => ~Reserved(i)
      BY DEF BatchInv, HoldInv, ReservedTaken
    <2>3. row[i].status \in {"PENDING", "SENDING"} /\ ~Packaged(i) => OwnCode(code)
      BY DEF BatchInv, BackInv, FreeRows
    <2> QED
      BY <2>1, <2>2, <2>3, UnreservedIsFree
  <1>3. ASSUME ~Packaged(i), Frame, UNCHANGED <<pkgs, req, lot, siat>>,
               row'[i].status \in {"PENDING", "SENDING"}, OwnCode(row'[i].cuf)
        PROVE  BackInv'
    BY <1>1, <1>3, FreeRowBack DEF BatchInv, FinalPackage
  <1>4. CASE EmissionClaims(i)
    <2>1. Frame /\ row'[i].status = "SENDING" /\ row'[i].cuf = code /\ row[i].status = "PENDING"
      BY <1>1, <1>4 DEF EmissionClaims, RowRecords
    <2> QED
      BY <1>2, <1>3, <1>4, <2>1 DEF EmissionClaims
  <1>5. CASE EmissionReserves(i)
    <2>1. PICK doc \in Stored(i, OwnDocument(i)) : row' = [row EXCEPT ![i].cuf = doc]
      BY <1>5 DEF EmissionReserves
    <2>2. OwnCode(doc)
      BY <1>2, <1>5, <2>1 DEF EmissionReserves, Emitted, Stored, OwnDocument, OwnCode
    <2>3. Frame /\ row'[i].status = "SENDING" /\ row'[i].cuf = doc
      BY <1>1, <1>5, <2>1 DEF EmissionReserves, Emitted, RowRecords
    <2> QED
      BY <1>2, <1>3, <1>5, <2>2, <2>3 DEF EmissionReserves, Emitted
  <1>6. CASE EmissionDispatches(i)
    <2>1. /\ ~Packaged(i) /\ row[i].status = "SENDING" /\ code \in Codes /\ code.type = "ONLINE"
          /\ UNCHANGED <<row, pkgs, req, lot>>
      BY <1>1, <1>2, <1>6 DEF EmissionDispatches, OwnCode, RowRecords
    <2>2. PICK verdict \in {"accepted", "rejected"} : siat' = [siat EXCEPT ![<<i, code>>] = verdict]
      BY <1>6 DEF EmissionDispatches
    <2>3. \A j \in Invoices, c \in Codes : (j # i \/ c # code) => siat'[<<j, c>>] = siat[<<j, c>>]
      BY <2>2 DEF BatchInv, BatchTypes, RowTypes
    <2>4. Apart' /\ MemberRows' /\ FreeRows' /\ FinalPackageSettles' /\ AnswersBacked'
      <3>1. Apart' /\ MemberRows' /\ FinalPackageSettles'
        BY <2>1 DEF BatchInv, BackInv, Apart, MemberRows, Members, FinalPackageSettles
      <3>2. FreeRows'
        BY <2>1 DEF BatchInv, BackInv, FreeRows, Packaged, Members, OwnCode
      <3>3. AnswersBacked'
        BY <2>1 DEF BatchInv, BackInv, AnswersBacked, Backed
      <3> QED
        BY <3>1, <3>2, <3>3
    <2>5. VerdictsFromLots'
      BY <2>1, <2>3 DEF BatchInv, BackInv, VerdictsFromLots, Carries, Members
    <2>6. LotsJudged'
      <3>1. \A p \in DOMAIN pkgs : \A j \in Members(p) :
               siat'[<<j, pkgs[p].docs[j]>>] = siat[<<j, pkgs[p].docs[j]>>]
        BY <2>1, <2>3, MemberCodes DEF BatchInv
      <3> QED
        BY <2>1, <3>1 DEF BatchInv, BackInv, LotsJudged, Members
    <2>7. StatusBackedBySiat'
      <3> SUFFICES ASSUME NEW j \in Invoices
                   PROVE  /\ row[j].status = "ACCEPTED" => siat'[<<j, row[j].cuf>>] = "accepted"
                          /\ row[j].status = "REJECTED" => siat'[<<j, row[j].cuf>>] = "rejected"
        BY <1>1, <2>1 DEF StatusBackedBySiat
      <3>1. CASE j = i
        BY <2>1, <3>1
      <3>2. CASE j # i
        <4>1. siat'[<<j, row[j].cuf>>] = siat[<<j, row[j].cuf>>]
          BY <2>2, <3>2 DEF BatchInv, BatchTypes, RowTypes
        <4> QED
          BY <1>1, <4>1 DEF BatchInv, BackInv, StatusBackedBySiat
      <3> QED
        BY <3>1, <3>2
    <2> QED
      BY <2>4, <2>5, <2>6, <2>7 DEF BackInv
  <1>7. CASE EmissionAnswered(i)
    <2>1. /\ ~Packaged(i) /\ code # NoCuf /\ siat[<<i, code>>] \in {"accepted", "rejected"}
          /\ UNCHANGED <<pkgs, req, lot, siat>>
      BY <1>1, <1>2, <1>7 DEF EmissionAnswered, Emitted
    <2> DEFINE s == EmissionOutcome(siat[<<i, code>>])
    <2>2. \/ s = "ACCEPTED" /\ siat[<<i, code>>] = "accepted"
          \/ s = "REJECTED" /\ siat[<<i, code>>] = "rejected"
      BY <2>1 DEF EmissionOutcome
    <2>3. row' = [row EXCEPT ![i].status = s, ![i].received = TRUE]
      BY <1>7 DEF EmissionAnswered
    <2> HIDE DEF s
    <2>4. Frame /\ row'[i].status = s /\ row'[i].cuf = code
      BY <1>1, <2>3 DEF RowRecords
    <2> QED
      BY <1>1, <2>1, <2>2, <2>4, FreeRowBack DEF BatchInv
  <1>8. CASE EmissionRollsBack(i)
    <2>1. Frame /\ row'[i].status = "PENDING" /\ row'[i].cuf = code
      BY <1>1, <1>8 DEF EmissionRollsBack, RowRecords
    <2> QED
      BY <1>2, <1>3, <1>8, <2>1 DEF EmissionRollsBack, Emitted
  <1>9. CASE EmissionGoesOffline(i)
    <2> DEFINE doc == [type |-> "OFFLINE", cufd |-> row[i].cuf.cufd]
    <2>1. doc.type = "OFFLINE" /\ doc # NoCuf /\ ~Packaged(i) /\ UNCHANGED <<pkgs, req, lot, siat>>
      <3>1. doc \in Codes
        BY <1>1, <1>9 DEF EmissionGoesOffline, Codes, RowRecords
      <3> QED
        BY <1>2, <1>9, <3>1, NoCodeAssumption DEF EmissionGoesOffline, Emitted
    <2>2. row' = [row EXCEPT ![i].status = "OFFLINE", ![i].cuf = doc]
      BY <1>9 DEF EmissionGoesOffline
    <2> HIDE DEF doc
    <2>3. Frame /\ row'[i].status = "OFFLINE" /\ row'[i].cuf = doc
      BY <1>1, <2>2 DEF RowRecords
    <2> QED
      BY <1>1, <2>1, <2>3, FreeRowBack DEF BatchInv, FinalPackage
  <1>10. CASE EmissionDies(i)
    BY <1>10, BackKept DEF EmissionDies, BatchInv, BackInv, AnswersBacked, Backed
  <1>11. CASE Reap(i)
    <2>1. ~Packaged(i)
      BY <1>11, UnreservedIsFree DEF Reap, Stale
    <2>2. Frame /\ row'[i].status = "PENDING" /\ row'[i].cuf = code
      BY <1>1, <1>11 DEF Reap, RowRecords
    <2> QED
      BY <1>2, <1>3, <1>11, <2>1, <2>2 DEF Reap, Stale
  <1>12. CASE Reconcile(i)
    <2>1. PICK estado \in SiatEstadoToDomain(siat[<<i, code>>]) :
             /\ CanTransition(row[i].status, estado, "SIAT_RECONCILIATION")
             /\ row' = [row EXCEPT ![i].status = estado]
      BY <1>12 DEF Reconcile
    <2>2. \/ estado = "ACCEPTED" /\ siat[<<i, code>>] = "accepted"
          \/ estado = "REJECTED" /\ siat[<<i, code>>] = "rejected"
      BY <1>1, <1>12, <2>1 DEF Reconcile, SiatEstadoToDomain
    <2>3. row[i].status \notin FinalPackage
      BY <2>1, <2>2 DEF CanTransition, AllowedTransitions, Verdict, FinalPackage
    <2>4. /\ UNCHANGED <<pkgs, req, lot, siat>> /\ Frame
          /\ row'[i].status = estado /\ row'[i].cuf = code
      BY <1>1, <1>12, <2>1 DEF Reconcile, RowRecords
    <2>5. Apart' /\ VerdictsFromLots' /\ LotsJudged' /\ AnswersBacked'
      BY <2>4 DEF BatchInv, BackInv, Apart, VerdictsFromLots, LotsJudged, AnswersBacked, Backed,
                  Carries, Members
    <2>6. MemberRows'
      BY <1>1, <2>2, <2>4 DEF BatchInv, BackInv, MemberRows, Members, FinalPackage
    <2>7. FinalPackageSettles'
      BY <1>1, <2>3, <2>4 DEF BatchInv, BackInv, FinalPackageSettles, Members
    <2>8. FreeRows'
      BY <1>1, <1>12, <2>2, <2>4 DEF Reconcile, BatchInv, BackInv, FreeRows, Packaged, Members, OwnCode
    <2>9. StatusBackedBySiat'
      BY <1>1, <2>2, <2>4 DEF BatchInv, BackInv, StatusBackedBySiat
    <2> QED
      BY <2>5, <2>6, <2>7, <2>8, <2>9 DEF BackInv
  <1> QED
    BY <1>4, <1>5, <1>6, <1>7, <1>8, <1>9, <1>10, <1>11, <1>12 DEF Single

\* The answers to a sending are the lot's.
LEMMA SendingAnswersBacked ==
    ASSUME NEW p, NEW answer \in SendingAnswers(lot[p]) \cup {NoAnswer}
    PROVE  Backed(p, answer)
  <1> DEFINE state == lot[p]
  <1>1. CASE answer = NoAnswer
    BY <1>1 DEF Backed, NoAnswer, FinalPackage
  <1>2. CASE state \in {"pending", "observed"} /\ answer # NoAnswer
    BY <1>2 DEF SendingAnswers, Backed, NoAnswer, FinalPackage
  <1>3. CASE state = "validated" /\ answer # NoAnswer
    BY <1>3 DEF SendingAnswers, Backed
  <1>4. CASE state = "rejected" /\ answer # NoAnswer
    BY <1>4 DEF SendingAnswers, Backed
  <1>5. CASE state \notin {"pending", "observed", "validated", "rejected"}
    BY <1>1, <1>5 DEF SendingAnswers
  <1> QED
    BY <1>1, <1>2, <1>3, <1>4, <1>5

\* A request's answer changes, or the request has none any more.
LEMMA AnswerMoves ==
    ASSUME BatchInv, NEW r \in Requests, NEW w, req' = [req EXCEPT ![r] = w],
           UNCHANGED <<row, pkgs, lot, siat>>,
           w.pc \in {"consult", "update"} => Backed(w.pkg, w.answer)
    PROVE  BackInv'
  <1>1. \A p, answer : Backed(p, answer)' <=> Backed(p, answer)
    BY DEF Backed
  <1>2. \A s \in Requests : req'[s] = IF s = r THEN w ELSE req[s]
    BY DEF BatchInv, HoldInv, RequestsOK
  <1>3. AnswersBacked'
    BY <1>2 DEF BatchInv, BackInv, AnswersBacked, Backed
  <1> QED
    BY <1>3, BackKept DEF BatchInv

\* A request that goes on with its next batch asks nothing.
LEMMA NextBatchAsksNothing ==
    ASSUME BatchInv, NEW r \in Requests, NextBatch(r)
    PROVE  /\ req'[r].pc \notin {"consult", "update"}
           /\ \A s \in Requests : s # r => req'[s] = req[s]
  <1>1. req = [s \in Requests |-> req[s]]
    BY DEF BatchInv, HoldInv, RequestsOK
  <1>2. req'[r] = IF Len(req[r].todo) <= 1 THEN NoRequest
                  ELSE [NoRequest EXCEPT !.pc = "save", !.kind = req[r].kind,
                                         !.todo = Tail(req[r].todo), !.docs = req[r].docs]
    BY <1>1 DEF NextBatch
  <1>3. req'[r].pc \in {"idle", "save"}
    BY <1>2 DEF NoRequest
  <1> QED
    BY <1>1, <1>3 DEF NextBatch

\* The steps of a request that leave the packages and the rows alone.
LEMMA OwnStepBack ==
    ASSUME BatchInv, NEW r \in Requests,
           \/ \E kind \in BatchKinds, ids \in SUBSET Invoices : Select(r, kind, ids)
           \/ SaveDocument(r) \/ GiveUpBatch(r) \/ Cleanup(r) \/ Answer(r)
           \/ \E p \in 1..MaxPackages : ReadPackage(r, p)
           \/ Consult(r) \/ UpdateFails(r) \/ Crash(r)
    PROVE  BackInv'
  <1> DEFINE q == req[r]
  <1>1. /\ q \in RequestRecords /\ q.answer \in Answers /\ req = [s \in Requests |-> req[s]]
        /\ q = [f \in RequestFields |-> q[f]]
    BY DEF BatchInv, BatchTypes, RequestTypes, RequestRecords, HoldInv, RequestsOK
  <1>2. UNCHANGED <<row, pkgs, lot, siat>>
    BY DEF Select, SaveDocument, GiveUpBatch, Cleanup, Answer, ReadPackage, Consult,
           UpdateFails, Crash
  <1>3. ASSUME NextBatch(r) PROVE BackInv'
    <2>1. AnswersBacked'
      BY <1>2, <1>3, NextBatchAsksNothing DEF BatchInv, BackInv, AnswersBacked, Backed
    <2> QED
      BY <1>2, <2>1, BackKept DEF BatchInv
  <1>4. ASSUME NEW w, req' = [req EXCEPT ![r] = w], w.pc \notin {"consult", "update"}
        PROVE  BackInv'
    BY <1>2, <1>4, AnswerMoves
  <1>5. CASE \E kind \in BatchKinds, ids \in SUBSET Invoices : Select(r, kind, ids)
    <2>1. PICK todo, docs, kind :
             req' = [req EXCEPT ![r] = [NoRequest EXCEPT !.pc = "save", !.kind = kind,
                                          !.todo = todo, !.docs = docs]]
      BY <1>5 DEF Select
    <2> DEFINE w == [NoRequest EXCEPT !.pc = "save", !.kind = kind,
                                      !.todo = todo, !.docs = docs]
    <2>2. w.pc = "save" /\ req' = [req EXCEPT ![r] = w]
      BY <2>1 DEF NoRequest
    <2> HIDE DEF w
    <2> QED
      BY <1>4, <2>2
  <1>6. CASE SaveDocument(r)
    <2>1. PICK made : \E pc \in {"save", "reserve"} :
             req' = [req EXCEPT ![r].saved = @ + 1, ![r].made = made, ![r].pc = pc]
      BY <1>6 DEF SaveDocument, RAt
    <2>2. PICK pc \in {"save", "reserve"} :
             req' = [req EXCEPT ![r].saved = @ + 1, ![r].made = made, ![r].pc = pc]
      BY <2>1
    <2> DEFINE w == [q EXCEPT !.saved = @ + 1, !.made = made, !.pc = pc]
    <2>3. w.pc = pc
      BY <1>1 DEF RequestFields
    <2>4. req' = [req EXCEPT ![r] = w]
      BY <1>1, <2>2
    <2> HIDE DEF w
    <2> QED
      BY <1>4, <2>3, <2>4
  <1>7. CASE GiveUpBatch(r)
    <2> DEFINE w == [q EXCEPT !.pc = "clean"]
    <2>1. w.pc = "clean" /\ req' = [req EXCEPT ![r] = w]
      BY <1>1, <1>7 DEF GiveUpBatch, RequestFields
    <2> HIDE DEF w
    <2> QED
      BY <1>4, <2>1
  <1>8. CASE Cleanup(r)
    <2>1. CASE ~NextBatch(r)
      <3>1. PICK i : req' = [req EXCEPT ![r].made = @ \ {i}]
        BY <1>8, <2>1 DEF Cleanup
      <3> DEFINE w == [q EXCEPT !.made = @ \ {i}]
      <3>2. w.pc = "clean" /\ req' = [req EXCEPT ![r] = w]
        BY <1>1, <1>8, <3>1 DEF Cleanup, RAt, RequestFields
      <3> HIDE DEF w
      <3> QED
        BY <1>4, <3>2
    <2> QED
      BY <1>3, <2>1
  <1>9. ASSUME NEW answer, NEW p, NEW pc \in {"consult", "update"}, Backed(p, answer),
               req' = [req EXCEPT ![r] = [q EXCEPT !.pc = pc, !.pkg = p, !.answer = answer]]
        PROVE  BackInv'
    <2> DEFINE w == [q EXCEPT !.pc = pc, !.pkg = p, !.answer = answer]
    <2>1. req' = [req EXCEPT ![r] = w]
      BY <1>9
    <2> HIDE DEF q
    <2>2. w.pkg = p /\ w.answer = answer
      BY <1>1 DEF RequestFields
    <2> HIDE DEF w
    <2> QED
      BY <1>2, <1>9, <2>1, <2>2, AnswerMoves
  <1>10. ASSUME NEW answer, Backed(q.pkg, answer),
                req' = [req EXCEPT ![r].pc = "update", ![r].answer = answer]
         PROVE  BackInv'
    <2> DEFINE v == [q EXCEPT !.pc = "update", !.answer = answer]
               w == [q EXCEPT !.pc = "update", !.pkg = q.pkg, !.answer = answer]
    <2>1. req' = [req EXCEPT ![r] = v]
      BY <1>1, <1>10
    <2>2. v = w
      <3> HIDE DEF q
      <3> QED
        BY <1>1 DEF RequestFields
    <2> QED
      BY <1>9, <1>10, <2>1, <2>2
  <1>11. CASE Answer(r)
    BY <1>10, <1>11, SendingAnswersBacked DEF Answer
  <1>12. CASE \E p \in 1..MaxPackages : ReadPackage(r, p)
    <2>1. PICK p \in 1..MaxPackages : ReadPackage(r, p)
      BY <1>12
    <2> DEFINE answer == [NoAnswer EXCEPT !.status = pkgs[p].status, !.received = TRUE]
    <2>2. Backed(p, answer)
      BY DEF Backed, NoAnswer
    <2>3. req' = [req EXCEPT ![r] = [q EXCEPT !.pc = "consult", !.pkg = p, !.answer = answer]]
      BY <1>1, <2>1 DEF ReadPackage
    <2> HIDE DEF answer
    <2> QED
      BY <1>9, <2>2, <2>3
  <1>13. CASE Consult(r)
    <2> DEFINE answer == ValidationAnswer(lot[q.pkg], q.answer)
    <2>1. Backed(q.pkg, q.answer)
      BY <1>13 DEF Consult, RAt, BatchInv, BackInv, AnswersBacked
    <2>2. Backed(q.pkg, answer)
      <3> DEFINE state == lot[q.pkg]
                 read == q.answer
      <3>1. CASE state = "validated"
        BY <1>1, <3>1 DEF ValidationAnswer, Backed, Answers
      <3>2. CASE state = "rejected" /\ read.status # "ACCEPTED"
        BY <1>1, <3>2 DEF ValidationAnswer, Backed, Answers
      <3>3. CASE state # "validated" /\ ~(state = "rejected" /\ read.status # "ACCEPTED")
        BY <2>1, <3>3 DEF ValidationAnswer
      <3> QED
        BY <3>1, <3>2, <3>3
    <2>3. req' = [req EXCEPT ![r].pc = "update", ![r].answer = answer]
      BY <1>1, <1>13 DEF Consult
    <2> HIDE DEF answer
    <2> QED
      BY <1>10, <2>2, <2>3
  <1>14. CASE UpdateFails(r)
    BY <1>3, <1>14 DEF UpdateFails
  <1>15. CASE Crash(r)
    BY <1>4, <1>15 DEF Crash, NoRequest
  <1> QED
    BY <1>5, <1>6, <1>7, <1>8, <1>11, <1>12, <1>13, <1>14, <1>15

\* What the packages say does not change when they keep members, codes and status.
LEMMA SendBack ==
    ASSUME BatchInv, NEW r \in Requests, SendBatch(r)
    PROVE  BackInv'
  <1> DEFINE n == req[r].pkg
             w == [pkgs[n] EXCEPT !.sent = TRUE]
  <1>1. n \in DOMAIN pkgs /\ pkgs' = [pkgs EXCEPT ![n] = w]
    BY DEF SendBatch, RAt, BatchInv, HoldInv, RequestsOK, Sent, PackagesOK
  <1>2. w.ids = pkgs[n].ids /\ w.docs = pkgs[n].docs /\ w.status = pkgs[n].status
    BY <1>1 DEF BatchInv, HoldInv, PackagesOK, PackageFields
  <1> HIDE DEF w
  <1>3. /\ DOMAIN pkgs' = DOMAIN pkgs
        /\ \A p \in DOMAIN pkgs : /\ pkgs'[p].docs = pkgs[p].docs /\ pkgs'[p].status = pkgs[p].status
                                  /\ pkgs'[p].ids = pkgs[p].ids
    BY <1>1, <1>2 DEF BatchInv, HoldInv, PackagesOK
  <1>4. \A p \in DOMAIN pkgs : Members(p)' = Members(p)
    BY <1>3 DEF Members
  <1>5. UNCHANGED <<row, lot, siat>>
    BY DEF SendBatch
  <1>6. Apart' /\ MemberRows' /\ FreeRows' /\ FinalPackageSettles'
    BY <1>3, <1>4, <1>5 DEF BatchInv, BackInv, Apart, MemberRows, FreeRows, Packaged, OwnCode,
                            FinalPackageSettles
  <1>7. VerdictsFromLots' /\ LotsJudged' /\ StatusBackedBySiat'
    BY <1>3, <1>4, <1>5 DEF BatchInv, BackInv, VerdictsFromLots, LotsJudged, StatusBackedBySiat,
                            Carries
  <1>8. AnswersBacked'
    <2>1. ASSUME NEW s \in Requests
          PROVE  /\ s # r => req'[s] = req[s]
                 /\ req'[r].pc = "await"
      BY DEF SendBatch, BatchInv, HoldInv, RequestsOK, RequestFields
    <2>2. \A s \in Requests : req[s].pc \in {"consult", "update"} => req[s].pkg \in DOMAIN pkgs
      BY DEF BatchInv, HoldInv, RequestsOK, Sent
    <2> QED
      BY <1>3, <1>5, <2>1, <2>2 DEF BatchInv, BackInv, AnswersBacked, Backed
  <1> QED
    BY <1>6, <1>7, <1>8 DEF BackInv

\* An answer settles the open members with the verdict the lot has; the others
\* have that verdict already.
LEMMA UpdateBack ==
    ASSUME BatchInv, NEW r \in Requests, UpdateBatch(r)
    PROVE  BackInv'
  <1> DEFINE n == req[r].pkg
             answer == req[r].answer
             w == [pkgs[n] EXCEPT !.status = answer.status, !.received = answer.received]
  <1>1. /\ n \in DOMAIN pkgs /\ Backed(n, answer) /\ UNCHANGED <<lot, siat>>
        /\ Advances(n, answer)
        /\ row = [i \in Invoices |-> row[i]] /\ row \in [Invoices -> RowRecords]
    BY DEF UpdateBatch, RAt, BatchInv, HoldInv, RequestsOK, RowsOK, Sent, BackInv, AnswersBacked,
           BatchTypes, RowTypes
  <1>2. /\ req'[r].pc \notin {"consult", "update"}
        /\ \A s \in Requests : s # r => req'[s] = req[s]
    BY NextBatchAsksNothing DEF UpdateBatch
  <1>3. \A s \in Requests : req[s].pc \in {"consult", "update"} =>
           req[s].pkg \in DOMAIN pkgs /\ Backed(req[s].pkg, req[s].answer)
    BY DEF BatchInv, HoldInv, RequestsOK, Sent, BackInv, AnswersBacked
  <1>4. CASE Repeats(n, answer)
    <2>1. UNCHANGED <<row, pkgs, lot, siat>>
      BY <1>1, <1>4 DEF UpdateBatch
    <2>2. AnswersBacked'
      BY <1>2, <1>3, <2>1 DEF AnswersBacked, Backed
    <2> QED
      BY <2>1, <2>2, BackKept DEF BatchInv
  <1>5. CASE ~Repeats(n, answer)
    <2>1. /\ pkgs' = [pkgs EXCEPT ![n] = w]
          /\ row' = [i \in Invoices |->
                       IF Settles(n, answer, i)
                       THEN [row[i] EXCEPT !.status = CHOOSE to \in answer.to : TRUE,
                                           !.received = @ \/ answer.received]
                       ELSE row[i]]
          /\ pkgs[n].status \notin FinalPackage
      BY <1>5 DEF UpdateBatch, Advances, BatchInv, HoldInv, PackagesOK
    <2>2. w.ids = pkgs[n].ids /\ w.docs = pkgs[n].docs /\ w.status = answer.status
      BY <1>1 DEF BatchInv, HoldInv, PackagesOK, PackageFields
    <2> HIDE DEF w, n, answer
    <2>3. /\ DOMAIN pkgs' = DOMAIN pkgs /\ pkgs'[n].status = answer.status
          /\ \A p \in DOMAIN pkgs : /\ pkgs'[p].docs = pkgs[p].docs /\ pkgs'[p].ids = pkgs[p].ids
                                    /\ p # n => pkgs'[p].status = pkgs[p].status
      BY <1>1, <2>1, <2>2 DEF BatchInv, HoldInv, PackagesOK
    <2>4. \A p \in DOMAIN pkgs : Members(p)' = Members(p)
      BY <2>3 DEF Members
    <2>5. ASSUME NEW i \in Invoices, Settles(n, answer, i)
          PROVE  /\ row'[i].cuf = row[i].cuf /\ answer.to = {row'[i].status}
                 /\ row'[i].status \in {"SENT", "ACCEPTED", "REJECTED"}
      <3> DEFINE to == CHOOSE to \in answer.to : TRUE
                 rec == row[i].received \/ answer.received
      <3>1. row'[i] = [row[i] EXCEPT !.status = to, !.received = rec]
        BY <2>1, <2>5
      <3>2. answer.to = {to} /\ to \in {"SENT", "ACCEPTED", "REJECTED"}
        BY <1>1, <2>5 DEF Backed, Settles
      <3> HIDE DEF to, rec
      <3>3. row'[i].status = to /\ row'[i].cuf = row[i].cuf
        BY <1>1, <3>1 DEF RowRecords
      <3> QED
        BY <3>2, <3>3
    <2>6. \A i \in Invoices : ~Settles(n, answer, i) => row'[i] = row[i]
      BY <2>1
    <2>7. \A i \in Invoices : row'[i].cuf = row[i].cuf
      BY <2>5, <2>6
    <2>8. Apart'
      BY <2>3, <2>4 DEF BatchInv, BackInv, Apart
    <2>9. MemberRows'
      <3> SUFFICES ASSUME NEW p \in DOMAIN pkgs, NEW i \in Members(p)
                   PROVE  /\ row'[i].cuf = pkgs[p].docs[i]
                          /\ row'[i].status \in Open \cup FinalPackage
        BY <2>3, <2>4 DEF MemberRows
      <3>1. i \in Invoices
        BY MemberCodes DEF BatchInv
      <3>2. row[i].cuf = pkgs[p].docs[i] /\ row[i].status \in Open \cup FinalPackage
        BY DEF BatchInv, BackInv, MemberRows
      <3> QED
        BY <2>5, <2>6, <2>7, <3>1, <3>2 DEF Open, FinalPackage
    <2>10. FreeRows'
      <3>1. \A i : Packaged(i)' <=> Packaged(i)
        BY <2>3, <2>4 DEF Packaged
      <3> SUFFICES ASSUME NEW i \in Invoices
                   PROVE  /\ row'[i].status \in {"PENDING", "SENDING"} /\ ~Packaged(i)
                                => OwnCode(row'[i].cuf)
                          /\ row'[i].status = "OFFLINE"
                                => row'[i].cuf # NoCuf /\ row'[i].cuf.type = "OFFLINE"
                          /\ row'[i].status \in FinalPackage => row'[i].cuf # NoCuf
        BY <3>1 DEF FreeRows, OwnCode
      <3>2. Settles(n, answer, i) => row[i].cuf # NoCuf
        BY <1>1, MemberCodes, NoCodeAssumption DEF Settles, BatchInv, BackInv, MemberRows
      <3> QED
        BY <2>5, <2>6, <2>7, <3>2 DEF BatchInv, BackInv, FreeRows
    <2>11. VerdictsFromLots' /\ LotsJudged'
      BY <1>1, <2>3, <2>4 DEF BatchInv, BackInv, VerdictsFromLots, LotsJudged, Carries
    <2>12. AnswersBacked'
      <3> SUFFICES ASSUME NEW s \in Requests, req'[s].pc \in {"consult", "update"}
                   PROVE  Backed(req[s].pkg, req[s].answer)'
        BY DEF AnswersBacked
      <3>1. s # r /\ req'[s] = req[s]
        BY <1>2
      <3>2. req[s].pkg \in DOMAIN pkgs /\ Backed(req[s].pkg, req[s].answer)
        BY <1>3, <3>1
      <3> DEFINE p == req[s].pkg
                 a == req[s].answer
      <3>3. CASE a.to = {} /\ (a.status \in FinalPackage => pkgs[p].status = a.status)
        <4>1. a.status \in FinalPackage => p # n
          BY <2>1, <3>3
        <4>2. a.status \in FinalPackage => pkgs'[p].status = a.status
          BY <2>3, <3>2, <3>3, <4>1
        <4> QED
          BY <3>1, <3>3, <4>2 DEF Backed
      <3>4. CASE ~(a.to = {} /\ (a.status \in FinalPackage => pkgs[p].status = a.status))
        BY <1>1, <3>1, <3>2, <3>4 DEF Backed
      <3> QED
        BY <3>3, <3>4
    <2>13. StatusBackedBySiat'
      <3> SUFFICES ASSUME NEW i \in Invoices
                   PROVE  /\ row'[i].status = "ACCEPTED" => siat[<<i, row'[i].cuf>>] = "accepted"
                          /\ row'[i].status = "REJECTED" => siat[<<i, row'[i].cuf>>] = "rejected"
        BY <1>1, <2>1 DEF StatusBackedBySiat
      <3>1. CASE Settles(n, answer, i)
        <4>1. i \in Members(n) /\ row'[i].cuf = pkgs[n].docs[i] /\ n \in 1..MaxPackages
          <5>1. i \in Members(n)
            BY <3>1 DEF Settles
          <5>2. row[i].cuf = pkgs[n].docs[i]
            BY <1>1, <5>1 DEF BatchInv, BackInv, MemberRows
          <5> QED
            BY <1>1, <2>7, <5>1, <5>2, MemberCodes DEF BatchInv
        <4>2. /\ answer.to = {"ACCEPTED"} => lot[n] = "validated"
              /\ answer.to = {"REJECTED"} => lot[n] = "rejected"
          BY <1>1 DEF Backed
        <4> QED
          BY <2>5, <3>1, <4>1, <4>2 DEF BatchInv, BackInv, LotsJudged
      <3>2. CASE ~Settles(n, answer, i)
        BY <1>1, <2>6, <3>2 DEF BatchInv, BackInv, StatusBackedBySiat
      <3> QED
        BY <3>1, <3>2
    <2>14. FinalPackageSettles'
      <3> SUFFICES ASSUME NEW p \in DOMAIN pkgs, pkgs'[p].status \in FinalPackage,
                          NEW i \in Members(p)
                   PROVE  row'[i].status = pkgs'[p].status
        BY <2>3, <2>4 DEF FinalPackageSettles
      <3>1. i \in Invoices /\ p \in 1..MaxPackages
        BY MemberCodes DEF BatchInv
      <3>2. CASE p # n
        <4>1. i \notin Members(n)
          BY <1>1, <3>2 DEF BatchInv, BackInv, Apart
        <4>2. row'[i] = row[i]
          BY <2>6, <3>1, <4>1 DEF Settles
        <4> QED
          BY <2>3, <3>2, <4>2 DEF BatchInv, BackInv, FinalPackageSettles
      <3>3. CASE p = n
        <4>1. /\ row[i].cuf = pkgs[n].docs[i] /\ row[i].status \in Open \cup FinalPackage
              /\ answer.status \in FinalPackage
          BY <2>3, <3>3 DEF BatchInv, BackInv, MemberRows
        <4>2. /\ answer.to = {answer.status}
              /\ answer.status = "ACCEPTED" => lot[n] = "validated"
              /\ answer.status = "REJECTED" => lot[n] = "rejected"
          BY <1>1, <2>1, <4>1 DEF Backed, FinalPackage
        <4>3. CASE row[i].status \in Open
          <5>1. Settles(n, answer, i)
            BY <3>3, <4>2, <4>3 DEF Settles
          <5>2. answer.to = {row'[i].status}
            BY <2>5, <3>1, <5>1
          <5> QED
            BY <2>3, <3>3, <4>2, <5>2
        <4>4. CASE row[i].status \notin Open
          <5>1. row'[i] = row[i] /\ row[i].status \in FinalPackage
            BY <2>6, <3>1, <4>1, <4>4 DEF Settles
          <5>2. /\ row[i].status = "ACCEPTED" => siat[<<i, row[i].cuf>>] = "accepted"
                /\ row[i].status = "REJECTED" => siat[<<i, row[i].cuf>>] = "rejected"
            BY <1>1, <3>1 DEF BatchInv, BackInv, StatusBackedBySiat
          <5>3. /\ answer.status = "ACCEPTED" => siat[<<i, row[i].cuf>>] = "accepted"
                /\ answer.status = "REJECTED" => siat[<<i, row[i].cuf>>] = "rejected"
            BY <3>1, <3>3, <4>1, <4>2 DEF BatchInv, BackInv, LotsJudged
          <5>4. row[i].status = answer.status
            BY <4>1, <5>1, <5>2, <5>3 DEF FinalPackage
          <5> QED
            BY <2>3, <3>3, <5>1, <5>4
        <4> QED
          BY <4>3, <4>4
      <3> QED
        BY <3>2, <3>3
    <2> QED
      BY <2>8, <2>9, <2>10, <2>11, <2>12, <2>13, <2>14 DEF BackInv
  <1> QED
    BY <1>4, <1>5

\* A reservation takes invoices that are in no package, rejected ones included.
LEMMA ReserveBack ==
    ASSUME BatchInv, NEW r \in Requests, ReserveBatch(r)
    PROVE  BackInv'
  <1>0. PICK n : n = Len(pkgs) + 1
    OBVIOUS
  <1> DEFINE q == req[r]
             kind == req[r].kind
             docs == req[r].docs
             ids == ToSet(Batch(r))
             new == [kind |-> kind, ids |-> Batch(r), docs |-> docs,
                     status |-> "SENDING", received |-> FALSE, sent |-> FALSE]
  <1>1. /\ pkgs' = Append(pkgs, new) /\ UNCHANGED <<lot, siat>>
        /\ row' = [i \in Invoices |-> IF i \in ids THEN ReservedRow(kind, docs[i], row[i])
                                                  ELSE row[i]]
    BY DEF ReserveBatch
  <1>2. /\ DOMAIN pkgs = 1..Len(pkgs) /\ Len(pkgs) \in Nat
        /\ DOMAIN pkgs' = DOMAIN pkgs \cup {n} /\ pkgs'[n] = new /\ n \notin DOMAIN pkgs
        /\ \A p \in DOMAIN pkgs : pkgs'[p] = pkgs[p]
    <2> DEFINE S == PackageRecords \cup {new}
    <2>1. pkgs \in Seq(PackageRecords)
      BY DEF BatchInv, BatchTypes, PackageTypes
    <2> HIDE DEF new
    <2>2. /\ DOMAIN pkgs = 1..Len(pkgs) /\ Len(pkgs) \in Nat
          /\ \A p \in 1..Len(pkgs) : pkgs[p] \in PackageRecords
      BY <2>1, PackageAt
    <2>3. \A p \in 1..Len(pkgs) : pkgs[p] \in S
      BY <2>2
    <2>4. new \in S
      OBVIOUS
    <2> HIDE DEF S
    <2>5. pkgs \in [1..Len(pkgs) -> S]
      BY <2>1, <2>2, <2>3
    <2>6. pkgs \in Seq(S)
      BY <2>2, <2>5, SeqDef
    <2>7. /\ pkgs' \in Seq(S) /\ Len(pkgs') = n /\ pkgs'[n] = new
          /\ \A p \in 1..Len(pkgs) : pkgs'[p] = pkgs[p]
      BY <1>0, <1>1, <2>4, <2>6, AppendProperties
    <2>8. DOMAIN pkgs' = 1..n
      BY <1>0, <2>2, <2>7
    <2> QED
      BY <1>0, <2>2, <2>7, <2>8
  <1>3. /\ \A p \in DOMAIN pkgs : Members(p)' = Members(p)
        /\ Members(n)' = ids /\ new.docs = docs /\ new.status = "SENDING"
    BY <1>2 DEF Members
  <1>4. row \in [Invoices -> RowRecords] /\ kind \in BatchKinds
    BY DEF BatchInv, BatchTypes, RowTypes, RequestTypes, RequestRecords
  <1>5. ASSUME NEW i \in ids
        PROVE  /\ ~Packaged(i)
               /\ \/ kind = "MASIVA" /\ row[i].status = "PENDING"
                  \/ kind = "PAQUETE" /\ row[i].status = "OFFLINE" /\ row[i].cuf = docs[i]
    <2>1. Available(kind, docs[i], i) /\ ~Reserved(i)
      BY DEF ReserveBatch, Reservable
    <2> QED
      BY <2>1, UnreservedIsFree DEF Available
  <1>6. ids \subseteq Invoices
    <2>1. /\ q \in RequestRecords /\ SoundRequest(q) /\ q.pc = "reserve"
      BY DEF ReserveBatch, RAt, BatchInv, BatchTypes, RequestTypes
    <2>2. /\ q.todo \in Seq(Seq(Invoices)) /\ q.todo # << >> /\ Batch(r) = Head(q.todo)
      BY <2>1 DEF RequestRecords, SoundRequest, Batch
    <2> HIDE DEF q
    <2>3. Batch(r) \in Seq(Invoices)
      BY <2>2
    <2> QED
      BY <2>3 DEF ToSet
  <1> HIDE DEF new, ids, docs, kind
  <1>7. ASSUME NEW i \in ids
        PROVE  \/ row'[i].status = "SENDING" /\ row'[i].cuf = docs[i]
               \/ row'[i] = row[i] /\ row[i].status = "OFFLINE" /\ row[i].cuf = docs[i]
    <2>1. i \in Invoices /\ row[i] \in RowRecords
      BY <1>4, <1>6
    <2>2. CASE kind = "MASIVA"
      <3> DEFINE d == docs[i]
      <3>1. row'[i] = [row[i] EXCEPT !.status = "SENDING", !.cuf = d]
        BY <1>1, <2>1, <2>2 DEF ReservedRow
      <3> HIDE DEF d
      <3>2. row'[i].status = "SENDING" /\ row'[i].cuf = d
        BY <2>1, <3>1 DEF RowRecords
      <3> QED
        BY <3>2 DEF d
    <2>3. CASE kind # "MASIVA"
      BY <1>1, <1>5, <2>1, <2>3 DEF ReservedRow
    <2> QED
      BY <2>2, <2>3
  <1>8. \A i \in Invoices \ ids : row'[i] = row[i]
    BY <1>1
  <1>9. \A p \in DOMAIN pkgs : \A i \in Members(p) : i \notin ids /\ row'[i] = row[i]
    <2> SUFFICES ASSUME NEW p \in DOMAIN pkgs, NEW i \in Members(p)
                 PROVE  i \notin ids /\ row'[i] = row[i]
      OBVIOUS
    <2>1. i \in Invoices /\ Packaged(i)
      BY MemberCodes DEF Packaged, BatchInv
    <2> QED
      BY <1>5, <1>8, <2>1
  <1>10. Apart'
    BY <1>2, <1>3, <1>9 DEF BatchInv, BackInv, Apart
  <1>11. MemberRows'
    <2> SUFFICES ASSUME NEW p \in DOMAIN pkgs', NEW i \in Members(p)'
                 PROVE  row'[i].cuf = pkgs'[p].docs[i] /\ row'[i].status \in Open \cup FinalPackage
      BY DEF MemberRows
    <2>1. CASE p \in DOMAIN pkgs
      BY <1>2, <1>3, <1>9, <2>1 DEF BatchInv, BackInv, MemberRows
    <2>2. CASE p = n
      BY <1>2, <1>3, <1>7, <2>2 DEF Open
    <2> QED
      BY <1>2, <2>1, <2>2
  <1>12. FreeRows'
    <2>1. \A i \in Invoices : ~Packaged(i)' => ~Packaged(i) /\ i \notin ids
      BY <1>2, <1>3 DEF Packaged
    <2>2. \A i \in Invoices : row'[i].status # "SENDING" => row'[i] = row[i]
      BY <1>7, <1>8
    <2> SUFFICES ASSUME NEW i \in Invoices
                 PROVE  /\ row'[i].status \in {"PENDING", "SENDING"} /\ ~Packaged(i)'
                              => OwnCode(row'[i].cuf)
                        /\ row'[i].status = "OFFLINE"
                              => row'[i].cuf # NoCuf /\ row'[i].cuf.type = "OFFLINE"
                        /\ row'[i].status \in FinalPackage => row'[i].cuf # NoCuf
      BY DEF FreeRows, OwnCode
    <2> QED
      BY <1>8, <2>1, <2>2 DEF BatchInv, BackInv, FreeRows, FinalPackage
  <1>13. VerdictsFromLots' /\ LotsJudged'
    <2>1. VerdictsFromLots'
      BY <1>1, <1>2, <1>3 DEF BatchInv, BackInv, VerdictsFromLots, Carries
    <2>2. LotsJudged'
      BY <1>1, <1>2, <1>3 DEF BatchInv, BackInv, LotsJudged
    <2> QED
      BY <2>1, <2>2
  <1>14. AnswersBacked'
    <2>1. req'[r].pc = "send" /\ \A s \in Requests : s # r => req'[s] = req[s]
      BY DEF ReserveBatch, BatchInv, HoldInv, RequestsOK, RequestFields
    <2>2. \A s \in Requests : req[s].pc \in {"consult", "update"} => req[s].pkg \in DOMAIN pkgs
      BY DEF BatchInv, HoldInv, RequestsOK, Sent
    <2> QED
      BY <1>1, <1>2, <2>1, <2>2 DEF BatchInv, BackInv, AnswersBacked, Backed
  <1>15. StatusBackedBySiat'
    <2>1. DOMAIN row' = Invoices /\ DOMAIN row = Invoices
      BY <1>1, <1>4
    <2>2. \A i \in Invoices : row'[i].status \in {"ACCEPTED", "REJECTED"} => row'[i] = row[i]
      BY <1>7, <1>8
    <2> QED
      BY <1>1, <2>1, <2>2 DEF BatchInv, BackInv, StatusBackedBySiat
  <1>16. FinalPackageSettles'
    <2>1. pkgs'[n].status \notin FinalPackage
      BY <1>2, <1>3 DEF FinalPackage
    <2> QED
      BY <1>2, <1>3, <1>9, <2>1 DEF BatchInv, BackInv, FinalPackageSettles
  <1> QED
    BY <1>10, <1>11, <1>12, <1>13, <1>14, <1>15, <1>16 DEF BackInv

\* Before its lot is judged no member of a package has a verdict: a code is judged
\* with the only package that carries it.
LEMMA UnjudgedHasNoVerdict ==
    ASSUME BatchInv, NEW p \in DOMAIN pkgs, lot[p] \notin Judged, NEW i \in Members(p)
    PROVE  siat[<<i, pkgs[p].docs[i]>>] = "none"
  <1> DEFINE c == pkgs[p].docs[i]
  <1>1. i \in Invoices /\ c \in Codes /\ c.type # "ONLINE"
    BY MemberCodes DEF BatchInv
  <1> SUFFICES ASSUME siat[<<i, c>>] # "none" PROVE FALSE
    OBVIOUS
  <1> HIDE DEF c
  <1>2. PICK q \in DOMAIN pkgs : Carries(q, i, c) /\ lot[q] \in Judged
    BY <1>1 DEF BatchInv, BackInv, VerdictsFromLots
  <1>3. q = p
    BY <1>2 DEF BatchInv, BackInv, Apart, Carries
  <1> QED
    BY <1>2, <1>3

\* The SIAT judges a lot.
LEMMA JudgeBack ==
    ASSUME BatchInv, NEW p \in DOMAIN pkgs, lot[p] \notin Judged, NEW verdict, NEW state \in Judged,
           Judge(p, verdict), lot' = [lot EXCEPT ![p] = state],
           \A i \in Members(p) : verdict[i] \in {"accepted", "rejected"},
           state = "validated" => \A i \in Members(p) : verdict[i] = "accepted",
           state = "rejected" => \A i \in Members(p) : verdict[i] = "rejected",
           UNCHANGED <<row, pkgs, req>>
    PROVE  BackInv'
  <1>1. /\ lot \in [1..MaxPackages -> LotStates]
        /\ DOMAIN siat = Invoices \X Codes
    BY DEF BatchInv, BatchTypes, RowTypes
  <1>2. \A q \in 1..MaxPackages : q # p => lot'[q] = lot[q]
    BY <1>1
  <1>3. \A q : Members(q)' = Members(q)
    BY DEF Members
  <1>4. ASSUME NEW i \in Invoices, NEW c \in Codes
        PROVE  /\ siat[<<i, c>>] # "none" => siat'[<<i, c>>] = siat[<<i, c>>]
               /\ ~Carries(p, i, c) => siat'[<<i, c>>] = siat[<<i, c>>]
               /\ Carries(p, i, c) /\ siat[<<i, c>>] = "none" => siat'[<<i, c>>] = verdict[i]
    <2> DEFINE k == <<i, c>>
    <2>1. k \in DOMAIN siat /\ k[1] = i /\ k[2] = c
      BY <1>1
    <2>2. siat'[k] = IF Carries(p, k[1], k[2]) /\ siat[k] = "none" THEN verdict[k[1]] ELSE siat[k]
      BY <2>1 DEF Judge
    <2> QED
      BY <2>1, <2>2
  <1>5. /\ p \in 1..MaxPackages
        /\ \A i \in Members(p) : siat'[<<i, pkgs[p].docs[i]>>] = verdict[i]
    <2> SUFFICES ASSUME NEW i \in Members(p)
                 PROVE  p \in 1..MaxPackages /\ siat'[<<i, pkgs[p].docs[i]>>] = verdict[i]
      <3>1. SoundPackage(pkgs[p])
        BY DEF BatchInv, BatchTypes, PackageTypes
      <3>2. pkgs[p].ids # << >> /\ pkgs[p] \in PackageRecords
        BY <3>1, PackageAt DEF SoundPackage, BatchInv, BatchTypes, PackageTypes
      <3>3. pkgs[p].ids \in Seq(Invoices)
        BY <3>2 DEF PackageRecords
      <3> DEFINE s == pkgs[p].ids
      <3>4. s \in Seq(Invoices) /\ s # << >>
        BY <3>2, <3>3
      <3> HIDE DEF s
      <3>5. ToSet(s) # {}
        BY <3>4 DEF ToSet
      <3> QED
        BY <3>5 DEF Members, s
    <2>1. i \in Invoices /\ p \in 1..MaxPackages /\ pkgs[p].docs[i] \in Codes
      BY MemberCodes DEF BatchInv
    <2>2. siat[<<i, pkgs[p].docs[i]>>] = "none"
      BY UnjudgedHasNoVerdict
    <2> QED
      BY <1>4, <2>1, <2>2 DEF Carries
  <1>6. lot'[p] = state
    BY <1>1, <1>5
  <1>7. Apart' /\ MemberRows' /\ FreeRows' /\ FinalPackageSettles'
    BY <1>3 DEF BatchInv, BackInv, Apart, MemberRows, FreeRows, Packaged, OwnCode,
                FinalPackageSettles
  <1>8. VerdictsFromLots'
    <2> SUFFICES ASSUME NEW i \in Invoices, NEW c \in Codes, siat'[<<i, c>>] # "none",
                        c.type # "ONLINE"
                 PROVE  \E q \in DOMAIN pkgs : Carries(q, i, c) /\ lot'[q] \in Judged
      BY <1>3 DEF VerdictsFromLots, Carries
    <2>1. CASE Carries(p, i, c)
      BY <1>6, <2>1
    <2>2. CASE ~Carries(p, i, c)
      <3>1. PICK q \in DOMAIN pkgs : Carries(q, i, c) /\ lot[q] \in Judged
        BY <1>4, <2>2 DEF BatchInv, BackInv, VerdictsFromLots
      <3>2. q # p /\ q \in 1..MaxPackages
        BY <2>2, <3>1, MemberCodes DEF Carries, BatchInv
      <3> QED
        BY <1>2, <3>1, <3>2
    <2> QED
      BY <2>1, <2>2
  <1>9. LotsJudged'
    <2> SUFFICES ASSUME NEW q \in 1..MaxPackages
                 PROVE  /\ lot'[q] # "none" => q \in DOMAIN pkgs
                        /\ lot'[q] = "validated" =>
                             \A i \in Members(q) : siat'[<<i, pkgs[q].docs[i]>>] = "accepted"
                        /\ lot'[q] = "rejected" =>
                             \A i \in Members(q) : siat'[<<i, pkgs[q].docs[i]>>] = "rejected"
      BY <1>3 DEF LotsJudged
    <2>1. CASE q = p
      BY <1>5, <1>6, <2>1
    <2>2. CASE q # p
      <3>1. lot'[q] = lot[q] /\ (lot[q] # "none" => q \in DOMAIN pkgs)
        BY <1>2, <2>2 DEF BatchInv, BackInv, LotsJudged
      <3>2. \A i \in Members(q) : q \in DOMAIN pkgs => i \in Invoices /\ pkgs[q].docs[i] \in Codes
        BY MemberCodes DEF BatchInv
      <3> QED
        BY <1>4, <3>1, <3>2 DEF BatchInv, BackInv, LotsJudged
    <2> QED
      BY <2>1, <2>2
  <1>10. AnswersBacked'
    <2>1. \A s \in Requests : req[s].pc \in {"consult", "update"} => req[s].pkg \in DOMAIN pkgs
      BY DEF BatchInv, HoldInv, RequestsOK, Sent
    <2>2. \A q \in DOMAIN pkgs : q \in 1..MaxPackages
      <3>1. DOMAIN pkgs = 1..Len(pkgs) /\ Len(pkgs) \in Nat /\ Len(pkgs) <= MaxPackages
        BY PackageAt DEF BatchInv, BatchTypes, PackageTypes
      <3> QED
        BY <3>1, BatchBoundAssumption
    <2>3. \A q \in DOMAIN pkgs : lot[q] \in {"validated", "rejected"} => lot'[q] = lot[q]
      BY <1>2, <2>2 DEF Judged
    <2> QED
      BY <2>1, <2>3 DEF BatchInv, BackInv, AnswersBacked, Backed
  <1>11. StatusBackedBySiat'
    <2> SUFFICES ASSUME NEW i \in Invoices, row[i].status \in {"ACCEPTED", "REJECTED"}
                 PROVE  siat'[<<i, row[i].cuf>>] = siat[<<i, row[i].cuf>>]
      BY DEF BatchInv, BackInv, BatchTypes, RowTypes, StatusBackedBySiat
    <2>1. siat[<<i, row[i].cuf>>] \in {"accepted", "rejected"}
      BY DEF BatchInv, BackInv, BatchTypes, RowTypes, StatusBackedBySiat
    <2>2. row[i].cuf \in Codes
      BY DEF BatchInv, BatchTypes, RowTypes, RowRecords, BackInv, FreeRows, FinalPackage
    <2> QED
      BY <1>4, <2>1, <2>2
  <1> QED
    BY <1>7, <1>8, <1>9, <1>10, <1>11 DEF BackInv

\* The SIAT's steps.
LEMMA LotBack ==
    ASSUME BatchInv, NEW p \in 1..MaxPackages, ReceiveLot(p) \/ ValidateLot(p)
    PROVE  BackInv'
  <1>1. /\ lot \in [1..MaxPackages -> LotStates] /\ UNCHANGED <<row, pkgs, req>>
        /\ lot[p] # "none" => p \in DOMAIN pkgs
    BY DEF ReceiveLot, ValidateLot, BatchInv, BatchTypes, RowTypes, BackInv, LotsJudged
  <1>2. CASE ReceiveLot(p)
    <2>1. PICK state \in {"pending", "validated", "rejected"} :
             /\ lot' = [lot EXCEPT ![p] = state]
             /\ CASE state = "validated" -> Judge(p, [i \in Members(p) |-> "accepted"])
                  [] state = "rejected"  -> Judge(p, [i \in Members(p) |-> "rejected"])
                  [] OTHER               -> UNCHANGED siat
      BY <1>2 DEF ReceiveLot
    <2>2. p \in DOMAIN pkgs /\ lot[p] = "none"
      BY <1>2 DEF ReceiveLot
    <2>3. CASE state = "pending"
      <3>1. \A q \in 1..MaxPackages : lot'[q] = lot[q] \/ (q = p /\ lot'[q] = "pending")
        BY <1>1, <2>1, <2>3
      <3>2. UNCHANGED siat
        BY <2>1, <2>3
      <3>3. Apart' /\ MemberRows' /\ FreeRows' /\ FinalPackageSettles' /\ StatusBackedBySiat'
        BY <1>1, <3>2 DEF BatchInv, BackInv, Apart, MemberRows, FreeRows, Packaged, Members,
                          OwnCode, FinalPackageSettles, StatusBackedBySiat
      <3>4. LotsJudged'
        BY <1>1, <2>2, <3>1, <3>2 DEF BatchInv, BackInv, LotsJudged, Members
      <3>5. \A q \in DOMAIN pkgs : q \in 1..MaxPackages
        <4>1. DOMAIN pkgs = 1..Len(pkgs) /\ Len(pkgs) \in Nat /\ Len(pkgs) <= MaxPackages
          BY PackageAt DEF BatchInv, BatchTypes, PackageTypes
        <4> QED
          BY <4>1, BatchBoundAssumption
      <3>6. \A q \in DOMAIN pkgs : lot[q] \in Judged => lot'[q] = lot[q]
        BY <2>2, <3>1, <3>5 DEF Judged
      <3>7. VerdictsFromLots'
        BY <1>1, <3>2, <3>6 DEF BatchInv, BackInv, VerdictsFromLots, Carries, Members
      <3>8. AnswersBacked'
        <4>1. \A s \in Requests : req[s].pc \in {"consult", "update"} => req[s].pkg \in DOMAIN pkgs
          BY DEF BatchInv, HoldInv, RequestsOK, Sent
        <4> QED
          BY <1>1, <3>6, <4>1 DEF BatchInv, BackInv, AnswersBacked, Backed, Judged
      <3> QED
        BY <3>3, <3>4, <3>7, <3>8 DEF BackInv
    <2>4. CASE state = "validated"
      BY <1>1, <2>1, <2>2, <2>4, JudgeBack DEF Judged
    <2>5. CASE state = "rejected"
      BY <1>1, <2>1, <2>2, <2>5, JudgeBack DEF Judged
    <2> QED
      BY <2>1, <2>3, <2>4, <2>5
  <1>3. CASE ValidateLot(p)
    <2>1. PICK verdict \in [Members(p) -> {"accepted", "rejected"}],
               state \in {"validated", "rejected", "observed"} :
             /\ Judge(p, verdict)
             /\ state = "validated" => \A i \in Members(p) : verdict[i] = "accepted"
             /\ state = "rejected" => \A i \in Members(p) : verdict[i] = "rejected"
             /\ lot' = [lot EXCEPT ![p] = state]
      BY <1>3 DEF ValidateLot
    <2>2. p \in DOMAIN pkgs /\ lot[p] = "pending"
      BY <1>1, <1>3 DEF ValidateLot
    <2> QED
      BY <1>1, <2>1, <2>2, JudgeBack DEF Judged
  <1> QED
    BY <1>2, <1>3

\* The whole invariant is inductive.
LEMMA BatchInit == Init => BatchInv
  BY HoldInit, BatchTypesInit, BackInit DEF BatchInv

LEMMA BatchStep == BatchInv /\ [Next]_bvars => BatchInv'
  <1> SUFFICES ASSUME BatchInv, [Next]_bvars PROVE BackInv'
    BY HoldStep, TypesStep DEF BatchInv
  <1>1. CASE UNCHANGED bvars
    BY <1>1, BackKept DEF bvars, BatchInv, BackInv, AnswersBacked, Backed
  <1>2. ASSUME NEW r \in Requests, Request(r) PROVE BackInv'
    BY <1>2, OwnStepBack, ReserveBack, SendBack, UpdateBack DEF Request
  <1>3. ASSUME NEW i \in Invoices, Single(i) PROVE BackInv'
    BY <1>3, SingleBack
  <1>4. ASSUME NEW p \in 1..MaxPackages, ReceiveLot(p) \/ ValidateLot(p) PROVE BackInv'
    BY <1>4, LotBack
  <1>5. CASE RenewCufd
    BY <1>5, BackKept DEF RenewCufd, BatchInv, BackInv, AnswersBacked, Backed
  <1> QED
    BY <1>1, <1>2, <1>3, <1>4, <1>5 DEF Next

(***************************************************************************)
(* The types of the rows, the packages and the requests: a request that has *)
(* reserved knows a package, one that stores documents has a batch of them, *)
(* and no package has a member without a document.                         *)
(***************************************************************************)
THEOREM BatchesAreTyped == Spec => []TypeOK
  <1>1. BatchInv => TypeOK
    <2> SUFFICES ASSUME BatchInv PROVE TypeOK
      OBVIOUS
    <2>1. ASSUME NEW p \in DOMAIN pkgs
          PROVE  /\ pkgs[p].kind \in BatchKinds /\ pkgs[p].status \in PackageStatuses
                 /\ pkgs[p].ids # << >> /\ Members(p) \subseteq DOMAIN pkgs[p].docs
                 /\ DOMAIN pkgs[p].docs \subseteq Invoices
      <3>1. pkgs[p] \in PackageRecords /\ SoundPackage(pkgs[p])
        BY PackageAt DEF BatchInv, BatchTypes, PackageTypes
      <3> QED
        BY <3>1 DEF PackageRecords, SoundPackage, Members, DocumentMaps
    <2>2. ASSUME NEW r \in Requests
          PROVE  /\ req[r].pc \in Places
                 /\ req[r].pc \in Sent => req[r].pkg \in DOMAIN pkgs
                 /\ req[r].pc \in {"save", "reserve", "clean"} => req[r].todo # << >>
      BY DEF BatchInv, BatchTypes, RequestTypes, RequestRecords, SoundRequest, HoldInv, RequestsOK
    <2> QED
      BY <2>1, <2>2 DEF TypeOK, BatchInv, BatchTypes, RowTypes, RowRecords, PackageTypes,
                        Places, Sent
  <1> QED
    BY <1>1, BatchInit, BatchStep, PTL DEF Spec

(***************************************************************************)
(* What a batch or a single emission settles an invoice with is what the    *)
(* SIAT decided about the code it is stored with, and a package with a      *)
(* final status has settled every member with it, however late the answer. *)
(***************************************************************************)
THEOREM BatchVerdicts == Spec => []VerdictsAreBacked
  <1>1. BatchInv => VerdictsAreBacked
    BY DEF BatchInv, BackInv, VerdictsAreBacked
  <1> QED
    BY <1>1, BatchInit, BatchStep, PTL DEF Spec

(***************************************************************************)
(* The invoices of a live package keep the codes they were reserved with:   *)
(* no emission, reaper or other request writes another one.                *)
(***************************************************************************)
THEOREM ReservedCodesStay == Spec => []MembersKeepCodes
  <1>1. BatchInv => MembersKeepCodes
    BY DEF BatchInv, BackInv, MembersKeepCodes, MemberRows
  <1> QED
    BY <1>1, BatchInit, BatchStep, PTL DEF Spec

\* The documents of any selection, grouped, are uniform lots, and refused for
\* nothing but a document their kind of lot does not carry.
LEMMA SelectionSends ==
    ASSUME BatchInv, NEW kind \in BatchKinds, NEW ids \in SUBSET DOMAIN row,
           \A i \in ids : Eligible(kind, i), NEW docs, docs = Documents(kind, ids),
           NEW batches, batches = GroupIntoBatches(docs, ids)
    PROVE  /\ \A b \in DOMAIN batches : LotIsUniform(kind, docs, batches[b])
           /\ FullButLast(docs, batches)
           /\ \A i \in ids :
                 Cardinality({b \in DOMAIN batches : i \in ToSet(batches[b])}) = 1
           /\ AllPrepared(kind, docs, batches) <=> \A i \in ids : ~Refuses(kind, i)
  <1>1. ids \subseteq Nat /\ IsFiniteSet(ids) /\ ids \subseteq Invoices
    BY InvoicesAssumption, FS_Subset DEF BatchInv, BatchTypes, RowTypes
  <1>2. IsGrouping(docs, ids, batches)
    BY <1>1, BatchBoundAssumption, SelectionIsGrouped
  <1>3. ASSUME NEW i \in ids PROVE LotDocument(kind, docs[i])
    <2>1. docs[i] = DocumentOf(kind, i)
      BY DEF Documents
    <2>2. CASE kind = "MASIVA"
      BY <2>1, <2>2 DEF DocumentOf, LotDocument
    <2>3. CASE kind # "MASIVA"
      <3>1. row[i].status = "OFFLINE"
        BY <2>3 DEF Eligible
      <3>2. row[i].cuf.type = "OFFLINE"
        BY <1>1, <3>1 DEF BatchInv, BackInv, FreeRows
      <3> QED
        BY <2>1, <2>3, <3>2 DEF DocumentOf, LotDocument
    <2> QED
      BY <2>2, <2>3
  <1>4. ASSUME NEW b \in DOMAIN batches PROVE LotIsUniform(kind, docs, batches[b])
    <2>1. IsLot(docs, batches[b]) /\ batches \in Seq(Seq(ids))
      BY <1>2 DEF IsGrouping
    <2>2. batches[b] \in Seq(ids)
      BY <2>1
    <2> QED
      BY <1>3, <2>1, <2>2, LotOfSelection
  <1>5. \A i \in ids : Cardinality({b \in DOMAIN batches : i \in ToSet(batches[b])}) = 1
    BY <1>2, InOneBatch
  <1>6. ASSUME NEW b \in DOMAIN batches, NEW u \in DOMAIN batches[b]
        PROVE  /\ batches[b][u] \in ids /\ 1 \in DOMAIN batches[b]
               /\ Refuses(kind, batches[b][u]) <=> Refuses(kind, batches[b][1])
    <2>1. IsLot(docs, batches[b]) /\ batches \in Seq(Seq(ids))
      BY <1>2 DEF IsGrouping
    <2>2. batches[b] \in Seq(ids) /\ Len(batches[b]) > 0
      BY <2>1 DEF IsLot
    <2>3. Sector[batches[b][u]] = Sector[batches[b][1]]
      BY <2>1 DEF IsLot, SameGroup
    <2> QED
      BY <2>2, <2>3 DEF Refuses
  <1>7. ASSUME NEW i \in ids PROVE \E b \in DOMAIN batches : \E u \in DOMAIN batches[b] : batches[b][u] = i
    BY <1>2 DEF IsGrouping
  <1>8. ASSUME \A b \in DOMAIN batches : LotIsValid(kind, docs, batches[b]), NEW i \in ids
        PROVE  ~Refuses(kind, i)
    BY <1>6, <1>7, <1>8 DEF LotIsValid
  <1>9. ASSUME \A i \in ids : ~Refuses(kind, i), NEW b \in DOMAIN batches
        PROVE  LotIsValid(kind, docs, batches[b])
    <2>1. 1 \in DOMAIN batches[b]
      BY <1>4 DEF LotIsUniform, WithinLimit
    <2> QED
      BY <1>4, <1>6, <1>9, <2>1 DEF LotIsValid
  <1>10. FullButLast(docs, batches)
    BY <1>2 DEF IsGrouping
  <1> QED
    BY <1>4, <1>5, <1>8, <1>9, <1>10 DEF AllPrepared

(***************************************************************************)
(* Whatever is selected, prepareInvoiceBatches makes lots of at most Limit  *)
(* invoices of one sector, with documents of the lot's kind, as few as that *)
(* takes, and puts every selected invoice into exactly one; the adapter     *)
(* refuses the request if and only if a note is in it, or an air ticket in  *)
(* a request for packages.                                                 *)
(***************************************************************************)
THEOREM SelectionsAreSendable == Spec => []SelectionIsSendable
  <1>1. BatchInv => SelectionIsSendable
    BY SelectionSends DEF SelectionIsSendable
  <1> QED
    BY <1>1, BatchInit, BatchStep, PTL DEF Spec

-----------------------------------------------------------------------------
(* The rows as the ledger of every invoice's whole life sees them.          *)

\* What one step may do to one row: nothing, give it a code in the hands of an
\* emission, take it, give it back, or carry it on under a code it has.
RowKept(i) == row'[i].status = row[i].status /\ row'[i].cuf = row[i].cuf
RowRecoded(i) ==
    row[i].status = "SENDING" /\ row'[i].status = "SENDING" /\ row'[i].cuf \in Codes
RowTaken(i) ==
    /\ row[i].status = "PENDING" /\ row'[i].status = "SENDING"
    /\ row'[i].cuf = row[i].cuf \/ row'[i].cuf \in Codes
RowReturned(i) ==
    row[i].status = "SENDING" /\ row'[i].status = "PENDING" /\ row'[i].cuf = row[i].cuf
RowCarried(i) ==
    /\ \E reason : CanTransition(row[i].status, row'[i].status, reason)
    /\ row'[i].status \in {"SENT", "OFFLINE", "ACCEPTED", "REJECTED"}
    /\ row[i].status = "SENDING" \/ row'[i].cuf = row[i].cuf
    /\ row'[i].cuf \in Codes

RowMoves(i) ==
    RowKept(i) \/ RowRecoded(i) \/ RowTaken(i) \/ RowReturned(i) \/ RowCarried(i)

\* The rows of the other invoices stay.
Only(i) == \A j \in Invoices : j # i => row'[j] = row[j]

\* What a step that writes one row has to show of it.
LEMMA OneRowMoves ==
    ASSUME NEW i \in Invoices, Only(i), RowMoves(i)
    PROVE  \A j \in Invoices : RowMoves(j)
  BY DEF Only, RowMoves, RowKept

\* The steps of single emissions, the reaper and the reconciliations.
LEMMA SingleMoves ==
    ASSUME BatchInv, NEW i \in Invoices, Single(i), NEW j \in Invoices
    PROVE  RowMoves(j)
  <1> DEFINE Writes(status, code) ==
               Only(i) /\ row'[i].status = status /\ row'[i].cuf = code
  <1>0. /\ row \in [Invoices -> RowRecords] /\ row[i] \in RowRecords
        /\ row[i].cuf # NoCuf => row[i].cuf \in Codes
    BY DEF BatchInv, BatchTypes, RowTypes, RowRecords
  <1>1. CASE EmissionClaims(i)
    <2>1. Writes("SENDING", row[i].cuf)
      BY <1>0, <1>1 DEF EmissionClaims, Only, RowRecords
    <2> QED
      BY <1>1, <2>1, OneRowMoves DEF EmissionClaims, RowMoves, RowTaken
  <1>2. CASE EmissionReserves(i)
    <2>1. PICK doc \in Stored(i, OwnDocument(i)) : row' = [row EXCEPT ![i].cuf = doc]
      BY <1>2 DEF EmissionReserves
    <2>2. Writes("SENDING", doc) /\ row[i].status = "SENDING"
      BY <1>0, <1>2, <2>1 DEF EmissionReserves, Emitted, Only, RowRecords
    <2>3. doc \in Codes
      <3>1. doc = OwnDocument(i)
        BY <2>1 DEF Stored
      <3>2. cufd \in 1..MaxCufd
        BY DEF BatchInv, BatchTypes, RowTypes
      <3> QED
        BY <1>0, <3>1, <3>2 DEF OwnDocument, Codes
    <2> QED
      BY <2>2, <2>3, OneRowMoves DEF RowMoves, RowRecoded
  <1>3. CASE EmissionDispatches(i) \/ EmissionDies(i)
    BY <1>3 DEF EmissionDispatches, EmissionDies, RowMoves, RowKept
  <1>4. CASE EmissionAnswered(i)
    <2> DEFINE s == EmissionOutcome(siat[<<i, row[i].cuf>>])
    <2>1. s \in {"ACCEPTED", "REJECTED"}
      BY <1>0, <1>4 DEF EmissionAnswered, EmissionOutcome, BatchInv, BatchTypes, RowTypes
    <2>2. row' = [row EXCEPT ![i].status = s, ![i].received = TRUE]
      BY <1>4 DEF EmissionAnswered
    <2> HIDE DEF s
    <2>3. Writes(s, row[i].cuf) /\ row[i].status = "SENDING" /\ row[i].cuf \in Codes
      BY <1>0, <1>4, <2>2 DEF EmissionAnswered, Emitted, Only, RowRecords
    <2>4. CanTransition("SENDING", s, "SIAT_RECONCILIATION")
      BY <2>1 DEF CanTransition, AllowedTransitions, Verdict
    <2> QED
      BY <2>1, <2>3, <2>4, OneRowMoves DEF RowMoves, RowCarried
  <1>5. CASE EmissionRollsBack(i) \/ Reap(i)
    <2>1. Writes("PENDING", row[i].cuf) /\ row[i].status = "SENDING"
      BY <1>0, <1>5 DEF EmissionRollsBack, Reap, Emitted, Stale, Only, RowRecords
    <2> QED
      BY <2>1, OneRowMoves DEF RowMoves, RowReturned
  <1>6. CASE EmissionGoesOffline(i)
    <2> DEFINE doc == [type |-> "OFFLINE", cufd |-> row[i].cuf.cufd]
    <2>1. doc \in Codes
      BY <1>0, <1>6 DEF EmissionGoesOffline, Codes
    <2>2. row' = [row EXCEPT ![i].status = "OFFLINE", ![i].cuf = doc]
      BY <1>6 DEF EmissionGoesOffline
    <2> HIDE DEF doc
    <2>3. Writes("OFFLINE", doc) /\ row[i].status = "SENDING"
      BY <1>0, <1>6, <2>2 DEF EmissionGoesOffline, Emitted, Only, RowRecords
    <2>4. CanTransition("SENDING", "OFFLINE", "CONTINGENCY")
      BY DEF CanTransition, AllowedTransitions
    <2> QED
      BY <2>1, <2>3, <2>4, OneRowMoves DEF RowMoves, RowCarried
  <1>7. CASE Reconcile(i)
    <2>1. PICK estado \in SiatEstadoToDomain(siat[<<i, row[i].cuf>>]) :
             /\ CanTransition(row[i].status, estado, "SIAT_RECONCILIATION")
             /\ row' = [row EXCEPT ![i].status = estado]
      BY <1>7 DEF Reconcile
    <2>2. estado \in {"ACCEPTED", "REJECTED"} /\ row[i].cuf \in Codes
      BY <1>0, <1>7, <2>1 DEF Reconcile, SiatEstadoToDomain, BatchInv, BatchTypes, RowTypes
    <2>3. Writes(estado, row[i].cuf)
      BY <1>0, <2>1 DEF Only, RowRecords
    <2> QED
      BY <2>1, <2>2, <2>3, OneRowMoves DEF RowMoves, RowCarried
  <1> QED
    BY <1>1, <1>2, <1>3, <1>4, <1>5, <1>6, <1>7 DEF Single, RowMoves, RowKept

\* A reservation takes what is PENDING, under the codes of the request, and
\* leaves what is offline as it is.
LEMMA ReserveMoves ==
    ASSUME BatchInv, NEW r \in Requests, ReserveBatch(r), NEW i \in Invoices
    PROVE  RowMoves(i)
  <1> DEFINE q == req[r]
             ids == Batch(r)
  <1>1. /\ q \in RequestRecords /\ SoundRequest(q) /\ q.pc = "reserve"
        /\ q.docs \in DocumentMaps /\ q.todo \in Seq(Seq(Invoices))
    BY DEF ReserveBatch, RAt, BatchInv, BatchTypes, RequestTypes, RequestRecords
  <1>2. row' = [j \in Invoices |-> IF j \in ToSet(ids)
                                   THEN ReservedRow(q.kind, q.docs[j], row[j]) ELSE row[j]]
    BY DEF ReserveBatch
  <1>3. CASE i \notin ToSet(ids)
    BY <1>2, <1>3 DEF RowMoves, RowKept
  <1>4. CASE i \in ToSet(ids)
    <2>1. ToSet(ids) \subseteq DOMAIN q.docs
      <3>1. q.todo # << >> /\ ids = Head(q.todo)
        BY <1>1 DEF SoundRequest, Batch
      <3> HIDE DEF ids
      <3>2. 1 \in DOMAIN q.todo /\ ids = q.todo[1]
        BY <1>1, <3>1
      <3> QED
        BY <1>1, <3>2 DEF SoundRequest
    <2>2. q.docs[i] \in Codes
      BY <1>1, <1>4, <2>1, DocumentMap
    <2>3. Available(q.kind, q.docs[i], i)
      BY <1>4 DEF ReserveBatch, Reservable
    <2>4. row'[i] = ReservedRow(q.kind, q.docs[i], row[i]) /\ row[i] \in RowRecords
      BY <1>2, <1>4 DEF BatchInv, BatchTypes, RowTypes
    <2> DEFINE d == q.docs[i]
    <2>5. CASE q.kind = "MASIVA"
      <3>1. row[i].status = "PENDING"
        BY <2>3, <2>5 DEF Available
      <3>2. row'[i] = [row[i] EXCEPT !.status = "SENDING", !.cuf = d]
        BY <2>4, <2>5 DEF ReservedRow
      <3> HIDE DEF d
      <3>3. row'[i].status = "SENDING" /\ row'[i].cuf = d
        BY <2>4, <3>2 DEF RowRecords
      <3> QED
        BY <2>2, <3>1, <3>3 DEF d, RowMoves, RowTaken
    <2>6. CASE q.kind # "MASIVA"
      BY <2>4, <2>6 DEF ReservedRow, RowMoves, RowKept
    <2> QED
      BY <2>5, <2>6
  <1> QED
    BY <1>3, <1>4

\* An answer carries the open members on, each under the code it was reserved with.
LEMMA UpdateMoves ==
    ASSUME BatchInv, NEW r \in Requests, UpdateBatch(r), NEW i \in Invoices
    PROVE  RowMoves(i)
  <1> DEFINE n == req[r].pkg
             answer == req[r].answer
             to == CHOOSE to \in answer.to : TRUE
             rec == row[i].received \/ answer.received
  <1>1. /\ n \in DOMAIN pkgs /\ Backed(n, answer)
        /\ row[i] \in RowRecords
    BY DEF UpdateBatch, RAt, BatchInv, HoldInv, RequestsOK, Sent, BackInv, AnswersBacked,
           BatchTypes, RowTypes
  <1>2. CASE row'[i] = row[i]
    BY <1>2 DEF RowMoves, RowKept
  <1>3. CASE row'[i] # row[i]
    <2>1. /\ row' = [j \in Invoices |->
                       IF Settles(n, answer, j)
                       THEN [row[j] EXCEPT !.status = CHOOSE t \in answer.to : TRUE,
                                           !.received = @ \/ answer.received]
                       ELSE row[j]]
          /\ MembersPermit(n, answer)
      BY <1>3 DEF UpdateBatch
    <2>2. Settles(n, answer, i) /\ row'[i] = [row[i] EXCEPT !.status = to, !.received = rec]
      BY <1>3, <2>1
    <2>3. answer.to = {to} /\ to \in {"SENT", "ACCEPTED", "REJECTED"}
      BY <1>1, <2>2 DEF Backed, Settles
    <2>4. row[i].status \in Open \ {to} => CanTransition(row[i].status, to, BatchReason(to))
      BY <2>1, <2>2, <2>3 DEF MembersPermit, Settles
    <2>5. row[i].cuf \in Codes /\ row[i].status \in Open
      BY <1>1, <2>2, MemberCodes DEF Settles, BatchInv, BackInv, MemberRows
    <2> HIDE DEF to, rec
    <2>6. row'[i].status = to /\ row'[i].cuf = row[i].cuf
      BY <1>1, <2>2 DEF RowRecords
    <2> QED
      BY <2>3, <2>4, <2>5, <2>6 DEF RowMoves, RowKept, RowCarried
  <1> QED
    BY <1>2, <1>3

\* No step does anything else to a row.
LEMMA EveryRowMoves ==
    ASSUME BatchInv, [Next]_bvars, NEW i \in Invoices
    PROVE  RowMoves(i)
  <1>1. CASE row' = row
    BY <1>1 DEF RowMoves, RowKept
  <1>2. ASSUME NEW r \in Requests, Request(r)
        PROVE  row' = row \/ ReserveBatch(r) \/ UpdateBatch(r)
    BY <1>2 DEF Request, Select, SaveDocument, GiveUpBatch, Cleanup, SendBatch, Answer,
                ReadPackage, Consult, UpdateFails, Crash
  <1>3. ASSUME NEW p \in 1..MaxPackages, ReceiveLot(p) \/ ValidateLot(p)
        PROVE  row' = row
    BY <1>3 DEF ReceiveLot, ValidateLot
  <1>4. CASE RenewCufd \/ UNCHANGED bvars
    BY <1>1, <1>4 DEF RenewCufd, bvars
  <1> QED
    BY <1>1, <1>2, <1>3, <1>4, ReserveMoves, UpdateMoves, SingleMoves DEF Next

\* The SIAT decides about a code once, and in no step that writes a row.
LEMMA OneVerdict ==
    ASSUME BatchInv, [Next]_bvars
    PROVE  /\ row' = row \/ siat' = siat
           /\ \A k \in Invoices \X Codes :
                 siat'[k] = siat[k] \/ (siat[k] = "none" /\ siat'[k] \in {"accepted", "rejected"})
  <1>0. siat \in [Invoices \X Codes -> {"none", "accepted", "rejected"}]
    BY DEF BatchInv, BatchTypes, RowTypes
  <1>1. ASSUME NEW r \in Requests, Request(r)
        PROVE  siat' = siat
    BY <1>1 DEF Request, Select, SaveDocument, GiveUpBatch, Cleanup, ReserveBatch, SendBatch,
                Answer, ReadPackage, Consult, UpdateBatch, UpdateFails, Crash
  <1>2. ASSUME NEW i \in Invoices, Single(i), ~EmissionDispatches(i)
        PROVE  siat' = siat
    BY <1>2 DEF Single, EmissionClaims, EmissionReserves, EmissionAnswered, EmissionRollsBack,
                EmissionGoesOffline, EmissionDies, Reap, Reconcile
  <1>3. ASSUME NEW i \in Invoices, EmissionDispatches(i)
        PROVE  /\ row' = row
               /\ \A k \in Invoices \X Codes :
                     siat'[k] = siat[k] \/ (siat[k] = "none" /\ siat'[k] \in {"accepted", "rejected"})
    BY <1>0, <1>3 DEF EmissionDispatches
  <1>4. ASSUME NEW p \in 1..MaxPackages, ReceiveLot(p) \/ ValidateLot(p)
        PROVE  /\ row' = row
               /\ \A k \in Invoices \X Codes :
                     siat'[k] = siat[k] \/ (siat[k] = "none" /\ siat'[k] \in {"accepted", "rejected"})
    <2>1. ASSUME NEW verdict, Judge(p, verdict),
                 \A i \in Members(p) : verdict[i] \in {"accepted", "rejected"}
          PROVE  \A k \in Invoices \X Codes :
                    siat'[k] = siat[k] \/ (siat[k] = "none" /\ siat'[k] \in {"accepted", "rejected"})
      BY <1>0, <2>1 DEF Judge, Carries
    <2>2. \/ siat' = siat
          \/ \E verdict \in [Members(p) -> {"accepted", "rejected"}] : Judge(p, verdict)
      <3>1. /\ [i \in Members(p) |-> "accepted"] \in [Members(p) -> {"accepted", "rejected"}]
            /\ [i \in Members(p) |-> "rejected"] \in [Members(p) -> {"accepted", "rejected"}]
        OBVIOUS
      <3>2. CASE ReceiveLot(p)
        BY <3>1, <3>2 DEF ReceiveLot
      <3>3. CASE ValidateLot(p)
        BY <3>3 DEF ValidateLot
      <3> QED
        BY <1>4, <3>2, <3>3
    <2>3. row' = row
      BY <1>4 DEF ReceiveLot, ValidateLot
    <2> QED
      BY <2>1, <2>2, <2>3
  <1>5. CASE RenewCufd \/ UNCHANGED bvars
    BY <1>5 DEF RenewCufd, bvars
  <1> QED
    BY <1>1, <1>2, <1>3, <1>4, <1>5 DEF Next

\* What InvoiceStateMachine lets through, the table of the ledger permits.
LEMMA LedgerTable ==
    \A from, to, reason : CanTransition(from, to, reason) => Ledger!Permitted(from, to)
  <1>1. Ledger!AllowedTransitions = AllowedTransitions
    BY DEF Ledger!AllowedTransitions, AllowedTransitions, Ledger!Verdict, Verdict
  <1> QED
    BY <1>1 DEF CanTransition, Ledger!Permitted

\* So every row moves as the ledger lets it.
LEMMA LedgerRow ==
    ASSUME BatchInv, [Next]_bvars, NEW i \in Invoices
    PROVE  Ledger!Rests(i) \/ Ledger!Recodes(i) \/ Ledger!Moves(i)
  <1> DEFINE code == IF row[i].cuf = NoCuf THEN NoCuf ELSE <<i, row[i].cuf>>
             next == IF row'[i].cuf = NoCuf THEN NoCuf ELSE <<i, row'[i].cuf>>
  <1>1. row'[i].cuf \in Codes => next \in {i} \X Codes /\ next = <<i, row'[i].cuf>>
    BY NoCodeAssumption
  <1>2. row'[i].cuf = row[i].cuf => next = code
    OBVIOUS
  <1> HIDE DEF next
  <1>3. CASE RowKept(i)
    BY <1>2, <1>3 DEF RowKept, Ledger!Rests, next
  <1>4. CASE RowRecoded(i)
    BY <1>1, <1>4 DEF RowRecoded, Ledger!Recodes, next
  <1>5. CASE RowTaken(i)
    <2>1. Ledger!Permitted("PENDING", "SENDING")
      <3>1. CanTransition("PENDING", "SENDING", "EMISSION_START")
        BY DEF CanTransition, AllowedTransitions
      <3> QED
        BY <3>1, LedgerTable
    <2> QED
      BY <1>1, <1>2, <1>5, <2>1 DEF RowTaken, Ledger!Moves, Ledger!Decided, next
  <1>6. CASE RowReturned(i)
    <2>1. Ledger!Permitted("SENDING", "PENDING")
      <3>1. CanTransition("SENDING", "PENDING", "STALE_RECOVERY")
        BY DEF CanTransition, AllowedTransitions
      <3> QED
        BY <3>1, LedgerTable
    <2> QED
      BY <1>2, <1>6, <2>1 DEF RowReturned, Ledger!Moves, Ledger!Decided, next
  <1>7. CASE RowCarried(i)
    <2>1. Ledger!Permitted(row[i].status, row'[i].status)
      BY <1>7, LedgerTable DEF RowCarried
    <2>2. next \in {i} \X Codes /\ next = <<i, row'[i].cuf>>
      BY <1>1, <1>7 DEF RowCarried
    <2>3. row'[i].status \in Ledger!Decided => Ledger!Justifies(siat[next], row'[i].status)
      <3>1. row # row' => siat' = siat
        BY OneVerdict
      <3>2. StatusBackedBySiat' /\ StatusBackedBySiat /\ DOMAIN row = Invoices /\ DOMAIN row' = Invoices
        BY BatchStep DEF BatchInv, BackInv, BatchTypes, RowTypes
      <3>3. /\ row'[i].status = "ACCEPTED" => siat[next] = "accepted"
            /\ row'[i].status = "REJECTED" => siat[next] = "rejected"
        BY <2>2, <3>1, <3>2 DEF StatusBackedBySiat
      <3> QED
        BY <1>7, <3>3 DEF RowCarried, Ledger!Decided, Ledger!Justifies
    <2> QED
      BY <1>2, <1>7, <2>1, <2>2, <2>3 DEF RowCarried, Ledger!Moves, next
  <1> QED
    BY <1>3, <1>4, <1>5, <1>6, <1>7, EveryRowMoves DEF RowMoves

\* Every step of the batches is a step of the ledger.
LEMMA LedgerStep == BatchInv /\ [Next]_bvars => Ledger!Next
  <1> SUFFICES ASSUME BatchInv, [Next]_bvars PROVE Ledger!Next
    OBVIOUS
  <1>1. DOMAIN siat' = Invoices \X Codes
    BY BatchStep DEF BatchInv, BatchTypes, RowTypes
  <1>2. \A k \in Invoices \X Codes : siat'[k] = siat[k] \/ <<siat[k], siat'[k]>> \in Ledger!Decisions
    BY OneVerdict DEF Ledger!Decisions
  <1> QED
    BY <1>1, <1>2, LedgerRow DEF Ledger!Next

(***************************************************************************)
(* The lots of a mass emission and the packages of offline invoices, with   *)
(* late and repeated answers, beside single emissions, the reaper and       *)
(* reconciliations, are a behaviour of the ledger: what UpdateBatch writes  *)
(* for a whole package is, for each invoice, a permitted change that the    *)
(* SIAT's decision about its own code lets.                                *)
(***************************************************************************)
THEOREM BatchesImplementLedger == Spec => ImplementsLedger
  <1>1. Init => Ledger!Init
    BY DEF Init, Ledger!Init
  <1> QED
    BY <1>1, LedgerStep, BatchInit, BatchStep, PTL DEF Spec, ImplementsLedger, Ledger!Spec
=============================================================================
