------------------------ MODULE ArtifactStoreProofs -------------------------
(***************************************************************************)
(* Machine-checked proofs about ArtifactStore, for any artifacts, slots    *)
(* and overlapping requests.                                               *)
(***************************************************************************)
EXTENDS ArtifactStore, TLAPS

-----------------------------------------------------------------------------
(* Types.                                                                  *)

\* The fields of a request, by its operation.
LEMMA RequestFields ==
  ASSUME NEW r \in Requests
  PROVE  /\ r.op = "trash" =>
              /\ r.on \in SUBSET Arts /\ r.trashed \in SUBSET Arts
              /\ r.accepted \in SUBSET Arts
         /\ r.op = "restore" => r.on \in SUBSET Arts /\ r.trashed \in SUBSET Arts
         /\ r.op = "copy" => r.from \in Arts /\ r.decision \in Decisions
         /\ r.op = "purge" => r.on \in SUBSET Arts /\ r.removed \in SUBSET Arts
         /\ r.op = "discard" => r.removed \in SUBSET Arts
         /\ r.op = "adopt" => /\ r.slot \in Slots /\ r.art \in Arts
                              /\ r.held \in Arts \cup {None}
         /\ r.op = "release" => r.slot \in Slots /\ r.held \in Arts \cup {None}
         /\ r.op = "decide" => r.art \in Arts /\ r.to \in Decisions
BY DEF Requests, Idle

LEMMA RevertedType ==
  ASSUME TypeOK, NEW gone, NEW slots, NEW accepted
  PROVE  Reverted(gone, slots, accepted) \in [Arts -> Decisions]
BY DEF TypeOK, Reverted, Decisions

LEMMA IdleType == Idle \in Requests
BY DEF Requests

LEMMA ReadType ==
  ASSUME TypeOK, NEW c \in Clients, NEW r \in Requests, Read(c, r)
  PROVE  TypeOK'
BY DEF TypeOK, Read

\* Every read puts a request of its own form in flight.
LEMMA ReadStepRead ==
  ASSUME TypeOK, NEW c \in Clients, ReadStep(c)
  PROVE  \E r \in Requests : Read(c, r) /\ r.op # "discard"
<1> DEFINE Goal == \E r \in Requests : Read(c, r) /\ r.op # "discard"
<1>1. ASSUME NEW on \in SUBSET Arts, TrashRead(c, on) PROVE Goal
  <2>1. Trashed(on) \in SUBSET Arts /\ Accepted(on) \in SUBSET Arts
    BY DEF Trashed, Accepted
  <2>2. [op |-> "trash", on |-> on, trashed |-> Trashed(on), accepted |-> Accepted(on)]
          \in Requests
    BY <2>1 DEF Requests
  <2> QED
    BY <1>1, <2>2 DEF TrashRead
<1>2. ASSUME NEW on \in SUBSET Arts, RestoreRead(c, on) PROVE Goal
  <2>1. [op |-> "restore", on |-> on, trashed |-> Trashed(on)] \in Requests
    BY DEF Requests, Trashed
  <2> QED
    BY <1>2, <2>1 DEF RestoreRead
<1>3. ASSUME NEW on \in SUBSET Arts, PurgeRead(c, on) PROVE Goal
  <2>1. Unshared(on) \in SUBSET Arts
    BY DEF TypeOK, Unshared
  <2>2. [op |-> "purge", on |-> on, removed |-> Unshared(on)] \in Requests
    BY <2>1 DEF Requests
  <2> QED
    BY <1>3, <2>2 DEF PurgeRead
<1>4. ASSUME NEW a \in Arts, CopyRead(c, a) PROVE Goal
  <2>1. [op |-> "copy", from |-> a, decision |-> decision[a]] \in Requests
    BY DEF Requests, TypeOK
  <2> QED
    BY <1>4, <2>1 DEF CopyRead
<1>5. ASSUME NEW s \in Slots, NEW a \in Arts, AdoptRead(c, s, a) PROVE Goal
  <2>1. decision[a] \in Decisions /\ adopted[s] \in Arts \cup {None}
    BY DEF TypeOK
  <2>2. [op |-> "adopt", slot |-> s, art |-> a, decision |-> decision[a],
         held |-> adopted[s]] \in Requests
    BY <2>1 DEF Requests
  <2> QED
    BY <1>5, <2>2 DEF AdoptRead
<1>6. ASSUME NEW s \in Slots, ReleaseRead(c, s) PROVE Goal
  <2>1. [op |-> "release", slot |-> s, held |-> adopted[s]] \in Requests
    BY DEF Requests, TypeOK
  <2> QED
    BY <1>6, <2>1 DEF ReleaseRead
<1>7. ASSUME NEW a \in Arts, NEW d \in Decisions, DecideRead(c, a, d) PROVE Goal
  <2>1. [op |-> "decide", art |-> a, decision |-> decision[a], to |-> d] \in Requests
    BY DEF Requests, TypeOK
  <2> QED
    BY <1>7, <2>1 DEF DecideRead
<1>8. CASE \E on \in (SUBSET Arts) \ {{}} : TrashRead(c, on) \/ RestoreRead(c, on) \/ PurgeRead(c, on)
  <2>1. PICK on \in SUBSET Arts : TrashRead(c, on) \/ RestoreRead(c, on) \/ PurgeRead(c, on)
    BY <1>8
  <2>2. CASE TrashRead(c, on)
    BY <1>1, <2>2
  <2>3. CASE RestoreRead(c, on)
    BY <1>2, <2>3
  <2>4. CASE PurgeRead(c, on)
    BY <1>3, <2>4
  <2> QED
    BY <2>1, <2>2, <2>3, <2>4
<1>9. CASE \E a \in Arts : CopyRead(c, a)
  BY <1>4, <1>9
<1>10. CASE \E s \in Slots, a \in Arts : AdoptRead(c, s, a)
  BY <1>5, <1>10
<1>11. CASE \E s \in Slots : ReleaseRead(c, s)
  BY <1>6, <1>11
<1>12. CASE \E a \in Arts, d \in Decisions : DecideRead(c, a, d)
  BY <1>7, <1>12
<1> QED
  BY <1>8, <1>9, <1>10, <1>11, <1>12 DEF ReadStep

-----------------------------------------------------------------------------
(* The inductive invariant.  A path is the id of a row that was once       *)
(* stored; what a purge is about to remove belongs to no row, and can      *)
(* never belong to one again.                                              *)

PathsKnown ==
  \A a \in Arts : IF row[a] = "absent" THEN path[a] = a ELSE row[path[a]] # "absent"

Garbage ==
  ~stale => \A c \in Clients : request[c].op = "discard" =>
    \A f \in request[c].removed : row[f] # "absent" /\ \A a \in Rows : path[a] # f

IInv == TypeOK /\ PathsKnown /\ Garbage /\ AdoptionsExist /\ RowsKeepFiles
        /\ NoFileLeaks /\ AdoptedLive

LEMMA IInvInit == Init => IInv
<1> SUFFICES ASSUME Init PROVE IInv
  OBVIOUS
<1>1. TypeOK
  BY IdleType DEF Init, TypeOK, Decisions
<1>2. PathsKnown /\ Garbage /\ AdoptionsExist /\ RowsKeepFiles /\ NoFileLeaks /\ AdoptedLive
  BY DEF Init, PathsKnown, Garbage, AdoptionsExist, RowsKeepFiles, NoFileLeaks,
         AdoptedLive, Rows, Present, Idle
<1> QED
  BY <1>1, <1>2 DEF IInv

\* A step that moves no row in or out of the store and starts or ends no purge.
LEMMA StoreKept ==
  ASSUME IInv, UNCHANGED <<path, files>>,
         \A a \in Arts : Present(a)' <=> Present(a),
         \A a \in Arts : row'[a] = "absent" <=> row[a] = "absent",
         \A c \in Clients : request[c].op = "discard" \/ request'[c].op = "discard" =>
                               request'[c] = request[c],
         stale => stale', cut => cut'
  PROVE  PathsKnown' /\ Garbage' /\ RowsKeepFiles' /\ NoFileLeaks'
<1>1. Rows' = Rows
  BY DEF Rows
<1>2. PathsKnown'
  BY DEF IInv, TypeOK, PathsKnown
<1>3. Garbage'
  <2> SUFFICES ASSUME ~stale', NEW c \in Clients, request'[c].op = "discard",
                      NEW f \in request'[c].removed
               PROVE  row'[f] # "absent" /\ \A a \in Rows' : path'[a] # f
    BY DEF Garbage
  <2>1. request'[c] = request[c] /\ request[c] \in Requests
    BY DEF IInv, TypeOK
  <2>2. f \in Arts
    BY <2>1, RequestFields
  <2>3. row[f] # "absent" /\ \A a \in Rows : path[a] # f
    BY <2>1 DEF IInv, Garbage
  <2> QED
    BY <1>1, <2>2, <2>3
<1>4. RowsKeepFiles'
  BY <1>1 DEF IInv, RowsKeepFiles
<1>5. NoFileLeaks'
  BY <1>1 DEF IInv, NoFileLeaks
<1> QED
  BY <1>2, <1>3, <1>4, <1>5

LEMMA WriteFacts ==
  ASSUME IInv, NEW c \in Clients, NEW r, NEW next \in Requests, Write(c, r, next)
  PROVE  /\ r \in Requests /\ request' \in [Clients -> Requests] /\ stale' \in BOOLEAN
         /\ UNCHANGED <<path, cut>>
         /\ stale => stale'
         /\ ~stale' => Fresh(r)
         /\ r.op # "discard" /\ next.op # "discard" =>
              \A k \in Clients : request[k].op = "discard" \/ request'[k].op = "discard" =>
                                    request'[k] = request[k]
<1>1. r = request[c] /\ r \in Requests
  BY DEF Write, IInv, TypeOK
<1>2. stale' = (stale \/ ~Fresh(r)) /\ request' = [request EXCEPT ![c] = next]
  BY DEF Write
<1>3. stale' \in BOOLEAN /\ (stale => stale') /\ (~stale' => Fresh(r))
  BY <1>2
<1>4. UNCHANGED <<path, cut>>
  BY DEF Write
<1>5. request' \in [Clients -> Requests]
  BY <1>2 DEF IInv, TypeOK
<1>6. ASSUME r.op # "discard", next.op # "discard", NEW k \in Clients,
             request[k].op = "discard" \/ request'[k].op = "discard"
      PROVE  request'[k] = request[k]
  BY <1>1, <1>2, <1>6 DEF IInv, TypeOK
<1> QED
  BY <1>1, <1>3, <1>4, <1>5, <1>6

LEMMA IdleOp == Idle.op = "idle"
BY DEF Idle

-----------------------------------------------------------------------------
(* One lemma for each step.                                                *)

LEMMA CreateNext == ASSUME IInv, NEW a \in Arts, Create(a) PROVE IInv'
<1>1. TypeOK'
  BY DEF Create, IInv, TypeOK
<1>2. path[a] = a /\ Rows' = Rows \cup {a} /\ a \notin Rows
  BY DEF Create, IInv, TypeOK, PathsKnown, Rows, Present
<1>3. \A b \in Arts : row'[b] = IF b = a THEN "live" ELSE row[b]
  BY DEF Create, IInv, TypeOK
<1>4. PathsKnown'
  BY <1>3 DEF Create, IInv, TypeOK, PathsKnown
<1>5. Garbage'
  <2>1. ASSUME ~stale, NEW c \in Clients, request[c].op = "discard",
               NEW f \in request[c].removed
        PROVE  row'[f] # "absent" /\ \A b \in Rows' : path[b] # f
    <3>1. f \in Arts
      BY <2>1, RequestFields DEF IInv, TypeOK
    <3>2. row[f] # "absent" /\ \A b \in Rows : path[b] # f
      BY <2>1 DEF IInv, Garbage
    <3>3. f # a
      BY <3>2 DEF Create
    <3> QED
      BY <1>2, <1>3, <3>1, <3>2, <3>3
  <2> QED
    BY <2>1 DEF Create, Garbage
<1>6. AdoptionsExist'
  BY <1>3 DEF Create, IInv, TypeOK, AdoptionsExist, Present
<1>7. RowsKeepFiles'
  BY <1>2 DEF Create, IInv, RowsKeepFiles
<1>8. NoFileLeaks'
  BY <1>2 DEF Create, IInv, NoFileLeaks
<1>9. AdoptedLive'
  BY <1>3 DEF Create, IInv, TypeOK, AdoptedLive
<1> QED
  BY <1>1, <1>4, <1>5, <1>6, <1>7, <1>8, <1>9 DEF IInv

LEMMA ReadNext == ASSUME IInv, NEW c \in Clients, ReadStep(c) PROVE IInv'
<1>1. PICK r \in Requests : Read(c, r) /\ r.op # "discard"
  BY ReadStepRead DEF IInv
<1>2. TypeOK'
  BY <1>1, ReadType DEF IInv
<1>3. UNCHANGED <<row, path, files, adopted, stale, cut>>
  BY <1>1 DEF Read
<1>4. \A k \in Clients : request[k].op = "discard" \/ request'[k].op = "discard" =>
                           request'[k] = request[k]
  BY <1>1, IdleOp DEF Read, IInv, TypeOK
<1>5. PathsKnown' /\ Garbage' /\ RowsKeepFiles' /\ NoFileLeaks'
  BY <1>3, <1>4, StoreKept DEF Present
<1>6. AdoptionsExist' /\ AdoptedLive'
  BY <1>3 DEF IInv, AdoptionsExist, AdoptedLive, Present
<1> QED
  BY <1>2, <1>5, <1>6 DEF IInv

LEMMA AbortNext == ASSUME IInv, NEW c \in Clients, Abort(c) PROVE IInv'
<1>1. TypeOK'
  BY IdleType DEF Abort, IInv, TypeOK
<1>2. UNCHANGED <<row, path, files, adopted, stale, cut>>
  BY DEF Abort
<1>3. \A k \in Clients : request[k].op = "discard" \/ request'[k].op = "discard" =>
                           request'[k] = request[k]
  BY IdleOp DEF Abort, IInv, TypeOK
<1>4. PathsKnown' /\ Garbage' /\ RowsKeepFiles' /\ NoFileLeaks'
  BY <1>2, <1>3, StoreKept DEF Present
<1>5. AdoptionsExist' /\ AdoptedLive'
  BY <1>2 DEF IInv, AdoptionsExist, AdoptedLive, Present
<1> QED
  BY <1>1, <1>4, <1>5 DEF IInv

LEMMA CrashNext == ASSUME IInv, Crash PROVE IInv'
<1>1. request' = [c \in Clients |-> Idle]
      /\ UNCHANGED <<row, path, files, decision, adopted, stale, judged>>
  BY DEF Crash
<1>2. cut' = (cut \/ \E c \in Clients : request[c].op = "discard")
  BY DEF Crash
<1>3. TypeOK'
  BY <1>1, <1>2, IdleType DEF IInv, TypeOK
<1>4. \A c \in Clients : request'[c].op = "idle"
  BY <1>1, IdleOp
<1>5. Garbage'
  BY <1>4 DEF Garbage
<1>6. NoFileLeaks'
  BY <1>1, <1>2 DEF IInv, NoFileLeaks, Rows, Present
<1>7. PathsKnown' /\ RowsKeepFiles' /\ AdoptionsExist' /\ AdoptedLive'
  BY <1>1 DEF IInv, PathsKnown, RowsKeepFiles, AdoptionsExist, AdoptedLive, Rows, Present
<1> QED
  BY <1>3, <1>5, <1>6, <1>7 DEF IInv

\* Slots that were emptied, or hold what they held before, still hold what exists.
LEMMA WithoutType ==
  ASSUME IInv, NEW on
  PROVE  /\ Without(on) \in [Slots -> Arts \cup {None}]
         /\ \A s \in Slots : Without(on)[s] # None =>
              Without(on)[s] = adopted[s] /\ adopted[s] \notin on
BY DEF IInv, TypeOK, Without

LEMMA TrashNext ==
  ASSUME IInv, NEW c \in Clients, NEW r, TrashWrite(c, r) PROVE IInv'
<1>1. r.op = "trash" /\ r.on \ r.trashed \subseteq Rows /\ Write(c, r, Idle)
  BY DEF TrashWrite
<1>2. row' = [a \in Arts |-> IF a \in r.on \ r.trashed THEN "trashed" ELSE row[a]]
      /\ adopted' = Without(r.on) /\ UNCHANGED files
  BY DEF TrashWrite, AfterTrash
<1>3. /\ r \in Requests /\ request' \in [Clients -> Requests] /\ stale' \in BOOLEAN
      /\ UNCHANGED <<path, cut>> /\ (stale => stale') /\ (~stale' => Fresh(r))
      /\ \A k \in Clients : request[k].op = "discard" \/ request'[k].op = "discard" =>
                              request'[k] = request[k]
  BY <1>1, WriteFacts, IdleOp, IdleType
<1>4. decision' \in [Arts -> Decisions] /\ judged' \in SUBSET Arts
  BY RevertedType DEF TrashWrite, IInv, TypeOK
<1>5. adopted' \in [Slots -> Arts \cup {None}]
  BY <1>2, WithoutType
<1>6. row' \in [Arts -> {"absent", "live", "trashed", "purged"}]
  BY <1>2 DEF IInv, TypeOK
<1>7. TypeOK'
  BY <1>2, <1>3, <1>4, <1>5, <1>6 DEF IInv, TypeOK
<1>8. \A a \in Arts : /\ Present(a)' <=> Present(a)
                      /\ row'[a] = "absent" <=> row[a] = "absent"
  BY <1>1, <1>2 DEF Present, Rows
<1>9. PathsKnown' /\ Garbage' /\ RowsKeepFiles' /\ NoFileLeaks'
  BY <1>2, <1>3, <1>8, StoreKept
<1>10. AdoptionsExist'
  BY <1>2, <1>8, WithoutType DEF IInv, TypeOK, AdoptionsExist
<1>11. AdoptedLive'
  BY <1>2, <1>3, WithoutType, NoneAssumption DEF IInv, TypeOK, AdoptedLive
<1> QED
  BY <1>7, <1>9, <1>10, <1>11 DEF IInv

LEMMA RestoreNext ==
  ASSUME IInv, NEW c \in Clients, NEW r, RestoreWrite(c, r) PROVE IInv'
<1>1. r.op = "restore" /\ r.trashed \subseteq Rows /\ Write(c, r, Idle)
  BY DEF RestoreWrite
<1>2. row' = [a \in Arts |-> IF a \in r.trashed THEN "live" ELSE row[a]]
      /\ UNCHANGED <<files, decision, adopted, judged>>
  BY DEF RestoreWrite
<1>3. /\ request' \in [Clients -> Requests] /\ stale' \in BOOLEAN
      /\ UNCHANGED <<path, cut>> /\ (stale => stale')
      /\ \A k \in Clients : request[k].op = "discard" \/ request'[k].op = "discard" =>
                              request'[k] = request[k]
  BY <1>1, WriteFacts, IdleOp, IdleType
<1>4. row' \in [Arts -> {"absent", "live", "trashed", "purged"}]
  BY <1>2 DEF IInv, TypeOK
<1>5. TypeOK'
  BY <1>2, <1>3, <1>4 DEF IInv, TypeOK
<1>6. \A a \in Arts : /\ Present(a)' <=> Present(a)
                      /\ row'[a] = "absent" <=> row[a] = "absent"
  BY <1>1, <1>2 DEF Present, Rows
<1>7. PathsKnown' /\ Garbage' /\ RowsKeepFiles' /\ NoFileLeaks'
  BY <1>2, <1>3, <1>6, StoreKept
<1>8. AdoptionsExist' /\ AdoptedLive'
  BY <1>2, <1>3, <1>6 DEF IInv, TypeOK, AdoptionsExist, AdoptedLive
<1> QED
  BY <1>5, <1>7, <1>8 DEF IInv

LEMMA CopyNext ==
  ASSUME IInv, NEW c \in Clients, NEW r, NEW b \in Arts, CopyWrite(c, r, b)
  PROVE  IInv'
<1>1. /\ r.op = "copy" /\ Present(r.from) /\ row[b] = "absent" /\ request[c] = r
      /\ stale' = (stale \/ ~Fresh(r)) /\ request' = [request EXCEPT ![c] = Idle]
      /\ row' = [row EXCEPT ![b] = "live"]
      /\ path' = [path EXCEPT ![b] = path[r.from]]
      /\ decision' = [decision EXCEPT ![b] = r.decision]
      /\ judged' = judged \cup {b} /\ UNCHANGED <<files, adopted, cut>>
  BY DEF CopyWrite
<1>2. r \in Requests /\ r.from \in Arts /\ r.decision \in Decisions
  BY <1>1, RequestFields DEF IInv, TypeOK
<1>3. TypeOK'
  BY <1>1, <1>2, IdleType DEF IInv, TypeOK
<1>4. Rows' = Rows \cup {b} /\ b \notin Rows /\ r.from \in Rows
  BY <1>1, <1>2 DEF IInv, TypeOK, Rows, Present
<1>5. \A a \in Arts : /\ row'[a] = IF a = b THEN "live" ELSE row[a]
                      /\ path'[a] = IF a = b THEN path[r.from] ELSE path[a]
  BY <1>1 DEF IInv, TypeOK
<1>6. \A k \in Clients : request'[k].op = "discard" => request'[k] = request[k]
  BY <1>1, IdleOp DEF IInv, TypeOK
<1>7. PathsKnown'
  BY <1>1, <1>2, <1>5 DEF IInv, TypeOK, PathsKnown, Present
<1>8. Garbage'
  <2> SUFFICES ASSUME ~stale', NEW k \in Clients, request'[k].op = "discard",
                      NEW f \in request'[k].removed
               PROVE  row'[f] # "absent" /\ \A a \in Rows' : path'[a] # f
    BY DEF Garbage
  <2>1. request'[k] = request[k] /\ request[k] \in Requests /\ ~stale
    BY <1>1, <1>6 DEF IInv, TypeOK
  <2>2. f \in Arts
    BY <2>1, RequestFields
  <2>3. row[f] # "absent" /\ \A a \in Rows : path[a] # f
    BY <2>1 DEF IInv, Garbage
  <2>4. row'[f] # "absent"
    BY <1>5, <2>2, <2>3
  <2>5. ASSUME NEW a \in Rows' PROVE path'[a] # f
    BY <1>4, <1>5, <2>3 DEF Rows
  <2> QED
    BY <2>4, <2>5
<1>9. RowsKeepFiles'
  <2>1. ASSUME ~stale', NEW a \in Rows' PROVE path'[a] \in files
    <3>1. a \in Arts /\ (a = b \/ a \in Rows)
      BY <1>4 DEF Rows
    <3>2. \A d \in Rows : path[d] \in files
      BY <1>1, <2>1 DEF IInv, RowsKeepFiles
    <3> QED
      BY <1>4, <1>5, <3>1, <3>2
  <2> QED
    BY <1>1, <2>1 DEF RowsKeepFiles
<1>10. NoFileLeaks'
  <2> SUFFICES ASSUME ~stale', ~cut', NEW f \in files'
               PROVE  \/ \E a \in Rows' : path'[a] = f
                      \/ \E k \in Clients : /\ request'[k].op = "discard"
                                            /\ f \in request'[k].removed
    BY DEF NoFileLeaks
  <2>1. ~stale /\ ~cut /\ f \in files
    BY <1>1
  <2>2. CASE \E a \in Rows : path[a] = f
    BY <1>4, <1>5, <2>2 DEF Rows
  <2>3. CASE \E k \in Clients : request[k].op = "discard" /\ f \in request[k].removed
    BY <1>1, <2>3 DEF IInv, TypeOK
  <2> QED
    BY <2>1, <2>2, <2>3 DEF IInv, NoFileLeaks
<1>11. AdoptionsExist' /\ AdoptedLive'
  BY <1>1, <1>5, NoneAssumption DEF IInv, TypeOK, AdoptionsExist, AdoptedLive, Present
<1> QED
  BY <1>3, <1>7, <1>8, <1>9, <1>10, <1>11 DEF IInv

LEMMA PurgeNext ==
  ASSUME IInv, NEW c \in Clients, NEW r, PurgeWrite(c, r) PROVE IInv'
<1> DEFINE next == [op |-> "discard", removed |-> r.removed]
<1>1. r.op = "purge" /\ Write(c, r, next) /\ adopted' = Without(r.on)
      /\ row' = [a \in Arts |-> IF a \in r.on THEN "purged" ELSE row[a]]
      /\ UNCHANGED <<files, decision, judged>>
  BY DEF PurgeWrite, AfterPurge
<1>2. request[c] = r /\ r \in Requests /\ r.on \in SUBSET Arts /\ r.removed \in SUBSET Arts
  BY <1>1, RequestFields DEF Write, IInv, TypeOK
<1>3. next \in Requests /\ next.op = "discard" /\ next.removed = r.removed
  BY <1>2 DEF Requests
<1>4. /\ request' \in [Clients -> Requests] /\ stale' \in BOOLEAN
      /\ UNCHANGED <<path, cut>> /\ (stale => stale') /\ (~stale' => Fresh(r))
  BY <1>1, <1>3, WriteFacts
<1>5. \A k \in Clients : request'[k] = IF k = c THEN next ELSE request[k]
  BY <1>1, <1>3 DEF Write, IInv, TypeOK
<1>6. row' \in [Arts -> {"absent", "live", "trashed", "purged"}]
  BY <1>1 DEF IInv, TypeOK
<1>7. adopted' \in [Slots -> Arts \cup {None}]
  BY <1>1, WithoutType
<1>8. TypeOK'
  BY <1>1, <1>4, <1>6, <1>7 DEF IInv, TypeOK
<1>9. Rows' = Rows \ r.on
  BY <1>1 DEF Rows, Present
<1>10. ~stale' => r.on \subseteq Rows /\ r.removed = Unshared(r.on)
  <2> SUFFICES ASSUME ~stale' PROVE r.on \subseteq Rows /\ r.removed = Unshared(r.on)
    OBVIOUS
  <2>1. Fresh(r)
    BY <1>4
  <2>2. Trashed(r.on) = r.on /\ r.removed = Unshared(r.on)
    BY <1>1, <2>1 DEF Fresh
  <2>3. \A a \in r.on : a \in Arts /\ row[a] = "trashed"
    BY <1>2, <2>2 DEF Trashed
  <2> QED
    BY <2>2, <2>3 DEF Rows, Present
<1>11. PathsKnown'
  BY <1>1, <1>4 DEF IInv, TypeOK, PathsKnown
<1>12. Garbage'
  <2> SUFFICES ASSUME ~stale', NEW k \in Clients, request'[k].op = "discard",
                      NEW f \in request'[k].removed
               PROVE  row'[f] # "absent" /\ \A a \in Rows' : path'[a] # f
    BY DEF Garbage
  <2>1. CASE k = c
    <3>1. f \in Unshared(r.on)
      BY <1>3, <1>5, <1>10, <2>1
    <3>2. PICK a \in r.on : f = path[a]
      BY <3>1 DEF Unshared
    <3>3. a \in Rows /\ a \in Arts
      BY <1>2, <1>10
    <3>4. row[f] # "absent"
      BY <3>2, <3>3 DEF IInv, PathsKnown, Rows, Present
    <3>5. f \in Arts
      BY <1>2, <2>1, <1>5, <1>3
    <3>6. row'[f] # "absent"
      BY <1>1, <3>4, <3>5
    <3>7. \A b \in Rows' : path'[b] # f
      BY <1>4, <1>9, <3>1 DEF Unshared
    <3> QED
      BY <3>6, <3>7
  <2>2. CASE k # c
    <3>1. request'[k] = request[k] /\ request[k] \in Requests
      BY <1>5, <2>2 DEF IInv, TypeOK
    <3>2. f \in Arts
      BY <3>1, RequestFields
    <3>3. row[f] # "absent" /\ \A a \in Rows : path[a] # f
      BY <1>4, <3>1 DEF IInv, Garbage
    <3> QED
      BY <1>1, <1>4, <1>9, <3>2, <3>3
  <2> QED
    BY <2>1, <2>2
<1>13. RowsKeepFiles'
  BY <1>1, <1>4, <1>9 DEF IInv, RowsKeepFiles
<1>14. NoFileLeaks'
  <2> SUFFICES ASSUME ~stale', ~cut', NEW f \in files'
               PROVE  \/ \E a \in Rows' : path'[a] = f
                      \/ \E k \in Clients : /\ request'[k].op = "discard"
                                            /\ f \in request'[k].removed
    BY DEF NoFileLeaks
  <2>1. ~stale /\ ~cut /\ f \in files
    BY <1>1, <1>4
  <2>2. ASSUME NEW a \in Rows, path[a] = f, f \notin Unshared(r.on)
        PROVE  \E b \in Rows' : path'[b] = f
    <3>1. a \in r.on => \E b \in Rows \ r.on : path[b] = f
      BY <2>2 DEF Unshared
    <3> QED
      BY <1>4, <1>9, <2>2, <3>1
  <2>3. CASE \E a \in Rows : path[a] = f
    <3>1. CASE f \in Unshared(r.on)
      BY <1>3, <1>5, <1>10, <3>1
    <3>2. CASE f \notin Unshared(r.on)
      BY <2>2, <2>3, <3>2
    <3> QED
      BY <3>1, <3>2
  <2>4. CASE \E k \in Clients : request[k].op = "discard" /\ f \in request[k].removed
    BY <1>1, <1>2, <1>5, <2>4
  <2> QED
    BY <2>1, <2>3, <2>4 DEF IInv, NoFileLeaks
<1>15. AdoptionsExist'
  BY <1>1, WithoutType, NoneAssumption DEF IInv, TypeOK, AdoptionsExist, Present
<1>16. AdoptedLive'
  BY <1>1, <1>4, WithoutType, NoneAssumption DEF IInv, TypeOK, AdoptedLive
<1> QED
  BY <1>8, <1>11, <1>12, <1>13, <1>14, <1>15, <1>16 DEF IInv

LEMMA DiscardNext ==
  ASSUME IInv, NEW c \in Clients, NEW r, Discard(c, r) PROVE IInv'
<1>1. r.op = "discard" /\ Write(c, r, Idle) /\ files' = files \ r.removed
      /\ UNCHANGED <<row, decision, adopted, judged>>
  BY DEF Discard, Removed
<1>2. request[c] = r /\ r \in Requests /\ r.removed \in SUBSET Arts
  BY <1>1, RequestFields DEF Write, IInv, TypeOK
<1>3. /\ request' \in [Clients -> Requests] /\ stale' \in BOOLEAN
      /\ UNCHANGED <<path, cut>> /\ (stale => stale')
  BY <1>1, IdleType, WriteFacts
<1>4. \A k \in Clients : request'[k] = IF k = c THEN Idle ELSE request[k]
  BY <1>1, IdleType DEF Write, IInv, TypeOK
<1>5. TypeOK'
  BY <1>1, <1>3 DEF IInv, TypeOK
<1>6. Rows' = Rows
  BY <1>1 DEF Rows, Present
<1>7. PathsKnown' /\ AdoptionsExist' /\ AdoptedLive'
  BY <1>1, <1>3 DEF IInv, PathsKnown, AdoptionsExist, AdoptedLive, Present
<1>8. Garbage'
  BY <1>1, <1>3, <1>4, <1>6, IdleOp DEF IInv, Garbage
<1>9. RowsKeepFiles'
  BY <1>1, <1>2, <1>3, <1>6 DEF IInv, RowsKeepFiles, Garbage
<1>10. NoFileLeaks'
  BY <1>1, <1>2, <1>3, <1>4, <1>6 DEF IInv, NoFileLeaks
<1> QED
  BY <1>5, <1>7, <1>8, <1>9, <1>10 DEF IInv

\* A step that leaves the rows alone and puts only live artifacts into slots.
LEMMA RowsKept ==
  ASSUME IInv, NEW c \in Clients, NEW r, Write(c, r, Idle), r.op # "discard",
         UNCHANGED <<row, files>>,
         decision' \in [Arts -> Decisions], judged' \in SUBSET Arts,
         adopted' \in [Slots -> Arts \cup {None}],
         \A s \in Slots : \/ adopted'[s] = adopted[s] \/ adopted'[s] = None
                          \/ Present(adopted'[s]) /\ (~stale' => row[adopted'[s]] = "live")
  PROVE  IInv'
<1>1. /\ request' \in [Clients -> Requests] /\ stale' \in BOOLEAN
      /\ UNCHANGED <<path, cut>> /\ (stale => stale')
      /\ \A k \in Clients : request[k].op = "discard" \/ request'[k].op = "discard" =>
                              request'[k] = request[k]
  BY WriteFacts, IdleOp, IdleType
<1>2. TypeOK'
  BY <1>1 DEF IInv, TypeOK
<1>3. PathsKnown' /\ Garbage' /\ RowsKeepFiles' /\ NoFileLeaks'
  BY <1>1, StoreKept DEF Present
<1>4. AdoptionsExist'
  BY DEF IInv, AdoptionsExist, Present
<1>5. AdoptedLive'
  BY <1>1 DEF IInv, AdoptedLive
<1> QED
  BY <1>2, <1>3, <1>4, <1>5 DEF IInv

LEMMA AdoptNext ==
  ASSUME IInv, NEW c \in Clients, NEW r, AdoptWrite(c, r) PROVE IInv'
<1>1. r.op = "adopt" /\ Present(r.art) /\ Write(c, r, Idle) /\ UNCHANGED <<row, files>>
      /\ adopted' = IF r.held = r.art THEN adopted ELSE [adopted EXCEPT ![r.slot] = r.art]
  BY DEF AdoptWrite
<1>2. r.slot \in Slots /\ r.art \in Arts /\ (~stale' => Fresh(r))
  BY <1>1, RequestFields, WriteFacts, IdleType
<1>3. ~stale' => row[r.art] = "live"
  BY <1>1, <1>2 DEF Fresh
<1>4. adopted' \in [Slots -> Arts \cup {None}]
  BY <1>1, <1>2 DEF IInv, TypeOK
<1>5. \A s \in Slots : \/ adopted'[s] = adopted[s]
                       \/ Present(adopted'[s]) /\ (~stale' => row[adopted'[s]] = "live")
  BY <1>1, <1>2, <1>3 DEF IInv, TypeOK
<1>6. PICK gone, slots, acc :
        decision' = IF r.decision = "accepted" THEN Reverted(gone, slots, acc)
                    ELSE [Reverted(gone, slots, acc) EXCEPT ![r.art] = "accepted"]
  BY DEF AdoptWrite
<1>7. Reverted(gone, slots, acc) \in [Arts -> Decisions]
  BY RevertedType DEF IInv
<1>8. decision' \in [Arts -> Decisions]
  BY <1>2, <1>6, <1>7 DEF Decisions
<1>9. judged' \in SUBSET Arts
  BY DEF AdoptWrite, IInv, TypeOK
<1> QED
  BY <1>1, <1>4, <1>5, <1>8, <1>9, RowsKept

LEMMA ReleaseNext ==
  ASSUME IInv, NEW c \in Clients, NEW r, ReleaseWrite(c, r) PROVE IInv'
<1>1. r.op = "release" /\ Write(c, r, Idle) /\ UNCHANGED <<row, files>>
  BY DEF ReleaseWrite
<1>2. r.slot \in Slots
  BY <1>1, RequestFields, WriteFacts, IdleType
<1>3. judged' \in SUBSET Arts
  BY DEF ReleaseWrite, IInv, TypeOK
<1>4. CASE r.held = None
  <2>1. UNCHANGED <<adopted, decision>>
    BY <1>4 DEF ReleaseWrite
  <2>2. adopted \in [Slots -> Arts \cup {None}] /\ decision \in [Arts -> Decisions]
    BY DEF IInv, TypeOK
  <2> QED
    BY <1>1, <1>3, <2>1, <2>2, RowsKept
<1>5. CASE r.held # None
  <2>1. adopted' = [adopted EXCEPT ![r.slot] = None]
        /\ decision' = Reverted({r.held}, adopted', Accepted(Arts))
    BY <1>5 DEF ReleaseWrite
  <2>2. decision' \in [Arts -> Decisions]
    BY <2>1, RevertedType DEF IInv
  <2>3. adopted' \in [Slots -> Arts \cup {None}]
    BY <1>2, <2>1 DEF IInv, TypeOK
  <2>4. \A s \in Slots : adopted'[s] = adopted[s] \/ adopted'[s] = None
    BY <1>2, <2>1 DEF IInv, TypeOK
  <2> QED
    BY <1>1, <1>3, <2>2, <2>3, <2>4, RowsKept
<1> QED
  BY <1>4, <1>5

LEMMA DecideNext ==
  ASSUME IInv, NEW c \in Clients, NEW r, DecideWrite(c, r) PROVE IInv'
<1>1. r.op = "decide" /\ Write(c, r, Idle) /\ UNCHANGED <<row, files, adopted>>
      /\ decision' = (IF r.to = r.decision THEN decision
                      ELSE [decision EXCEPT ![r.art] = r.to])
      /\ judged' = judged \cup {r.art}
  BY DEF DecideWrite
<1>2. r.art \in Arts /\ r.to \in Decisions
  BY <1>1, RequestFields, WriteFacts, IdleType
<1>3. decision' \in [Arts -> Decisions] /\ judged' \in SUBSET Arts
  BY <1>1, <1>2 DEF IInv, TypeOK
<1>4. adopted' \in [Slots -> Arts \cup {None}] /\ \A s \in Slots : adopted'[s] = adopted[s]
  BY <1>1 DEF IInv, TypeOK
<1> QED
  BY <1>1, <1>3, <1>4, RowsKept

LEMMA IInvNext == IInv /\ [Next]_vars => IInv'
<1> SUFFICES ASSUME IInv, [Next]_vars PROVE IInv'
  OBVIOUS
<1>1. ASSUME NEW c \in Clients, WriteStep(c, request[c]) PROVE IInv'
  <2> DEFINE r == request[c]
  <2>1. CASE TrashWrite(c, r)
    BY <2>1, TrashNext
  <2>2. CASE RestoreWrite(c, r)
    BY <2>2, RestoreNext
  <2>3. CASE \E b \in Arts : CopyWrite(c, r, b)
    BY <2>3, CopyNext
  <2>4. CASE PurgeWrite(c, r)
    BY <2>4, PurgeNext
  <2>5. CASE Discard(c, r)
    BY <2>5, DiscardNext
  <2>6. CASE AdoptWrite(c, r)
    BY <2>6, AdoptNext
  <2>7. CASE ReleaseWrite(c, r)
    BY <2>7, ReleaseNext
  <2>8. CASE DecideWrite(c, r)
    BY <2>8, DecideNext
  <2> QED
    BY <1>1, <2>1, <2>2, <2>3, <2>4, <2>5, <2>6, <2>7, <2>8 DEF WriteStep
<1>2. CASE \E a \in Arts : Create(a)
  BY <1>2, CreateNext
<1>3. CASE \E c \in Clients : ReadStep(c)
  BY <1>3, ReadNext
<1>4. CASE \E c \in Clients : Abort(c)
  BY <1>4, AbortNext
<1>5. CASE Crash
  BY <1>5, CrashNext
<1>6. CASE UNCHANGED vars
  BY <1>6 DEF vars, IInv, TypeOK, PathsKnown, Garbage, AdoptionsExist, RowsKeepFiles,
              NoFileLeaks, AdoptedLive, Rows, Present
<1> QED
  BY <1>1, <1>2, <1>3, <1>4, <1>5, <1>6 DEF Next

-----------------------------------------------------------------------------
(* Decisions.  An artifact that was never stored is not accepted, so that  *)
(* a new one starts without decision and, by AdoptionsExist, without slot. *)

UnstoredUndecided == \A a \in Arts : row[a] = "absent" => decision[a] # "accepted"

DInv == UnstoredUndecided /\ DecisionsFollowAdoptions

LEMMA DInvInit == Init => DInv
BY DEF Init, DInv, UnstoredUndecided, DecisionsFollowAdoptions, Rows, Present

Held(a) == \E s \in Slots : adopted[s] = a

\* What a step has to show, artifact by artifact.
LEMMA DecisionsKept ==
  ASSUME IInv, DInv, stale => stale',
         \A a \in Arts : row'[a] = "absent" =>
            row[a] = "absent" /\ (decision'[a] = decision[a] \/ decision'[a] # "accepted"),
         ~stale' => \A a \in Arts : Present(a)' /\ a \notin judged' =>
            \/ /\ Present(a) /\ a \notin judged /\ decision'[a] = decision[a]
               /\ Held(a)' <=> Held(a)
            \/ decision'[a] = "accepted" /\ Held(a)'
            \/ decision'[a] # "accepted" /\ ~Held(a)'
  PROVE  DInv'
<1>1. UnstoredUndecided'
  BY DEF DInv, UnstoredUndecided
<1>2. ASSUME ~stale', NEW a \in Arts, Present(a)', a \notin judged'
      PROVE  decision'[a] = "accepted" <=> Held(a)'
  <2>1. CASE /\ Present(a) /\ a \notin judged /\ decision'[a] = decision[a]
             /\ Held(a)' <=> Held(a)
    <3>1. decision[a] = "accepted" <=> Held(a)
      BY <1>2, <2>1 DEF DInv, DecisionsFollowAdoptions, Rows, Held
    <3> QED
      BY <2>1, <3>1
  <2> QED
    BY <1>2, <2>1
<1>3. DecisionsFollowAdoptions'
  BY <1>2 DEF DecisionsFollowAdoptions, Rows, Held
<1> QED
  BY <1>1, <1>3 DEF DInv

\* A step that leaves rows, decisions and slots alone.
LEMMA DecisionsUntouched ==
  ASSUME IInv, DInv, stale => stale', UNCHANGED <<row, decision, adopted, judged>>
  PROVE  DInv'
BY DEF DInv, UnstoredUndecided, DecisionsFollowAdoptions, Rows, Present

\* What becomes of a decision when artifacts leave their slots.
LEMMA RevertedIs ==
  ASSUME TypeOK, NEW gone, NEW slots, NEW accepted, NEW a \in Arts
  PROVE  Reverted(gone, slots, accepted)[a] =
           IF a \in gone \cap accepted /\ \A s \in Slots : slots[s] # a
           THEN "undecided" ELSE decision[a]
BY DEF Reverted

LEMMA CreateDecides == ASSUME IInv, DInv, NEW a \in Arts, Create(a) PROVE DInv'
<1>1. \A b \in Arts : row'[b] = IF b = a THEN "live" ELSE row[b]
  BY DEF Create, IInv, TypeOK
<1>2. row[a] = "absent" /\ UNCHANGED <<decision, adopted, stale, judged>>
  BY DEF Create
<1>3. decision[a] # "accepted" /\ ~Held(a)
  BY <1>2, NoneAssumption DEF DInv, UnstoredUndecided, IInv, AdoptionsExist, Held, Present
<1>4. \A b \in Arts : Held(b)' <=> Held(b)
  BY <1>2 DEF Held
<1> QED
  BY <1>1, <1>2, <1>3, <1>4, DecisionsKept DEF Present

LEMMA TrashDecides ==
  ASSUME IInv, DInv, NEW c \in Clients, NEW r, TrashWrite(c, r) PROVE DInv'
<1>1. /\ r.op = "trash" /\ r.on \ r.trashed \subseteq Rows /\ Write(c, r, Idle)
      /\ row' = [a \in Arts |-> IF a \in r.on \ r.trashed THEN "trashed" ELSE row[a]]
      /\ adopted' = Without(r.on)
      /\ decision' = Reverted(Released(r.on), Without(r.on), r.accepted)
      /\ judged' = judged \ Settle(Arts, decision')
  BY DEF TrashWrite, AfterTrash
<1>2. (stale => stale') /\ (~stale' => Fresh(r))
  BY <1>1, WriteFacts, IdleType
<1>3. \A a \in Arts : /\ row'[a] = "absent" => row[a] = "absent"
                      /\ Present(a)' => Present(a)
  BY <1>1 DEF Rows, Present
<1>4. \A a \in Arts : decision'[a] = decision[a] \/ decision'[a] = "undecided"
  BY <1>1, RevertedIs DEF IInv
<1>5. ASSUME ~stale', NEW a \in Arts, Present(a)', a \notin judged'
      PROVE  \/ /\ Present(a) /\ a \notin judged /\ decision'[a] = decision[a]
                /\ Held(a)' <=> Held(a)
             \/ decision'[a] # "accepted" /\ ~Held(a)'
  <2>1. r.accepted = Accepted(r.on)
    BY <1>1, <1>2, <1>5 DEF Fresh
  <2>2. a \notin judged \/ decision'[a] # decision[a]
    BY <1>1, <1>5 DEF Settle
  <2>3. CASE a \in r.on
    <3>1. ~Held(a)'
      BY <1>1, <2>3, NoneAssumption DEF Without, Held
    <3>2. ASSUME a \notin judged, decision[a] = "accepted" PROVE decision'[a] = "undecided"
      <4>1. Held(a)
        BY <1>2, <1>3, <1>5, <3>2 DEF DInv, DecisionsFollowAdoptions, Rows, Held
      <4>2. a \in Released(r.on) \cap r.accepted
        BY <2>1, <2>3, <3>2, <4>1 DEF Released, Accepted, Held
      <4>3. \A s \in Slots : Without(r.on)[s] # a
        BY <1>1, <3>1 DEF Held
      <4> QED
        BY <1>1, <4>2, <4>3, RevertedIs DEF IInv
    <3> QED
      BY <1>4, <2>2, <3>1, <3>2
  <2>4. CASE a \notin r.on
    <3>1. decision'[a] = decision[a]
      BY <1>1, <2>4, RevertedIs DEF IInv, Released
    <3>2. Held(a)' <=> Held(a)
      BY <1>1, <2>4, NoneAssumption DEF Without, Held
    <3> QED
      BY <1>3, <1>5, <2>2, <3>1, <3>2
  <2> QED
    BY <2>3, <2>4
<1> QED
  BY <1>2, <1>3, <1>4, <1>5, DecisionsKept

LEMMA RestoreDecides ==
  ASSUME IInv, DInv, NEW c \in Clients, NEW r, RestoreWrite(c, r) PROVE DInv'
<1>1. /\ r.trashed \subseteq Rows /\ Write(c, r, Idle)
      /\ row' = [a \in Arts |-> IF a \in r.trashed THEN "live" ELSE row[a]]
      /\ UNCHANGED <<decision, adopted, judged>>
  BY DEF RestoreWrite
<1>2. stale => stale'
  BY <1>1, WriteFacts, IdleType
<1>3. \A a \in Arts : /\ row'[a] = "absent" => row[a] = "absent"
                      /\ Present(a)' => Present(a)
  BY <1>1 DEF Rows, Present
<1>4. \A a \in Arts : Held(a)' <=> Held(a)
  BY <1>1 DEF Held
<1> QED
  BY <1>1, <1>2, <1>3, <1>4, DecisionsKept

LEMMA CopyDecides ==
  ASSUME IInv, DInv, NEW c \in Clients, NEW r, NEW b \in Arts, CopyWrite(c, r, b)
  PROVE  DInv'
<1>1. /\ stale' = (stale \/ ~Fresh(r)) /\ row' = [row EXCEPT ![b] = "live"]
      /\ decision' = [decision EXCEPT ![b] = r.decision]
      /\ judged' = judged \cup {b} /\ UNCHANGED adopted
  BY DEF CopyWrite
<1>2. \A a \in Arts : a # b => /\ row'[a] = row[a] /\ decision'[a] = decision[a]
                               /\ Held(a)' <=> Held(a)
  BY <1>1 DEF IInv, TypeOK, Held
<1>3. row'[b] = "live" /\ b \in judged'
  BY <1>1 DEF IInv, TypeOK
<1>4. \A a \in Arts : a \notin judged' => a # b /\ a \notin judged
  BY <1>1
<1> QED
  BY <1>1, <1>2, <1>3, <1>4, DecisionsKept DEF Present

LEMMA PurgeDecides ==
  ASSUME IInv, DInv, NEW c \in Clients, NEW r, PurgeWrite(c, r) PROVE DInv'
<1> DEFINE next == [op |-> "discard", removed |-> r.removed]
<1>1. /\ Write(c, r, next) /\ adopted' = Without(r.on)
      /\ row' = [a \in Arts |-> IF a \in r.on THEN "purged" ELSE row[a]]
      /\ UNCHANGED <<decision, judged>>
  BY DEF PurgeWrite, AfterPurge
<1>2. stale => stale'
  BY <1>1 DEF Write
<1>3. \A a \in Arts : /\ row'[a] = "absent" => row[a] = "absent"
                      /\ Present(a)' => Present(a) /\ a \notin r.on
  BY <1>1 DEF Present
<1>4. \A a \in Arts : a \notin r.on => (Held(a)' <=> Held(a))
  BY <1>1, NoneAssumption DEF Without, Held
<1> QED
  BY <1>1, <1>2, <1>3, <1>4, DecisionsKept

LEMMA AdoptDecides ==
  ASSUME IInv, DInv, NEW c \in Clients, NEW r, AdoptWrite(c, r) PROVE DInv'
<1> DEFINE reverted == Reverted(Replaced(r), adopted', Accepted(Arts))
<1>1. /\ r.op = "adopt" /\ Present(r.art) /\ Write(c, r, Idle) /\ UNCHANGED row
      /\ adopted' = IF r.held = r.art THEN adopted ELSE [adopted EXCEPT ![r.slot] = r.art]
      /\ decision' = IF r.decision = "accepted" THEN reverted
                     ELSE [reverted EXCEPT ![r.art] = "accepted"]
      /\ judged' = judged \ Settle(Arts, decision')
  BY DEF AdoptWrite
<1>2. /\ (stale => stale') /\ (~stale' => Fresh(r))
      /\ r.slot \in Slots /\ r.art \in Arts
  BY <1>1, WriteFacts, IdleType, RequestFields
<1>3. reverted \in [Arts -> Decisions]
  BY RevertedType DEF IInv
<1>4. \A a \in Arts : /\ a # r.art => decision'[a] = reverted[a]
                      /\ decision'[r.art] = IF r.decision = "accepted" THEN reverted[r.art]
                                            ELSE "accepted"
  BY <1>1, <1>2, <1>3
<1>5. \A a \in Arts : a # r.art =>
        decision'[a] = decision[a] \/ decision'[a] = "undecided"
  BY <1>4, RevertedIs DEF IInv
<1>6. r.art \notin Replaced(r)
  BY DEF Replaced
<1>7. row[r.art] # "absent"
  BY <1>1 DEF Present
<1>8. ASSUME ~stale', NEW a \in Arts, Present(a)', a \notin judged'
      PROVE  \/ /\ Present(a) /\ a \notin judged /\ decision'[a] = decision[a]
                /\ Held(a)' <=> Held(a)
             \/ decision'[a] = "accepted" /\ Held(a)'
             \/ decision'[a] # "accepted" /\ ~Held(a)'
  <2>1. decision[r.art] = r.decision /\ adopted[r.slot] = r.held
    BY <1>1, <1>2, <1>8 DEF Fresh
  <2>2. \A s \in Slots : adopted'[s] = IF s = r.slot THEN r.art ELSE adopted[s]
    BY <1>1, <1>2, <2>1 DEF IInv, TypeOK
  <2>3. a \notin judged \/ decision'[a] # decision[a]
    BY <1>1, <1>8 DEF Settle
  <2>4. Present(a)
    BY <1>1, <1>8 DEF Present
  <2>5. CASE a = r.art
    <3>1. Held(a)'
      BY <1>2, <2>2, <2>5 DEF Held
    <3>2. reverted[a] = decision[a]
      BY <1>6, <2>5, RevertedIs DEF IInv
    <3>3. decision'[a] = "accepted"
      BY <1>4, <2>1, <2>5, <3>2
    <3> QED
      BY <3>1, <3>3
  <2>6. CASE a # r.art /\ a # r.held
    <3>1. a \notin Replaced(r)
      BY <2>6 DEF Replaced
    <3>2. decision'[a] = decision[a]
      BY <1>4, <2>6, <3>1, RevertedIs DEF IInv
    <3>3. Held(a)' <=> Held(a)
      BY <1>2, <2>1, <2>2, <2>6 DEF Held
    <3> QED
      BY <2>3, <2>4, <3>2, <3>3
  <2>7. CASE a # r.art /\ a = r.held
    <3>1. a \in Replaced(r)
      BY <2>7, NoneAssumption DEF Replaced
    <3>2. Held(a)
      BY <1>2, <2>1, <2>7 DEF Held
    <3>3. CASE Held(a)'
      <4>1. decision'[a] = decision[a]
        BY <1>4, <2>7, <3>3, RevertedIs DEF IInv, Held
      <4> QED
        BY <2>3, <2>4, <3>2, <3>3, <4>1
    <3>4. CASE ~Held(a)'
      <4>1. \A s \in Slots : adopted'[s] # a
        BY <3>4 DEF Held
      <4>2. reverted[a] = IF a \in Replaced(r) \cap Accepted(Arts) THEN "undecided"
                          ELSE decision[a]
        BY <4>1, RevertedIs DEF IInv
      <4>3. decision[a] = "accepted" => decision'[a] = "undecided"
        BY <1>4, <2>7, <3>1, <4>2 DEF Accepted
      <4> QED
        BY <1>5, <2>7, <3>4, <4>3
    <3> QED
      BY <3>3, <3>4
  <2> QED
    BY <2>5, <2>6, <2>7
<1>9. \A a \in Arts : row'[a] = "absent" =>
        row[a] = "absent" /\ (decision'[a] = decision[a] \/ decision'[a] # "accepted")
  BY <1>1, <1>5, <1>7
<1> QED
  BY <1>2, <1>8, <1>9, DecisionsKept

LEMMA ReleaseDecides ==
  ASSUME IInv, DInv, NEW c \in Clients, NEW r, ReleaseWrite(c, r) PROVE DInv'
<1>1. /\ r.op = "release" /\ Write(c, r, Idle) /\ UNCHANGED row
      /\ judged' = judged \ Settle(Arts, decision')
  BY DEF ReleaseWrite
<1>2. /\ (stale => stale') /\ (~stale' => Fresh(r))
      /\ r.slot \in Slots
  BY <1>1, WriteFacts, IdleType, RequestFields
<1>3. CASE r.held = None
  <2>1. UNCHANGED <<adopted, decision>>
    BY <1>3 DEF ReleaseWrite
  <2>2. judged' = judged
    BY <1>1, <2>1 DEF Settle
  <2> QED
    BY <1>1, <1>2, <2>1, <2>2, DecisionsUntouched
<1>4. CASE r.held # None
  <2>1. \A a \in Arts : decision'[a] =
          IF a = r.held /\ decision[a] = "accepted" /\ \A s \in Slots : adopted'[s] # a
          THEN "undecided" ELSE decision[a]
    <3>1. decision' = Reverted({r.held}, adopted', Accepted(Arts))
      BY <1>4 DEF ReleaseWrite
    <3> QED
      BY <3>1 DEF Reverted, Accepted
  <2>2. \A a \in Arts : decision'[a] = decision[a] \/ decision'[a] = "undecided"
    BY <2>1
  <2>3. \A s \in Slots : adopted'[s] = IF s = r.slot THEN None ELSE adopted[s]
    BY <1>2, <1>4 DEF ReleaseWrite, IInv, TypeOK
  <2>4. ASSUME ~stale', NEW a \in Arts, Present(a)', a \notin judged'
        PROVE  \/ /\ Present(a) /\ a \notin judged /\ decision'[a] = decision[a]
                  /\ Held(a)' <=> Held(a)
               \/ decision'[a] # "accepted" /\ ~Held(a)'
    <3>1. adopted[r.slot] = r.held
      BY <1>1, <1>2, <2>4 DEF Fresh
    <3>2. a \notin judged \/ decision'[a] # decision[a]
      BY <1>1, <2>4 DEF Settle
    <3>3. Present(a) /\ a # None
      BY <1>1, <2>4, NoneAssumption DEF Present
    <3>4. CASE a = r.held /\ ~Held(a)'
      <4>1. decision[a] = "accepted" => decision'[a] = "undecided"
        BY <2>1, <3>4 DEF Held
      <4> QED
        BY <2>2, <3>4, <4>1
    <3>5. CASE a = r.held /\ Held(a)'
      <4>1. decision'[a] = decision[a]
        BY <2>1, <3>5 DEF Held
      <4>2. Held(a)
        BY <1>2, <3>1, <3>5 DEF Held
      <4> QED
        BY <3>2, <3>3, <3>5, <4>1, <4>2
    <3>6. CASE a # r.held
      <4>1. decision'[a] = decision[a]
        BY <2>1, <3>6
      <4>2. Held(a)' <=> Held(a)
        BY <1>2, <2>3, <3>1, <3>3, <3>6 DEF Held
      <4> QED
        BY <3>2, <3>3, <4>1, <4>2
    <3> QED
      BY <3>4, <3>5, <3>6
  <2> QED
    BY <1>1, <1>2, <2>2, <2>4, DecisionsKept
<1> QED
  BY <1>3, <1>4

LEMMA DecideDecides ==
  ASSUME IInv, DInv, NEW c \in Clients, NEW r, DecideWrite(c, r) PROVE DInv'
<1>1. /\ r.op = "decide" /\ Present(r.art) /\ Write(c, r, Idle) /\ UNCHANGED <<row, adopted>>
      /\ decision' = (IF r.to = r.decision THEN decision
                      ELSE [decision EXCEPT ![r.art] = r.to])
      /\ judged' = judged \cup {r.art}
  BY DEF DecideWrite
<1>2. stale => stale'
  BY <1>1, WriteFacts, IdleType
<1>3. \A a \in Arts : a # r.art => decision'[a] = decision[a]
  BY <1>1 DEF IInv, TypeOK
<1>4. \A a \in Arts : (Held(a)' <=> Held(a)) /\ (Present(a)' <=> Present(a))
  BY <1>1 DEF Held, Present
<1>5. row[r.art] # "absent"
  BY <1>1 DEF Present
<1> QED
  BY <1>1, <1>2, <1>3, <1>4, <1>5, DecisionsKept

LEMMA DInvNext == IInv /\ DInv /\ [Next]_vars => DInv'
<1> SUFFICES ASSUME IInv, DInv, [Next]_vars PROVE DInv'
  OBVIOUS
<1>1. ASSUME NEW c \in Clients, WriteStep(c, request[c]) PROVE DInv'
  <2> DEFINE r == request[c]
  <2>1. CASE TrashWrite(c, r)
    BY <2>1, TrashDecides
  <2>2. CASE RestoreWrite(c, r)
    BY <2>2, RestoreDecides
  <2>3. CASE \E b \in Arts : CopyWrite(c, r, b)
    BY <2>3, CopyDecides
  <2>4. CASE PurgeWrite(c, r)
    BY <2>4, PurgeDecides
  <2>5. CASE Discard(c, r)
    <3>1. (stale => stale') /\ UNCHANGED <<row, decision, adopted, judged>>
      BY <2>5 DEF Discard, Write
    <3> QED
      BY <3>1, DecisionsUntouched
  <2>6. CASE AdoptWrite(c, r)
    BY <2>6, AdoptDecides
  <2>7. CASE ReleaseWrite(c, r)
    BY <2>7, ReleaseDecides
  <2>8. CASE DecideWrite(c, r)
    BY <2>8, DecideDecides
  <2> QED
    BY <1>1, <2>1, <2>2, <2>3, <2>4, <2>5, <2>6, <2>7, <2>8 DEF WriteStep
<1>2. CASE \E a \in Arts : Create(a)
  BY <1>2, CreateDecides
<1>3. ASSUME NEW c \in Clients, ReadStep(c) PROVE DInv'
  <2>1. PICK r \in Requests : Read(c, r)
    BY <1>3, ReadStepRead DEF IInv
  <2>2. UNCHANGED <<row, decision, adopted, stale, judged>>
    BY <2>1 DEF Read
  <2> QED
    BY <2>2, DecisionsUntouched
<1>4. CASE (\E c \in Clients : Abort(c)) \/ Crash \/ UNCHANGED vars
  <2>1. UNCHANGED <<row, decision, adopted, stale, judged>>
    BY <1>4 DEF Abort, Crash, vars
  <2> QED
    BY <2>1, DecisionsUntouched
<1> QED
  BY <1>1, <1>2, <1>3, <1>4 DEF Next

-----------------------------------------------------------------------------
(* Theorems.                                                               *)

\* The store is well-typed and its inductive invariant holds.
THEOREM Invariance == Spec => []IInv
BY IInvInit, IInvNext, PTL DEF Spec

\* The rows, files, decisions, slots and requests always have their types.
THEOREM StoreTypes == Spec => []TypeOK
<1>1. IInv => TypeOK
  BY DEF IInv
<1> QED
  BY <1>1, Invariance, PTL

\* Whatever requests overlap, no scene slot holds an artifact that a purge has
\* deleted: the foreign key and the deletes of the purge are one transaction.
THEOREM SlotsHoldRows == Spec => []AdoptionsExist
<1>1. IInv => AdoptionsExist
  BY DEF IInv
<1> QED
  BY <1>1, Invariance, PTL

\* Copies share a file, and only the purge of its last row removes it.
THEOREM FilesOutliveRows == Spec => []RowsKeepFiles
<1>1. IInv => RowsKeepFiles
  BY DEF IInv
<1> QED
  BY <1>1, Invariance, PTL

\* Every file belongs to a row or to a purge that is about to remove it.
THEOREM FilesBelong == Spec => []NoFileLeaks
<1>1. IInv => NoFileLeaks
  BY DEF IInv
<1> QED
  BY <1>1, Invariance, PTL

\* What is trashed or purged is in no slot.
THEOREM SlotsHoldLive == Spec => []AdoptedLive
<1>1. IInv => AdoptedLive
  BY DEF IInv
<1> QED
  BY <1>1, Invariance, PTL

\* Slots hold only rows that exist and, short of a stale write, are not trashed.
THEOREM SlotsSound == Spec => []AdoptionsSound
<1>1. IInv => AdoptionsSound
  BY DEF IInv, AdoptionsSound
<1> QED
  BY <1>1, Invariance, PTL

\* Rows and files agree, short of a stale write or of a purge cut off.
THEOREM FilesAndRowsAgree == Spec => []FilesFollowRows
<1>1. IInv => FilesFollowRows
  BY DEF IInv, FilesFollowRows
<1> QED
  BY <1>1, Invariance, PTL

\* Short of a stale write, what the user has not judged is accepted exactly
\* while a slot holds it: adopting, replacing, releasing, trashing and purging
\* keep the two in step.
THEOREM DecisionsMatch == Spec => []DecisionsFollowAdoptions
<1>1. Spec => []DInv
  BY DInvInit, DInvNext, Invariance, PTL DEF Spec
<1>2. DInv => DecisionsFollowAdoptions
  BY DEF DInv
<1> QED
  BY <1>1, <1>2, PTL
=============================================================================
