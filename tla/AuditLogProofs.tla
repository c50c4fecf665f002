---------------------------- MODULE AuditLogProofs ----------------------------
(***************************************************************************)
(* Proofs about module AuditLog, for every set of calls and replicas: the  *)
(* head that a transaction read is still current when it commits, the      *)
(* table is a chain that verifies and that no doctored copy passes for, an *)
(* action waits for its record, and the adapter implements AuditContract.  *)
(* The inductive invariant AuditInv says how the stages of a call and of   *)
(* its transaction go together, who holds the advisory lock, what the      *)
(* holder has read and staged, and that the rows, keyed 0, 1, ..., are     *)
(* linked and hold one record of every committed call.                     *)
(***************************************************************************)
EXTENDS AuditLog, FiniteSetTheorems, SequenceTheorems, TLAPS

Hashes  == Seq([seq : Nat, record : Records])
Entries == [seq : Nat, record : Records, prev : Hashes, hash : Hashes]
Heads   == [seq : Nat, prev : Hashes]

TypeOK ==
  /\ at \in [Calls -> InAppend \union Over \union {"new"}]
  /\ decision \in [Calls -> Decisions]
  /\ local \in [Replicas -> Calls \union {NoCall}]
  /\ tx \in [Calls -> {"none", "open", "sent", "done", "gone"}]
  /\ chainLock \in Calls \union {NoCall}
  /\ head \in [Calls -> Heads] /\ staged \in [Calls -> SUBSET Entries]

(* The stages of a call and of its transaction. *)
PhaseInv == \A c \in Calls :
  /\ at[c] \in {"new", "append", "begin"} => tx[c] = "none"
  /\ at[c] \in {"lock", "head", "insert", "commit"} => tx[c] \in {"open", "gone"}
  /\ at[c] = "answer" => tx[c] \in {"sent", "done", "gone"}
  /\ at[c] \in {"audited", "acted", "denied"} => tx[c] = "done"
  /\ at[c] = "acted" => decision[c] = "allow"

(* The call can still get a row in with the head it is to read, has read, or
   has sealed and staged. *)
InTurn(c) == (at[c] \in {"head", "insert", "commit"} /\ tx[c] = "open") \/ tx[c] = "sent"
HasHead(c) == (at[c] \in {"insert", "commit"} /\ tx[c] = "open") \/ tx[c] = "sent"
HasRow(c) == (at[c] = "commit" /\ tx[c] = "open") \/ tx[c] = "sent"

LockInv == \A c \in Calls : InTurn(c) => chainLock = c

(* The rows are keyed from 0 up, and each is sealed to the one before it. *)
Size == Cardinality(DOMAIN rows)
HashBefore(n) == IF n = 0 THEN GENESIS_PREV ELSE rows[n - 1].hash
Linked(n) ==
  /\ rows[n] \in Entries /\ rows[n].seq = n /\ rows[n].prev = HashBefore(n)
  /\ rows[n].hash = compute_hash(n, rows[n].record, rows[n].prev)
TableInv ==
  /\ Size \in Nat /\ DOMAIN rows = 0..(Size - 1)
  /\ \A n \in DOMAIN rows : Linked(n)

HeadInv == \A c \in Calls : HasHead(c) =>
  head[c].seq = Size /\ head[c].prev = HashBefore(Size)

RecordOf(c) == [call |-> c, decision |-> decision[c]]
StagedInv == \A c \in Calls : HasRow(c) =>
  staged[c] = {seal(head[c].seq, RecordOf(c), head[c].prev)}

(* The table holds one record of every call whose transaction was committed. *)
RecordInv ==
  /\ \A n \in DOMAIN rows : \E c \in Calls : tx[c] = "done" /\ rows[n].record = RecordOf(c)
  /\ \A m, n \in DOMAIN rows : rows[m].record.call = rows[n].record.call => m = n
  /\ \A c \in Calls : tx[c] = "done" => \E n \in DOMAIN rows : rows[n].record.call = c

AuditInv == TypeOK /\ PhaseInv /\ LockInv /\ TableInv /\ HeadInv /\ StagedInv /\ RecordInv

(* Nobody is a call. *)
LEMMA NobodyIsNoCall == NoCall \notin Calls
  BY CallsAssumption

(* What is sealed over a head is an entry. *)
LEMMA Sealed ==
  ASSUME NEW n \in Nat, NEW r \in Records, NEW p \in Hashes
  PROVE  /\ compute_hash(n, r, p) \in Hashes /\ seal(n, r, p) \in Entries
         /\ seal(n, r, p).seq = n /\ seal(n, r, p).record = r /\ seal(n, r, p).prev = p
         /\ seal(n, r, p).hash = compute_hash(n, r, p)
<1>1. [seq |-> n, record |-> r] \in [seq : Nat, record : Records]
  OBVIOUS
<1>2. compute_hash(n, r, p) \in Hashes
  BY <1>1 DEF compute_hash, Hashes
<1>3. QED  BY <1>2 DEF seal, Entries

(* The record of a call. *)
LEMMA RecordType ==
  ASSUME TypeOK, NEW c \in Calls
  PROVE  RecordOf(c) \in Records /\ RecordOf(c).call = c /\ RecordOf(c).decision = decision[c]
  BY DEF TypeOK, RecordOf, Records

(* The size of a table keyed from 0 up. *)
LEMMA SizeOf ==
  ASSUME NEW k \in Nat, DOMAIN rows = 0..(k - 1)
  PROVE  Size = k
<1>1. Cardinality(0..(k - 1)) = IF 0 > k - 1 THEN 0 ELSE k - 1 - 0 + 1
  BY FS_Interval
<1>2. QED  BY <1>1 DEF Size

(* The initial state satisfies the inductive invariant. *)
LEMMA InitInv ==
  ASSUME Init
  PROVE  AuditInv
<1>1. TypeOK
  <2>1. Next0 \in Heads
    BY DEF Next0, Heads, Hashes, GENESIS_PREV
  <2>2. QED  BY <2>1 DEF Init, TypeOK, InAppend, Over, Decisions
<1>2. PhaseInv /\ LockInv /\ HeadInv /\ StagedInv
  BY DEF Init, PhaseInv, LockInv, InTurn, HeadInv, HasHead, StagedInv, HasRow
<1>3. DOMAIN rows = {}
  BY DEF Init
<1>4. Size = 0
  BY <1>3, FS_EmptySet DEF Size
<1>5. TableInv
  BY <1>3, <1>4 DEF TableInv
<1>6. RecordInv
  BY <1>3 DEF Init, RecordInv
<1>7. QED  BY <1>1, <1>2, <1>5, <1>6 DEF AuditInv

(* The head of a table keyed from 0 up, as the adapter reads it. *)
LEMMA HeadRead ==
  ASSUME TypeOK, TableInv, NEW c \in Calls, ReadHead(c)
  PROVE  /\ head'[c] = [seq |-> Size, prev |-> HashBefore(Size)]
         /\ head'[c] \in Heads
<1>1. CASE Size = 0
  <2>1. DOMAIN rows = {}
    BY <1>1 DEF TableInv
  <2>2. head'[c] = Next0
    BY <2>1 DEF ReadHead, TypeOK
  <2>3. QED  BY <1>1, <2>2 DEF Next0, HashBefore, Heads, Hashes, GENESIS_PREV
<1>2. CASE Size # 0
  <2>1. DOMAIN rows # {} /\ Size - 1 \in DOMAIN rows
    BY <1>2 DEF TableInv
  <2>2. Max(DOMAIN rows) = Size - 1
    BY <1>2 DEF TableInv, Max
  <2>3. head'[c] = [seq |-> Size - 1 + 1, prev |-> rows[Size - 1].hash]
    BY <2>1, <2>2 DEF ReadHead, TypeOK
  <2>4. rows[Size - 1].hash \in Hashes
    BY <2>1 DEF TableInv, Linked, Entries
  <2>5. Size - 1 + 1 = Size /\ Size \in Nat
    BY DEF TableInv
  <2>6. QED  BY <1>2, <2>3, <2>4, <2>5 DEF HashBefore, Heads
<1>3. QED  BY <1>1, <1>2

(* Every action keeps the types. *)
LEMMA StepType ==
  ASSUME TypeOK, TableInv, [Next]_vars
  PROVE  TypeOK'
<1> USE NobodyIsNoCall, CallsAssumption DEF Goes, callVars, InAppend, Over
<1>1. ASSUME NEW c \in Calls, Authorize(c) PROVE TypeOK'
  BY <1>1 DEF Authorize, TypeOK
<1>2. ASSUME NEW c \in Calls, AuthorizeFails(c) \/ TakeLocal(c) \/ Begin(c) \/ LockChain(c)
      PROVE TypeOK'
  BY <1>2 DEF AuthorizeFails, TakeLocal, Begin, LockChain, TypeOK
<1>3. ASSUME NEW c \in Calls, ReadHead(c) PROVE TypeOK'
  <2>1. head' \in [Calls -> Heads]
    BY <1>3, HeadRead DEF ReadHead, TypeOK
  <2>2. QED  BY <1>3, <2>1 DEF ReadHead, TypeOK
<1>4. ASSUME NEW c \in Calls, Insert(c) PROVE TypeOK'
  <2>1. seal(head[c].seq, RecordOf(c), head[c].prev) \in Entries
    BY Sealed, RecordType DEF TypeOK, Heads
  <2>2. staged' \in [Calls -> SUBSET Entries]
    BY <1>4, <2>1 DEF Insert, TypeOK, RecordOf
  <2>3. QED  BY <1>4, <2>2 DEF Insert, TypeOK, Unlocked
<1>5. ASSUME NEW c \in Calls, Commit(c) \/ Act(c) \/ Deny(c) PROVE TypeOK'
  BY <1>5 DEF Commit, Act, Deny, TypeOK
<1>6. ASSUME NEW c \in Calls, ServerCommits(c) \/ ServerEnds(c) PROVE TypeOK'
  BY <1>6 DEF ServerCommits, ServerEnds, Ended, TypeOK
<1>7. ASSUME NEW c \in Calls, Answered(c) \/ AppendFails(c) PROVE TypeOK'
  BY <1>7 DEF Answered, AppendFails, Unlocked, TypeOK
<1>8. CASE UNCHANGED vars
  BY <1>8 DEF vars, TypeOK
<1>9. QED
  BY <1>1, <1>2, <1>3, <1>4, <1>5, <1>6, <1>7, <1>8 DEF Next, Proceed, Server

(* Every action keeps the stages together. *)
LEMMA StepPhase ==
  ASSUME TypeOK, PhaseInv, [Next]_vars
  PROVE  PhaseInv'
<1> USE DEF Goes, callVars, TypeOK, PhaseInv
<1>1. ASSUME NEW c \in Calls, Authorize(c) PROVE PhaseInv'
  BY <1>1 DEF Authorize
<1>2. ASSUME NEW c \in Calls, AuthorizeFails(c) \/ TakeLocal(c) \/ Begin(c) \/ LockChain(c)
      PROVE PhaseInv'
  BY <1>2 DEF AuthorizeFails, TakeLocal, Begin, LockChain
<1>3. ASSUME NEW c \in Calls, ReadHead(c) \/ Insert(c) \/ Commit(c)
      PROVE PhaseInv'
  BY <1>3 DEF ReadHead, Insert, Commit
<1>4. ASSUME NEW c \in Calls, ServerCommits(c) \/ ServerEnds(c) PROVE PhaseInv'
  BY <1>4 DEF ServerCommits, ServerEnds, Ended
<1>5. ASSUME NEW c \in Calls, Answered(c) \/ AppendFails(c) \/ Act(c) \/ Deny(c)
      PROVE PhaseInv'
  BY <1>5 DEF Answered, AppendFails, Act, Deny
<1>6. CASE UNCHANGED vars
  BY <1>6 DEF vars
<1>7. QED
  BY <1>1, <1>2, <1>3, <1>4, <1>5, <1>6 DEF Next, Proceed, Server

(* The advisory lock is held from the read of the head to the end of the
   transaction, by one call. *)
LEMMA StepLock ==
  ASSUME TypeOK, PhaseInv, LockInv, [Next]_vars
  PROVE  LockInv'
<1> USE NobodyIsNoCall DEF Goes, callVars, TypeOK, PhaseInv, LockInv, InTurn
<1>1. ASSUME NEW c \in Calls, Authorize(c) \/ AuthorizeFails(c) \/ TakeLocal(c) \/ Begin(c)
      PROVE LockInv'
  BY <1>1 DEF Authorize, AuthorizeFails, TakeLocal, Begin
<1>2. ASSUME NEW c \in Calls, LockChain(c) PROVE LockInv'
  BY <1>2 DEF LockChain
<1>3. ASSUME NEW c \in Calls, ReadHead(c) \/ Insert(c) \/ Commit(c)
      PROVE LockInv'
  BY <1>3 DEF ReadHead, Insert, Commit
<1>4. ASSUME NEW c \in Calls, ServerCommits(c) \/ ServerEnds(c) PROVE LockInv'
  BY <1>4 DEF ServerCommits, ServerEnds, Ended
<1>5. ASSUME NEW c \in Calls, Answered(c) \/ AppendFails(c) \/ Act(c) \/ Deny(c)
      PROVE LockInv'
  BY <1>5 DEF Answered, AppendFails, Act, Deny
<1>6. CASE UNCHANGED vars
  BY <1>6 DEF vars
<1>7. QED
  BY <1>1, <1>2, <1>3, <1>4, <1>5, <1>6 DEF Next, Proceed, Server

(* The row that is committed: sealed to the current head, it becomes the next. *)
NewRow(c) == seal(Size, RecordOf(c), HashBefore(Size))
LEMMA Committed ==
  ASSUME AuditInv, NEW c \in Calls, ServerCommits(c)
  PROVE  /\ rows' = [n \in 0..Size |-> IF n = Size THEN NewRow(c) ELSE rows[n]]
         /\ Size' = Size + 1 /\ HashBefore(Size) \in Hashes
<1>1. HasRow(c) /\ HasHead(c)
  BY DEF ServerCommits, HasRow, HasHead
<1>2. staged[c] = {NewRow(c)}
  BY <1>1 DEF AuditInv, StagedInv, HeadInv, NewRow
<1>3. HashBefore(Size) \in Hashes /\ Size \in Nat
  BY <1>1 DEF AuditInv, HeadInv, TableInv, TypeOK, Heads
<1>4. NewRow(c).seq = Size
  BY <1>3, Sealed, RecordType DEF NewRow, AuditInv
<1>5. DOMAIN rows = 0..(Size - 1)
  BY DEF AuditInv, TableInv
<1>6. rows' = [n \in DOMAIN rows \union {Size} |->
                 IF n \in DOMAIN rows THEN rows[n] ELSE CHOOSE e \in staged[c] : e.seq = n]
  BY <1>2, <1>4 DEF ServerCommits
<1>7. DOMAIN rows \union {Size} = 0..Size
  BY <1>3, <1>5
<1>8. rows' = [n \in 0..Size |-> IF n = Size THEN NewRow(c) ELSE rows[n]]
  <2> DEFINE pick(n) == CHOOSE e \in staged[c] : e.seq = n
  <2>1. \A n \in 0..Size : n \in DOMAIN rows <=> n # Size
    BY <1>3, <1>5
  <2>2. pick(Size) = NewRow(c)
    BY <1>2, <1>4
  <2>3. rows' = [n \in 0..Size |-> IF n \in DOMAIN rows THEN rows[n] ELSE pick(n)]
    BY <1>6, <1>7
  <2> HIDE DEF pick
  <2>4. QED  BY <2>1, <2>2, <2>3
<1>9. Cardinality(0..Size) = IF 0 > Size THEN 0 ELSE Size - 0 + 1
  BY <1>3, FS_Interval
<1>10. Size' = Size + 1
  BY <1>3, <1>8, <1>9 DEF Size
<1>11. QED  BY <1>3, <1>8, <1>10

(* Only a commit changes the table. *)
LEMMA OnlyCommitsWrite ==
  ASSUME [Next]_vars
  PROVE  (\E c \in Calls : ServerCommits(c)) \/ rows' = rows
  BY DEF Next, Proceed, Server, Authorize, AuthorizeFails, TakeLocal, Begin, LockChain,
     ReadHead, Insert, Commit, ServerEnds, Answered, AppendFails, Act, Deny, vars

(* A commit makes the chain one longer, and leaves the rest of it alone. *)
LEMMA StepTable ==
  ASSUME AuditInv, [Next]_vars
  PROVE  TableInv'
<1>1. ASSUME NEW c \in Calls, ServerCommits(c) PROVE TableInv'
  <2>1. /\ rows' = [n \in 0..Size |-> IF n = Size THEN NewRow(c) ELSE rows[n]]
        /\ Size' = Size + 1 /\ HashBefore(Size) \in Hashes
    BY <1>1, Committed
  <2>2. Size \in Nat /\ DOMAIN rows = 0..(Size - 1)
    BY DEF AuditInv, TableInv
  <2>3. \A n \in 0..Size : HashBefore(n)' = HashBefore(n)
    BY <2>1, <2>2 DEF HashBefore
  <2>4. ASSUME NEW n \in 0..(Size - 1) PROVE Linked(n)'
    <3>1. rows'[n] = rows[n] /\ HashBefore(n)' = HashBefore(n)
      BY <2>1, <2>2, <2>3
    <3>2. Linked(n)
      BY <2>2 DEF AuditInv, TableInv
    <3>3. QED  BY <3>1, <3>2 DEF Linked
  <2>5. ASSUME NEW n, n = Size PROVE Linked(n)'
    <3>1. rows'[n] = NewRow(c) /\ HashBefore(n)' = HashBefore(n)
      BY <2>1, <2>2, <2>3, <2>5
    <3>2. RecordOf(c) \in Records
      BY RecordType DEF AuditInv
    <3>3. /\ NewRow(c) \in Entries /\ NewRow(c).seq = n
          /\ NewRow(c).record = RecordOf(c) /\ NewRow(c).prev = HashBefore(n)
          /\ NewRow(c).hash = compute_hash(n, RecordOf(c), HashBefore(n))
      BY <2>1, <2>2, <2>5, <3>2, Sealed DEF NewRow
    <3>4. QED  BY <3>1, <3>3 DEF Linked
  <2>6. DOMAIN rows' = 0..Size /\ \A n \in 0..Size : n \in 0..(Size - 1) \/ n = Size
    BY <2>1, <2>2
  <2>7. QED  BY <2>1, <2>2, <2>4, <2>5, <2>6 DEF TableInv
<1>2. CASE rows' = rows
  BY <1>2 DEF AuditInv, TableInv, Linked, HashBefore, Size
<1>3. QED  BY <1>1, <1>2, OnlyCommitsWrite

(* A head, once read, stays current: no other call can commit before the lock is
   given up. *)
LEMMA StepHead ==
  ASSUME AuditInv, [Next]_vars
  PROVE  HeadInv'
<1> USE DEF AuditInv, TypeOK, Goes, callVars
<1>1. ASSUME NEW c \in Calls, ReadHead(c) PROVE HeadInv'
  <2>1. head'[c].seq = Size /\ head'[c].prev = HashBefore(Size)
    BY <1>1, HeadRead
  <2>2. rows' = rows /\ \A d \in Calls : d # c => head'[d] = head[d] /\ HasHead(d)' = HasHead(d)
    BY <1>1 DEF ReadHead, HasHead
  <2>3. Size' = Size /\ HashBefore(Size)' = HashBefore(Size)
    BY <2>2 DEF Size, HashBefore
  <2>4. QED  BY <2>1, <2>2, <2>3 DEF HeadInv
<1>2. ASSUME NEW c \in Calls, ServerCommits(c) PROVE HeadInv'
  <2>1. \A d \in Calls : HasHead(d)' => d # c /\ HasHead(d)
    BY <1>2 DEF ServerCommits, Ended, HasHead
  <2>2. \A d \in Calls : HasHead(d) => chainLock = d
    BY DEF LockInv, InTurn, HasHead
  <2>3. HasHead(c)
    BY <1>2 DEF ServerCommits, HasHead
  <2>4. QED  BY <2>1, <2>2, <2>3 DEF HeadInv
<1>3. ASSUME rows' = rows, head' = head, \A d \in Calls : HasHead(d)' => HasHead(d)
      PROVE HeadInv'
  BY <1>3 DEF HeadInv, HashBefore, Size
<1>4. ASSUME NEW c \in Calls, Authorize(c) \/ AuthorizeFails(c) \/ TakeLocal(c) \/ Begin(c)
      PROVE HeadInv'
  BY <1>3, <1>4 DEF Authorize, AuthorizeFails, TakeLocal, Begin, HasHead, PhaseInv
<1>5. ASSUME NEW c \in Calls, LockChain(c) \/ Insert(c) \/ Commit(c) PROVE HeadInv'
  BY <1>3, <1>5 DEF LockChain, Insert, Commit, HasHead
<1>6. ASSUME NEW c \in Calls, ServerEnds(c) PROVE HeadInv'
  BY <1>3, <1>6 DEF ServerEnds, Ended, HasHead
<1>7. ASSUME NEW c \in Calls, Answered(c) \/ AppendFails(c) \/ Act(c) \/ Deny(c)
      PROVE HeadInv'
  BY <1>3, <1>7 DEF Answered, AppendFails, Act, Deny, HasHead
<1>8. CASE UNCHANGED vars
  BY <1>3, <1>8 DEF vars, HasHead
<1>9. QED
  BY <1>1, <1>2, <1>4, <1>5, <1>6, <1>7, <1>8 DEF Next, Proceed, Server

(* What is staged is sealed over the head that was read, for the decision made. *)
LEMMA StepStaged ==
  ASSUME AuditInv, [Next]_vars
  PROVE  StagedInv'
<1> USE DEF AuditInv, TypeOK, Goes, callVars
<1>1. ASSUME NEW c \in Calls, Insert(c) PROVE StagedInv'
  <2>1. \A d \in Calls : RecordOf(d)' = RecordOf(d)
    BY <1>1 DEF Insert, RecordOf
  <2>2. \A d \in Calls : d # c => staged'[d] = staged[d] /\ HasRow(d)' = HasRow(d)
    BY <1>1 DEF Insert, HasRow
  <2>3. HasRow(c)' => staged'[c] = {seal(head[c].seq, RecordOf(c), head[c].prev)}
    BY <1>1 DEF Insert, HasRow, RecordOf
  <2>4. head' = head
    BY <1>1 DEF Insert
  <2>5. QED  BY <2>1, <2>2, <2>3, <2>4 DEF StagedInv
<1>2. ASSUME \A d \in Calls : HasRow(d)' =>
               /\ HasRow(d) /\ head'[d] = head[d] /\ staged'[d] = staged[d]
               /\ decision'[d] = decision[d]
      PROVE StagedInv'
  BY <1>2 DEF StagedInv, RecordOf
<1>3. ASSUME NEW c \in Calls, Authorize(c) \/ AuthorizeFails(c) \/ TakeLocal(c) \/ Begin(c)
      PROVE StagedInv'
  BY <1>2, <1>3 DEF Authorize, AuthorizeFails, TakeLocal, Begin, HasRow, PhaseInv
<1>4. ASSUME NEW c \in Calls, LockChain(c) \/ ReadHead(c) \/ Commit(c) PROVE StagedInv'
  BY <1>2, <1>4 DEF LockChain, ReadHead, Commit, HasRow, PhaseInv
<1>5. ASSUME NEW c \in Calls, ServerCommits(c) \/ ServerEnds(c) PROVE StagedInv'
  BY <1>2, <1>5 DEF ServerCommits, ServerEnds, Ended, HasRow
<1>6. ASSUME NEW c \in Calls, Answered(c) \/ AppendFails(c) \/ Act(c) \/ Deny(c)
      PROVE StagedInv'
  BY <1>2, <1>6 DEF Answered, AppendFails, Act, Deny, HasRow
<1>7. CASE UNCHANGED vars
  BY <1>2, <1>7 DEF vars, HasRow
<1>8. QED
  BY <1>1, <1>3, <1>4, <1>5, <1>6, <1>7 DEF Next, Proceed, Server

(* A commit records one call, which had no record. *)
LEMMA StepRecord ==
  ASSUME AuditInv, [Next]_vars
  PROVE  RecordInv'
<1> USE DEF AuditInv, TypeOK, Goes, callVars
<1>1. ASSUME NEW c \in Calls, ServerCommits(c) PROVE RecordInv'
  <2>1. /\ rows' = [n \in 0..Size |-> IF n = Size THEN NewRow(c) ELSE rows[n]]
        /\ HashBefore(Size) \in Hashes
    BY <1>1, Committed
  <2>2. Size \in Nat /\ DOMAIN rows = 0..(Size - 1)
    BY DEF TableInv
  <2>3. NewRow(c).record = RecordOf(c) /\ RecordOf(c).call = c
    BY <2>1, <2>2, Sealed, RecordType DEF NewRow
  <2>4. tx' = [tx EXCEPT ![c] = "done"] /\ tx[c] = "sent"
    BY <1>1 DEF ServerCommits, Ended
  <2>5. \A d \in Calls : RecordOf(d)' = RecordOf(d) /\ RecordOf(d).call = d
    BY <1>1, RecordType DEF ServerCommits, RecordOf
  <2>6. \A n \in DOMAIN rows : rows'[n] = rows[n] /\ rows[n].record.call # c
    BY <2>1, <2>2, <2>4, <2>5 DEF RecordInv
  <2>7. DOMAIN rows' = DOMAIN rows \union {Size} /\ rows'[Size] = NewRow(c)
    BY <2>1, <2>2
  <2>8. \A n \in DOMAIN rows' : \E d \in Calls : tx'[d] = "done" /\ rows'[n].record = RecordOf(d)'
    BY <2>3, <2>4, <2>5, <2>6, <2>7 DEF RecordInv
  <2>9. \A m, n \in DOMAIN rows' : rows'[m].record.call = rows'[n].record.call => m = n
    BY <2>3, <2>6, <2>7 DEF RecordInv
  <2>10. \A d \in Calls : tx'[d] = "done" => \E n \in DOMAIN rows' : rows'[n].record.call = d
    BY <2>3, <2>4, <2>6, <2>7 DEF RecordInv
  <2>11. QED  BY <2>8, <2>9, <2>10 DEF RecordInv
<1>2. ASSUME rows' = rows,
             \A d \in Calls : (tx'[d] = "done" <=> tx[d] = "done")
                                /\ (tx[d] = "done" => decision'[d] = decision[d])
      PROVE RecordInv'
  <2>1. \A d \in Calls : tx[d] = "done" => RecordOf(d)' = RecordOf(d)
    BY <1>2 DEF RecordOf
  <2>2. \A n \in DOMAIN rows : \E d \in Calls : tx'[d] = "done" /\ rows'[n].record = RecordOf(d)'
    BY <1>2, <2>1 DEF RecordInv
  <2>3. QED  BY <1>2, <2>2 DEF RecordInv
<1>3. ASSUME NEW c \in Calls, Authorize(c) \/ AuthorizeFails(c) \/ TakeLocal(c) \/ Begin(c)
      PROVE RecordInv'
  BY <1>2, <1>3 DEF Authorize, AuthorizeFails, TakeLocal, Begin, PhaseInv
<1>4. ASSUME NEW c \in Calls, LockChain(c) \/ ReadHead(c) \/ Insert(c) \/ Commit(c)
      PROVE RecordInv'
  BY <1>2, <1>4 DEF LockChain, ReadHead, Insert, Commit
<1>5. ASSUME NEW c \in Calls, ServerEnds(c) PROVE RecordInv'
  BY <1>2, <1>5 DEF ServerEnds, Ended
<1>6. ASSUME NEW c \in Calls, Answered(c) \/ AppendFails(c) \/ Act(c) \/ Deny(c)
      PROVE RecordInv'
  BY <1>2, <1>6 DEF Answered, AppendFails, Act, Deny
<1>7. CASE UNCHANGED vars
  BY <1>2, <1>7 DEF vars
<1>8. QED
  BY <1>1, <1>3, <1>4, <1>5, <1>6, <1>7 DEF Next, Proceed, Server

(* AuditInv is inductive: it holds in every reachable state. *)
LEMMA Inductive == Spec => []AuditInv
<1>1. AuditInv /\ [Next]_vars => AuditInv'
  <2> SUFFICES ASSUME AuditInv, [Next]_vars PROVE AuditInv'
    OBVIOUS
  <2>1. TypeOK' /\ PhaseInv' /\ LockInv'
    BY StepType, StepPhase, StepLock DEF AuditInv
  <2>2. TableInv' /\ HeadInv' /\ StagedInv' /\ RecordInv'
    BY StepTable, StepHead, StepStaged, StepRecord
  <2>3. QED  BY <2>1, <2>2 DEF AuditInv
<1>2. QED  BY InitInv, <1>1, PTL DEF Spec

(* What is exported: the rows in the order of their keys. *)
LEMMA Exported ==
  ASSUME TableInv
  PROVE  /\ export = [i \in 1..Size |-> rows[i - 1]]
         /\ export \in Seq(Entries) /\ Len(export) = Size
<1>1. Size \in Nat /\ DOMAIN rows = 0..(Size - 1)
  BY DEF TableInv
<1> DEFINE before(n) == Cardinality({m \in DOMAIN rows : m < n})
<1>2. \A n \in DOMAIN rows : before(n) = n
  <2> SUFFICES ASSUME NEW n \in DOMAIN rows PROVE before(n) = n
    OBVIOUS
  <2>1. {m \in DOMAIN rows : m < n} = 0..(n - 1) /\ n \in Nat
    BY <1>1
  <2>2. Cardinality(0..(n - 1)) = IF 0 > n - 1 THEN 0 ELSE n - 1 - 0 + 1
    BY <2>1, FS_Interval, SMTT(40)
  <2>3. Cardinality(0..(n - 1)) = n
    BY <2>1, <2>2
  <2>4. QED  BY <2>1, <2>3
<1>3. export = [i \in 1..Size |-> rows[CHOOSE n \in DOMAIN rows : before(n) = i - 1]]
  BY DEF export, Size
<1> HIDE DEF before
<1>4. \A i \in 1..Size : (CHOOSE n \in DOMAIN rows : before(n) = i - 1) = i - 1
  <2> SUFFICES ASSUME NEW i \in 1..Size
               PROVE  (CHOOSE n \in DOMAIN rows : before(n) = i - 1) = i - 1
    OBVIOUS
  <2>1. i - 1 \in DOMAIN rows
    BY <1>1
  <2>2. QED  BY <1>2, <2>1
<1>5. export = [i \in 1..Size |-> rows[i - 1]]
  BY <1>3, <1>4, SMTT(40)
<1>6. \A i \in 1..Size : rows[i - 1] \in Entries
  BY <1>1 DEF TableInv, Linked
<1>7. export \in [1..Size -> Entries]
  BY <1>5, <1>6
<1> HIDE DEF Size
<1>8. export \in Seq(Entries) /\ Len(export) = Size
  BY <1>1, <1>7
<1>9. QED  BY <1>5, <1>8

(* audit_log.rs append: "the read-head -> seal -> insert is atomic system-wide",
   whatever becomes of the calls, replicas and connections. *)
THEOREM HeadStaysCurrent == Spec => []HeadIsCurrent
<1>1. AuditInv => HeadIsCurrent
  <2> SUFFICES ASSUME AuditInv, NEW c \in Calls, HasHead(c)
               PROVE  /\ head[c].seq = Cardinality(DOMAIN rows)
                      /\ head[c].prev = IF DOMAIN rows = {} THEN GENESIS_PREV
                                        ELSE Last(export).hash
    BY DEF HeadIsCurrent, HasHead
  <2>1. head[c].seq = Size /\ head[c].prev = HashBefore(Size)
    BY DEF AuditInv, HeadInv
  <2>2. Size \in Nat /\ DOMAIN rows = 0..(Size - 1)
    BY DEF AuditInv, TableInv
  <2>3. CASE Size = 0
    BY <2>1, <2>2, <2>3 DEF Size, HashBefore
  <2>4. CASE Size # 0
    <3>1. Last(export) = rows[Size - 1]
      BY <2>2, <2>4, Exported DEF Last, AuditInv
    <3>2. DOMAIN rows # {}
      BY <2>2, <2>4
    <3>3. QED  BY <2>1, <2>4, <3>1, <3>2 DEF Size, HashBefore
  <2>5. QED  BY <2>3, <2>4
<1>2. QED  BY Inductive, <1>1, PTL

(* service.rs authorize_and_audit: an action goes ahead, or is denied, only after
   the log holds that decision of that call, once. *)
THEOREM AuditBeforeAction == Spec => []AuditedFirst
<1>1. AuditInv => AuditedFirst
  <2> SUFFICES ASSUME AuditInv, NEW c \in Calls, at[c] \in {"acted", "denied"}
               PROVE  \E n \in DOMAIN rows : /\ RowOf(c) = {n}
                                             /\ rows[n].record.decision = decision[c]
                                             /\ at[c] = "acted" => decision[c] = "allow"
    BY DEF AuditedFirst
  <2>1. tx[c] = "done"
    BY DEF AuditInv, PhaseInv
  <2>2. PICK n \in DOMAIN rows : rows[n].record.call = c
    BY <2>1 DEF AuditInv, RecordInv
  <2>3. RowOf(c) = {n}
    BY <2>2 DEF RowOf, AuditInv, RecordInv
  <2>4. rows[n].record = RecordOf(c)
    BY <2>2, RecordType DEF AuditInv, RecordInv
  <2>5. rows[n].record.decision = decision[c]
    BY <2>4, RecordType DEF AuditInv
  <2>6. QED  BY <2>3, <2>5 DEF AuditInv, PhaseInv
<1>2. QED  BY Inductive, <1>1, PTL

(* The log of the contract: the records in the order of their keys. *)
LogInOrder ==
  /\ Log = [i \in 1..Size |-> rows[i - 1].record]
  /\ Log \in Seq(Records) /\ Len(Log) = Size
LEMMA LogIs == TableInv => LogInOrder
<1> SUFFICES ASSUME TableInv PROVE LogInOrder
  OBVIOUS
<1>1. export = [i \in 1..Size |-> rows[i - 1]] /\ Size \in Nat
  BY Exported DEF TableInv
<1>2. Log = [i \in 1..Size |-> rows[i - 1].record]
  BY <1>1 DEF Log
<1>3. \A i \in 1..Size : rows[i - 1].record \in Records
  BY <1>1 DEF TableInv, Linked, Entries
<1>4. Log \in [1..Size -> Records]
  BY <1>2, <1>3
<1>5. QED  BY <1>1, <1>2, <1>4 DEF LogInOrder

(* Every step of the log is a step of AuditContract or a stutter of it. *)
LEMMA ContractStep ==
  ASSUME AuditInv, AuditInv', [Next]_vars
  PROVE  [Contract!Next]_Log
<1>1. ASSUME NEW c \in Calls, ServerCommits(c) PROVE Contract!Next
  <2>1. /\ rows' = [n \in 0..Size |-> IF n = Size THEN NewRow(c) ELSE rows[n]]
        /\ Size' = Size + 1 /\ HashBefore(Size) \in Hashes
    BY <1>1, Committed
  <2>2. Size \in Nat /\ DOMAIN rows = 0..(Size - 1)
    BY DEF AuditInv, TableInv
  <2>3. /\ NewRow(c).record = RecordOf(c)
        /\ RecordOf(c) \in Records /\ RecordOf(c).call = c
    BY <2>1, <2>2, Sealed, RecordType DEF NewRow, AuditInv
  <2>4. /\ Log = [i \in 1..Size |-> rows[i - 1].record]
        /\ Log \in Seq(Records) /\ Len(Log) = Size
    BY LogIs DEF AuditInv, LogInOrder
  <2>5. /\ Log' = [i \in 1..Size' |-> rows'[i - 1].record]
        /\ Log' \in Seq(Records) /\ Len(Log') = Size'
    <3>1. TableInv'
      BY DEF AuditInv
    <3>2. LogInOrder'
      BY <3>1, LogIs, PTL
    <3>3. QED  BY <3>2 DEF LogInOrder
  <2>6. Log' = Append(Log, RecordOf(c))
    <3>1. \A i \in 1..(Size + 1) :
            Log'[i] = IF i = Size + 1 THEN RecordOf(c) ELSE Log[i]
      BY <2>1, <2>2, <2>3, <2>4, <2>5
    <3>2. QED  BY <2>1, <2>2, <2>3, <2>4, <2>5, <3>1
  <2>7. \A i \in DOMAIN Log : Log[i].call # RecordOf(c).call
    <3>1. tx[c] = "sent"
      BY <1>1 DEF ServerCommits
    <3>2. \A n \in DOMAIN rows : rows[n].record.call # c
      BY <3>1, RecordType DEF AuditInv, RecordInv
    <3>3. QED  BY <2>2, <2>3, <2>4, <3>2
  <2>8. Contract!Add(RecordOf(c)) /\ RecordOf(c) \in Contract!Records
    BY <2>3, <2>6, <2>7 DEF Contract!Add, Contract!Records, Records
  <2>9. QED  BY <2>8 DEF Contract!Next
<1>2. CASE rows' = rows
  BY <1>2 DEF Log, export
<1>3. QED  BY <1>1, <1>2, OnlyCommitsWrite

(* The adapter implements the port: the log only grows, at its end, by one
   record at a time, and no call is recorded twice. *)
THEOREM LogKeepsContract == Spec => AppendOnly
<1>1. Init => Contract!Init
  <2> SUFFICES ASSUME Init PROVE Contract!Init
    OBVIOUS
  <2>1. TableInv /\ DOMAIN rows = {}
    BY InitInv DEF AuditInv, Init
  <2>2. Size = 0
    BY <2>1, FS_EmptySet DEF Size
  <2>3. Log = <<>>
    BY <2>1, <2>2, LogIs DEF LogInOrder
  <2>4. QED  BY <2>3 DEF Contract!Init
<1>2. AuditInv /\ AuditInv' /\ [Next]_vars => [Contract!Next]_Log
  BY ContractStep
<1>3. QED
  BY <1>1, <1>2, Inductive, PTL DEF Spec, AppendOnly, Contract!Spec

(* An entry in order: numbered, linked to the one before it, its hash its own. *)
InOrder(es, i) ==
  /\ es[i].seq = i - 1
  /\ es[i].prev = IF i = 1 THEN GENESIS_PREV ELSE es[i - 1].hash
  /\ es[i].hash = compute_hash(es[i].seq, es[i].record, es[i].prev)

(* The faults verify looks for, entry by entry. *)
Fault(es, i) ==
  IF es[i].seq # i - 1 THEN "OutOfOrder"
  ELSE IF es[i].prev # (IF i = 1 THEN GENESIS_PREV ELSE es[i - 1].hash) THEN "BrokenLink"
  ELSE IF compute_hash(es[i].seq, es[i].record, es[i].prev) # es[i].hash THEN "Altered"
  ELSE "none"
Faulty(es) == {i \in DOMAIN es : Fault(es, i) # "none"}
LEMMA VerifyIs ==
  ASSUME NEW es, NEW anchored \in BOOLEAN, NEW h
  PROVE  verify(es, anchored, h) =
           IF Faulty(es) # {} THEN Fault(es, Min(Faulty(es)))
           ELSE IF ~anchored THEN "ok"
           ELSE IF es = <<>> THEN "Truncated"
           ELSE IF Last(es).hash = h THEN "ok" ELSE "UnexpectedHead"
  BY DEF verify, Faulty, Fault

(* What verify accepts: without a head, any chain in order... *)
LEMMA VerifyAccepts ==
  ASSUME NEW es, NEW h, \A i \in DOMAIN es : InOrder(es, i)
  PROVE  verify(es, FALSE, h) = "ok"
<1>1. Faulty(es) = {}
  BY DEF Faulty, Fault, InOrder
<1>2. QED  BY <1>1, VerifyIs

(* ...and against a head, nothing but a chain in order that ends in it. *)
Passes(es, h) ==
  (\A i \in DOMAIN es : InOrder(es, i)) /\ es # <<>> /\ Last(es).hash = h
LEMMA VerifyRequires ==
  ASSUME NEW es, NEW h, verify(es, TRUE, h) = "ok"
  PROVE  Passes(es, h)
<1>1. \A i : Fault(es, i) # "ok"
  BY DEF Fault
<1>2. Faulty(es) = {} /\ es # <<>> /\ Last(es).hash = h
  BY <1>1, VerifyIs
<1>3. QED  BY <1>2 DEF Faulty, Fault, InOrder, Passes

(* A hash determines what went into it, and is never the one it extends. *)
LEMMA HashInjective ==
  ASSUME NEW n \in Nat, NEW r \in Records, NEW p \in Hashes,
         NEW m \in Nat, NEW s \in Records, NEW q \in Hashes,
         compute_hash(n, r, p) = compute_hash(m, s, q)
  PROVE  n = m /\ r = s /\ p = q
<1> DEFINE x == [seq |-> n, record |-> r]
           y == [seq |-> m, record |-> s]
<1>1. x \in [seq : Nat, record : Records] /\ y \in [seq : Nat, record : Records]
  OBVIOUS
<1>2. Append(p, x) = Append(q, y)
  BY DEF compute_hash
<1>3. x.seq = n /\ x.record = r /\ y.seq = m /\ y.record = s
  OBVIOUS
<1> HIDE DEF x, y
<1>4. p = q /\ x = y
  BY <1>1, <1>2, AppendInjective, SMTT(40) DEF Hashes
<1>5. QED  BY <1>3, <1>4

(* ...so a chain's hashes never repeat one after the other. *)
LEMMA HashGrows ==
  ASSUME NEW n \in Nat, NEW r \in Records, NEW p \in Hashes
  PROVE  compute_hash(n, r, p) # p
<1> DEFINE x == [seq |-> n, record |-> r]
<1>1. x \in [seq : Nat, record : Records]
  OBVIOUS
<1>2. compute_hash(n, r, p) = Append(p, x)
  BY DEF compute_hash
<1> HIDE DEF x
<1>3. Len(Append(p, x)) = Len(p) + 1 /\ Len(p) \in Nat
  BY <1>1 DEF Hashes
<1>4. QED  BY <1>2, <1>3

(* An entry is what sealing its parts gives. *)
LEMMA EntryIsSealed ==
  ASSUME NEW e \in Entries, e.hash = compute_hash(e.seq, e.record, e.prev)
  PROVE  e = seal(e.seq, e.record, e.prev)
  BY DEF seal, Entries

(* An entry with another link. *)
LEMMA Relinked ==
  ASSUME NEW x \in Entries, NEW h \in Hashes
  PROVE  LET y == [x EXCEPT !.prev = h] IN
           /\ y \in Entries /\ y.prev = h
           /\ y.seq = x.seq /\ y.record = x.record /\ y.hash = x.hash
  BY DEF Entries

(* A chain: entries in order. *)
Chain(es) == es \in Seq(Entries) /\ \A i \in 1..Len(es) : InOrder(es, i)

(* Its parts. *)
LEMMA ChainParts ==
  ASSUME NEW es, Chain(es), NEW i \in 1..Len(es)
  PROVE  /\ es[i] \in Entries /\ es[i].seq = i - 1 /\ i - 1 \in Nat
         /\ es[i].record \in Records /\ es[i].prev \in Hashes /\ es[i].hash \in Hashes
         /\ es[i].hash = compute_hash(i - 1, es[i].record, es[i].prev)
         /\ es[i] = seal(i - 1, es[i].record, es[i].prev)
<1>1. es[i] \in Entries /\ i - 1 \in Nat
  BY DEF Chain
<1>2. InOrder(es, i)
  BY DEF Chain
<1>3. QED  BY <1>1, <1>2, EntryIsSealed DEF InOrder, Entries

(* Rewriting a record changes the hash of its entry. *)
LEMMA NewHash ==
  ASSUME NEW es, Chain(es), NEW i \in 1..Len(es), NEW r \in Records, r # es[i].record
  PROVE  compute_hash(i - 1, r, es[i].prev) # es[i].hash
  BY ChainParts, HashInjective

(* A record rewritten in place does not pass. *)
InPlace(es, i, r) == [es EXCEPT ![i].record = r]
LEMMA CatchesRewrite ==
  ASSUME NEW es, Chain(es), NEW i \in 1..Len(es), NEW r \in Records, NEW h,
         NEW d, d = InPlace(es, i, r), d # es, Passes(d, h)
  PROVE  FALSE
<1> USE DEF InPlace
<1>1. es[i] \in Entries /\ es \in Seq(Entries) /\ es[i].seq = i - 1
  BY ChainParts DEF Chain
<1>2. DOMAIN d = 1..Len(es) /\ d[i] = [es[i] EXCEPT !.record = r]
  BY <1>1
<1>3. r # es[i].record
  <2> SUFFICES ASSUME r = es[i].record PROVE FALSE
    OBVIOUS
  <2>1. [es[i] EXCEPT !.record = r] = es[i]
    BY <1>1 DEF Entries
  <2>2. d = [es EXCEPT ![i] = es[i]]
    BY <2>1
  <2>3. QED  BY <1>1, <2>2
<1>4. d[i].record = r /\ d[i].seq = es[i].seq /\ d[i].prev = es[i].prev /\ d[i].hash = es[i].hash
  BY <1>1, <1>2 DEF Entries
<1>5. InOrder(d, i)
  BY <1>2 DEF Passes
<1>6. QED  BY <1>1, <1>3, <1>4, <1>5, NewHash DEF InOrder

(* A record rewritten and its entry sealed again breaks the link, or the head. *)
Resealed(es, i, r) == [es EXCEPT ![i] = seal(i - 1, r, es[i].prev)]
LEMMA CatchesReseal ==
  ASSUME NEW es, Chain(es), NEW i \in 1..Len(es), NEW r \in Records,
         NEW d, d = Resealed(es, i, r), d # es, Passes(d, Last(es).hash)
  PROVE  FALSE
<1> USE DEF Resealed
<1> DEFINE e == seal(i - 1, r, es[i].prev)
<1>1. /\ es \in Seq(Entries) /\ i - 1 \in Nat /\ es[i].prev \in Hashes
      /\ es[i] = seal(i - 1, es[i].record, es[i].prev)
  BY ChainParts DEF Chain
<1>2. e \in Entries /\ e.hash = compute_hash(i - 1, r, es[i].prev)
  BY <1>1, Sealed
<1>3. d = [es EXCEPT ![i] = e]
  OBVIOUS
<1>4. r # es[i].record
  <2> SUFFICES ASSUME r = es[i].record PROVE FALSE
    OBVIOUS
  <2>1. d = [es EXCEPT ![i] = es[i]]
    BY <1>1
  <2>2. QED  BY <1>1, <2>1
<1> HIDE DEF e
<1>5. e.hash # es[i].hash
  BY <1>2, <1>4, NewHash
<1>6. d \in Seq(Entries) /\ Len(d) = Len(es) /\ DOMAIN d = 1..Len(es)
  BY <1>1, <1>2, <1>3, ExceptSeq
<1>7. d[i] = e /\ \A j \in 1..Len(es) : j # i => d[j] = es[j]
  BY <1>1, <1>3, SMTT(40)
<1>8. CASE i = Len(es)
  <2>1. Last(d).hash = Last(es).hash
    BY DEF Passes
  <2>2. QED  BY <1>5, <1>6, <1>7, <1>8, <2>1 DEF Last
<1>9. CASE i # Len(es)
  <2>1. i + 1 \in 1..Len(es) /\ i + 1 - 1 = i /\ i + 1 # 1 /\ i + 1 # i
    BY <1>1, <1>9
  <2>2. InOrder(d, i + 1) /\ InOrder(es, i + 1)
    BY <1>6, <2>1 DEF Chain, Passes
  <2>3. d[i + 1].prev = e.hash /\ es[i + 1].prev = es[i].hash /\ d[i + 1] = es[i + 1]
    BY <1>7, <2>1, <2>2 DEF InOrder
  <2>4. QED  BY <1>5, <2>3
<1>10. QED  BY <1>8, <1>9

(* Relinking or sealing again the next entry too only moves the fault. *)
RelinkedTo(es, i, r, n) ==
  /\ n \in Entries /\ n.seq = i /\ n.record = es[i + 1].record
  /\ n.prev = compute_hash(i - 1, r, es[i].prev)
Spliced(es, i, r, n, d) ==
  /\ d \in Seq(Entries) /\ Len(d) = Len(es)
  /\ d[i] = seal(i - 1, r, es[i].prev) /\ d[i + 1] = n
  /\ \A j \in 1..Len(es) : j # i /\ j # i + 1 => d[j] = es[j]
LEMMA CatchesRelink ==
  ASSUME NEW es, Chain(es), NEW i \in 1..Len(es), i # Len(es), NEW r \in Records,
         NEW n, RelinkedTo(es, i, r, n), NEW d, Spliced(es, i, r, n, d), d # es,
         Passes(d, Last(es).hash)
  PROVE  FALSE
<1> USE DEF RelinkedTo, Spliced
<1>p. (\A j \in 1..Len(es) : InOrder(d, j)) /\ Last(d).hash = Last(es).hash
  BY DEF Passes
<1> DEFINE e == seal(i - 1, r, es[i].prev)
<1>1. /\ es \in Seq(Entries) /\ i - 1 \in Nat /\ es[i].prev \in Hashes
      /\ es[i] = seal(i - 1, es[i].record, es[i].prev)
      /\ es[i].hash = compute_hash(i - 1, es[i].record, es[i].prev)
  BY ChainParts DEF Chain
<1>2. i + 1 \in 1..Len(es) /\ i + 1 - 1 = i /\ i + 1 # 1 /\ i + 1 # i /\ i \in Nat
  BY <1>1
<1>3. /\ es[i + 1].record \in Records /\ es[i + 1].prev \in Hashes
      /\ es[i + 1].hash = compute_hash(i, es[i + 1].record, es[i + 1].prev)
      /\ es[i + 1] = seal(i, es[i + 1].record, es[i + 1].prev)
  BY <1>2, ChainParts
<1>4. es[i + 1].prev = es[i].hash
  BY <1>2 DEF Chain, InOrder
<1>5. e \in Entries /\ e.hash = n.prev /\ n.prev \in Hashes
  BY <1>1, Sealed
<1>6. InOrder(d, i + 1)
  BY <1>2, <1>p
<1>7. n.hash = compute_hash(i, n.record, n.prev)
  BY <1>6 DEF InOrder
<1>8. r # es[i].record
  <2> SUFFICES ASSUME r = es[i].record PROVE FALSE
    OBVIOUS
  <2>1. e = es[i] /\ n.prev = es[i + 1].prev
    BY <1>1, <1>4
  <2>2. n = es[i + 1]
    BY <1>3, <1>7, <2>1, EntryIsSealed
  <2>3. \A j \in 1..Len(es) : d[j] = es[j]
    BY <2>1, <2>2
  <2>4. QED  BY <1>1, <2>3, SeqEqual
<1> HIDE DEF e
<1>9. n.prev # es[i + 1].prev
  BY <1>4, <1>8, NewHash
<1>10. n.hash # es[i + 1].hash
  BY <1>2, <1>3, <1>5, <1>7, <1>9, HashInjective
<1>11. CASE i + 1 = Len(es)
  BY <1>10, <1>11, <1>p DEF Last
<1>12. CASE i + 1 # Len(es)
  <2>1. i + 2 \in 1..Len(es) /\ i + 2 - 1 = i + 1 /\ i + 2 # 1 /\ i + 2 # i /\ i + 2 # i + 1
    BY <1>1, <1>2, <1>12
  <2>2. InOrder(d, i + 2) /\ InOrder(es, i + 2)
    BY <1>p, <2>1 DEF Chain
  <2>3. d[i + 2].prev = n.hash /\ es[i + 2].prev = es[i + 1].hash /\ d[i + 2] = es[i + 2]
    BY <2>1, <2>2 DEF InOrder
  <2>4. QED  BY <1>10, <2>3
<1>13. QED  BY <1>11, <1>12

(* An entry taken out leaves a gap in the numbers, or another head. *)
LEMMA CatchesRemoval ==
  ASSUME NEW es, Chain(es), NEW i \in 1..Len(es),
         NEW d, d = RemoveAt(es, i), Passes(d, Last(es).hash)
  PROVE  FALSE
<1>1. es \in Seq(Entries) /\ Len(es) \in Nat
  BY DEF Chain
<1> DEFINE front == SubSeq(es, 1, i - 1)
           back == SubSeq(es, i + 1, Len(es))
<1>2. front \in Seq(Entries) /\ Len(front) = i - 1 /\ \A j \in 1..(i - 1) : front[j] = es[j]
  BY <1>1
<1>3. /\ back \in Seq(Entries) /\ Len(back) = Len(es) - i
      /\ \A j \in 1..(Len(es) - i) : back[j] = es[i + j]
  BY <1>1
<1>4. d = front \o back
  BY DEF RemoveAt
<1> HIDE DEF front, back
<1>5. /\ d \in Seq(Entries) /\ Len(d) = Len(es) - 1
      /\ \A j \in 1..(Len(es) - 1) : d[j] = IF j < i THEN es[j] ELSE es[j + 1]
  <2>1. /\ d \in Seq(Entries) /\ Len(d) = Len(front) + Len(back)
        /\ \A j \in 1..(Len(front) + Len(back)) :
             d[j] = IF j <= Len(front) THEN front[j] ELSE back[j - Len(front)]
    BY <1>2, <1>3, <1>4, ConcatProperties, SMTT(40)
  <2>2. ASSUME NEW j \in 1..(Len(es) - 1) PROVE d[j] = IF j < i THEN es[j] ELSE es[j + 1]
    <3>1. j \in 1..(Len(front) + Len(back))
      BY <1>1, <1>2, <1>3
    <3>2. CASE j < i
      <4>1. j \in 1..(i - 1) /\ j <= Len(front)
        BY <1>1, <1>2, <3>2
      <4>2. QED  BY <1>2, <2>1, <3>1, <3>2, <4>1
    <3>3. CASE ~(j < i)
      <4>1. j - (i - 1) \in 1..(Len(es) - i) /\ i + (j - (i - 1)) = j + 1 /\ ~(j <= i - 1)
        BY <1>1, <3>3
      <4>2. d[j] = back[j - Len(front)]
        BY <1>2, <2>1, <3>1, <4>1
      <4>3. QED  BY <1>2, <1>3, <3>3, <4>1, <4>2
    <3>4. QED  BY <3>2, <3>3
  <2>3. QED  BY <1>1, <1>2, <1>3, <2>1, <2>2
<1>6. (\A j \in DOMAIN d : InOrder(d, j)) /\ d # <<>> /\ Last(d).hash = Last(es).hash
  BY DEF Passes
<1>7. CASE i # Len(es)
  <2>1. i \in 1..(Len(es) - 1) /\ d[i] = es[i + 1] /\ i + 1 \in 1..Len(es)
    BY <1>1, <1>5, <1>7
  <2>2. d[i].seq = i - 1
    <3>1. InOrder(d, i)
      BY <1>5, <1>6, <2>1
    <3>2. QED  BY <3>1 DEF InOrder
  <2>3. es[i + 1].seq = i + 1 - 1
    BY <2>1, ChainParts
  <2>4. QED  BY <2>1, <2>2, <2>3
<1>8. CASE i = Len(es)
  <2>1. Len(es) # 1 /\ Len(es) - 1 \in 1..Len(es)
    BY <1>1, <1>5, <1>6
  <2>2. Last(d) = es[Len(es) - 1]
    BY <1>5, <1>8, <2>1 DEF Last
  <2>3. /\ es[i].prev = es[i - 1].hash /\ i - 1 \in Nat
        /\ es[i].hash = compute_hash(i - 1, es[i].record, es[i].prev)
        /\ es[i].record \in Records /\ es[i].prev \in Hashes
    BY <1>8, <2>1, ChainParts DEF Chain, InOrder
  <2>4. QED  BY <1>6, <1>8, <2>2, <2>3, HashGrows DEF Last
<1>9. QED  BY <1>7, <1>8

(* No doctored copy of a chain passes for one with the chain's own head. *)
LEMMA CatchesDoctoring ==
  ASSUME NEW es, Chain(es), NEW d \in Doctored(es), Passes(d, Last(es).hash)
  PROVE  FALSE
<1>1. es \in Seq(Entries) /\ Len(es) \in Nat
  BY DEF Chain
<1>2. CASE \E i \in DOMAIN es : d = RemoveAt(es, i)
  BY <1>1, <1>2, CatchesRemoval
<1>3. ASSUME NEW i \in 1..Len(es), NEW r \in Records, d \in Rewritten(es, i, r), d # es
      PROVE FALSE
  <2>n. d # es
    BY <1>3
  <2>1. CASE d = InPlace(es, i, r)
    BY <2>n, <2>1, CatchesRewrite
  <2>2. CASE d = Resealed(es, i, r)
    BY <2>n, <2>2, CatchesReseal
  <2> DEFINE e == seal(i - 1, r, es[i].prev)
             h == compute_hash(i - 1, r, es[i].prev)
             f == [es EXCEPT ![i] = e]
  <2>3. e \in Entries /\ h \in Hashes
    BY Sealed, ChainParts
  <2>4. /\ f \in Seq(Entries) /\ Len(f) = Len(es) /\ f[i] = e
        /\ \A j \in 1..Len(es) : j # i => f[j] = es[j]
    <3> HIDE DEF e
    <3>1. QED  BY <1>1, <2>3, ExceptSeq
  <2>a. i # Len(es) => i + 1 \in 1..Len(es) /\ i + 1 # i /\ i + 1 - 1 = i /\ i \in Nat
    BY <1>1
  <2>b. i # Len(es) =>
          /\ f[i + 1] = es[i + 1] /\ es[i + 1] \in Entries
          /\ es[i + 1].seq = i /\ es[i + 1].record \in Records
    BY <2>4, <2>a, ChainParts
  <2>5. ASSUME i # Len(es), NEW n \in Entries, d = [f EXCEPT ![i + 1] = n],
               n.seq = i, n.record = es[i + 1].record, n.prev = h
        PROVE FALSE
    <3>1. i + 1 \in 1..Len(f) /\ i + 1 # i
      BY <2>4, <2>5, <2>a
    <3> HIDE DEF f, e
    <3>2. /\ d \in Seq(Entries) /\ Len(d) = Len(es) /\ d[i] = e /\ d[i + 1] = n
          /\ \A j \in 1..Len(es) : j # i /\ j # i + 1 => d[j] = es[j]
      BY <1>1, <2>4, <2>5, <3>1, ExceptSeq
    <3>3. Spliced(es, i, r, n, d)
      BY <3>2 DEF Spliced, e
    <3>4. RelinkedTo(es, i, r, n)
      BY <2>5 DEF RelinkedTo
    <3>5. QED  BY <2>n, <2>5, <3>3, <3>4, CatchesRelink
  <2>6. CASE i # Len(es) /\ d = [f EXCEPT ![i + 1].prev = h]
    <3> HIDE DEF f, h
    <3> DEFINE n == [es[i + 1] EXCEPT !.prev = h]
    <3>1. d = [f EXCEPT ![i + 1] = n]
      BY <2>6, <2>b
    <3>2. /\ n \in Entries /\ n.seq = i /\ n.record = es[i + 1].record /\ n.prev = h
      BY <2>3, <2>6, <2>b, Relinked
    <3> HIDE DEF n
    <3>3. QED  BY <2>5, <2>6, <3>1, <3>2
  <2>7. CASE i # Len(es) /\ d = [f EXCEPT ![i + 1] = seal(i, es[i + 1].record, h)]
    <3> HIDE DEF f, h
    <3> DEFINE n == seal(i, es[i + 1].record, h)
    <3>1. /\ n \in Entries /\ n.seq = i /\ n.record = es[i + 1].record /\ n.prev = h
      BY <2>3, <2>7, <2>a, <2>b, Sealed
    <3>2. d = [f EXCEPT ![i + 1] = n]
      BY <2>7
    <3> HIDE DEF n
    <3>3. QED  BY <2>5, <2>7, <3>1, <3>2
  <2>8. d \in {InPlace(es, i, r), Resealed(es, i, r)}
        \/ (i # Len(es) /\ d \in {[f EXCEPT ![i + 1].prev = h],
                                   [f EXCEPT ![i + 1] = seal(i, es[i + 1].record, h)]})
    <3>1. i + 1 # i
      BY <1>1
    <3>2. f[i + 1] = es[i + 1]
      BY <1>1, <3>1
    <3>3. QED  BY <1>3, <3>2 DEF Rewritten, InPlace, Resealed
  <2>9. QED  BY <2>1, <2>2, <2>6, <2>7, <2>8
<1>4. CASE d \in (UNION {Rewritten(es, i, r) : i \in DOMAIN es, r \in Records}) \ {es}
  <2>1. PICK i \in DOMAIN es, r \in Records : d \in Rewritten(es, i, r)
    BY <1>4
  <2>2. i \in 1..Len(es)
    BY <1>1
  <2>3. d # es
    BY <1>4
  <2>4. QED  BY <1>3, <2>1, <2>2, <2>3
<1>5. QED  BY <1>2, <1>4 DEF Doctored

(* The export of a table in order is a chain. *)
LEMMA ExportIsChain ==
  ASSUME TableInv
  PROVE  Chain(export)
<1>1. export = [i \in 1..Size |-> rows[i - 1]] /\ export \in Seq(Entries) /\ Len(export) = Size
  BY Exported
<1>2. Size \in Nat /\ DOMAIN rows = 0..(Size - 1) /\ \A n \in DOMAIN rows : Linked(n)
  BY DEF TableInv
<1>3. ASSUME NEW i \in 1..Size PROVE InOrder(export, i)
  <2>1. i - 1 \in DOMAIN rows /\ export[i] = rows[i - 1] /\ (i = 1 <=> i - 1 = 0)
    BY <1>1, <1>2
  <2>2. Linked(i - 1)
    BY <1>2, <2>1
  <2>3. i # 1 => i - 1 \in 1..Size /\ export[i - 1] = rows[i - 1 - 1]
    BY <1>1, <1>2
  <2>4. QED  BY <2>1, <2>2, <2>3 DEF InOrder, Linked, HashBefore
<1>4. QED  BY <1>1, <1>3 DEF Chain

(* audit.rs verify: at any moment what is exported verifies, and no copy with a
   record rewritten, entries sealed again or an entry removed passes for it. *)
THEOREM LogIsTamperEvident == Spec => []TamperEvident
<1>1. AuditInv => TamperEvident
  <2> SUFFICES ASSUME AuditInv PROVE TamperEvident
    OBVIOUS
  <2>1. Chain(export)
    BY ExportIsChain DEF AuditInv
  <2>2. \A i \in DOMAIN export : InOrder(export, i)
    BY <2>1 DEF Chain
  <2>3. verify(export, FALSE, GENESIS_PREV) = "ok"
    BY <2>2, VerifyAccepts
  <2>4. \A es \in Doctored(export) : verify(es, TRUE, Last(export).hash) # "ok"
    BY <2>1, CatchesDoctoring, VerifyRequires
  <2>5. QED  BY <2>3, <2>4 DEF TamperEvident
<1>2. QED  BY Inductive, <1>1, PTL
=============================================================================
