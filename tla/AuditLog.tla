------------------------------- MODULE AuditLog -------------------------------
(***************************************************************************)
(* The audit log: service.rs `authorize_and_audit`, the Postgres adapter   *)
(* (audit_log.rs) shared by several coordinator replicas, and the hash     *)
(* chain of audit.rs with the verifier that `osa audit verify` runs.       *)
(*                                                                         *)
(* One step per statement of the transaction.  The transaction lives on    *)
(* the server and the call that drives it in a coordinator, so either may  *)
(* go without the other: a call is dropped (its client leaves, the 30 s    *)
(* request timeout fires, the process dies) while its transaction lingers, *)
(* or the server ends the transaction, or commits and the answer is lost.  *)
(*                                                                         *)
(* A hash is the sequence of everything hashed into it, which makes it     *)
(* free of collisions and GENESIS_PREV the hash of nothing.                *)
(***************************************************************************)
EXTENDS Naturals, FiniteSetsExt, SequencesExt

CONSTANTS
  Calls,      \* calls of authorize_and_audit
  Replicas,   \* coordinator processes
  ReplicaOf,  \* the replica that serves a call
  NoCall      \* nobody

ASSUME CallsAssumption == NoCall \notin Calls /\ ReplicaOf \in [Calls -> Replicas]

VARIABLES
  at,         \* at[c]: what the call does next, or how it ended
  decision,   \* decision[c]: the policy's answer
  local,      \* local[r]: the holder of the replica's append_lock
  tx,         \* tx[c]: the transaction: "none", "open", "sent", "done", "gone"
  chainLock,  \* the holder of the advisory lock
  head,       \* head[c]: the seq and hash the entry will be chained to
  staged,     \* staged[c]: the rows inserted and not yet committed
  rows        \* the table audit_log, by its primary key

callVars == <<at, decision, local>>
vars == <<callVars, tx, chainLock, head, staged, rows>>

Decisions == {"allow", "deny"}
GENESIS_PREV == <<>>
Next0 == [seq |-> 0, prev |-> GENESIS_PREV]

-----------------------------------------------------------------------------
(* audit.rs *)

\* mutant of compute_hash: the previous hash is left out
MutComputeHashUnchained(seq, r, prev) == <<[seq |-> seq, record |-> r]>>
compute_hash(seq, r, prev) == Append(prev, [seq |-> seq, record |-> r])
seal(seq, r, prev) ==
  [seq |-> seq, record |-> r, prev |-> prev, hash |-> compute_hash(seq, r, prev)]

(* The first fault of the chain in order, then the head; the loop reaches an
   entry only when those before it are in order. *)
verify(entries, anchored, expected_head) ==
  LET prev(i) == IF i = 1 THEN GENESIS_PREV ELSE entries[i - 1].hash
      fault(i) ==
        IF entries[i].seq # i - 1 THEN "OutOfOrder"
        ELSE IF entries[i].prev # prev(i) THEN "BrokenLink"
        ELSE IF compute_hash(entries[i].seq, entries[i].record, entries[i].prev)
                  # entries[i].hash THEN "Altered"
        ELSE "none"
      faulty == {i \in DOMAIN entries : fault(i) # "none"}
  IN  IF faulty # {} THEN fault(Min(faulty))
      ELSE IF ~anchored THEN "ok"
      ELSE IF entries = <<>> THEN "Truncated"
      ELSE IF Last(entries).hash = expected_head THEN "ok" ELSE "UnexpectedHead"

(* PgAuditLog::export: the table ordered by seq, the i-th row having i - 1 before
   it. *)
export == [i \in 1..Cardinality(DOMAIN rows) |->
  rows[CHOOSE n \in DOMAIN rows : Cardinality({m \in DOMAIN rows : m < n}) = i - 1]]

-----------------------------------------------------------------------------
Init ==
  /\ at = [c \in Calls |-> "new"] /\ decision = [c \in Calls |-> "deny"]
  /\ local = [r \in Replicas |-> NoCall] /\ tx = [c \in Calls |-> "none"]
  /\ chainLock = NoCall /\ head = [c \in Calls |-> Next0]
  /\ staged = [c \in Calls |-> {}] /\ rows = [n \in {} |-> {}]

Goes(c, from, to) == at[c] = from /\ at' = [at EXCEPT ![c] = to]
Unlocked(c) == [r \in Replicas |-> IF local[r] = c THEN NoCall ELSE local[r]]
(* The server ends the transaction and with it the advisory lock. *)
Ended(c, how) ==
  /\ tx' = [tx EXCEPT ![c] = how]
  /\ chainLock' = IF chainLock = c THEN NoCall ELSE chainLock
  /\ staged' = [staged EXCEPT ![c] = {}]

(* The policy decides; a failing policy engine ends the call unaudited. *)
Authorize(c) ==
  /\ Goes(c, "new", "append")
  /\ \E d \in Decisions : decision' = [decision EXCEPT ![c] = d]
  /\ UNCHANGED <<local, tx, chainLock, head, staged, rows>>

AuthorizeFails(c) ==
  /\ Goes(c, "new", "failed")
  /\ UNCHANGED <<decision, local, tx, chainLock, head, staged, rows>>

(* PgAuditLog::append: the replica's append_lock, then the transaction. *)
TakeLocal(c) ==
  /\ Goes(c, "append", "begin")
  /\ local[ReplicaOf[c]] = NoCall
  /\ local' = [local EXCEPT ![ReplicaOf[c]] = c]
  /\ UNCHANGED <<decision, tx, chainLock, head, staged, rows>>

Begin(c) ==
  /\ Goes(c, "begin", "lock")
  /\ tx' = [tx EXCEPT ![c] = "open"]
  /\ UNCHANGED <<decision, local, chainLock, head, staged, rows>>

\* mutant of LockChain: the advisory lock is not taken
MutLockChainFree(c) ==
  /\ Goes(c, "lock", "head") /\ tx[c] = "open"
  /\ UNCHANGED <<decision, local, tx, chainLock, head, staged, rows>>
LockChain(c) ==
  /\ Goes(c, "lock", "head") /\ tx[c] = "open"
  /\ chainLock = NoCall
  /\ chainLock' = c
  /\ UNCHANGED <<decision, local, tx, head, staged, rows>>

(* READ COMMITTED: the head of everything committed by now. *)
ReadHead(c) ==
  /\ Goes(c, "head", "insert") /\ tx[c] = "open"
  /\ head' = [head EXCEPT ![c] =
       IF DOMAIN rows = {} THEN Next0
       ELSE LET top == Max(DOMAIN rows) IN [seq |-> top + 1, prev |-> rows[top].hash]]
  /\ UNCHANGED <<decision, local, tx, chainLock, staged, rows>>

(* The primary key: the insert waits for another transaction's row of the same
   seq and fails on a committed one. *)
Insert(c) ==
  /\ at[c] = "insert" /\ tx[c] = "open"
  /\ \A o \in Calls \ {c} : \A e \in staged[o] : e.seq # head[c].seq
  /\ IF head[c].seq \in DOMAIN rows
     THEN /\ at' = [at EXCEPT ![c] = "failed"]
          /\ local' = Unlocked(c)
          /\ UNCHANGED staged
     ELSE /\ at' = [at EXCEPT ![c] = "commit"]
          /\ staged' = [staged EXCEPT ![c] =
               {seal(head[c].seq, [call |-> c, decision |-> decision[c]], head[c].prev)}]
          /\ UNCHANGED local
  /\ UNCHANGED <<decision, tx, chainLock, head, rows>>

Commit(c) ==
  /\ Goes(c, "commit", "answer") /\ tx[c] = "open"
  /\ tx' = [tx EXCEPT ![c] = "sent"]
  /\ UNCHANGED <<decision, local, chainLock, head, staged, rows>>

(* The server commits, whether or not the call still waits. *)
ServerCommits(c) ==
  /\ tx[c] = "sent"
  /\ rows' = [n \in DOMAIN rows \union {e.seq : e \in staged[c]} |->
                IF n \in DOMAIN rows THEN rows[n] ELSE CHOOSE e \in staged[c] : e.seq = n]
  /\ Ended(c, "done")
  /\ UNCHANGED <<callVars, head>>

Over == {"failed", "audited", "acted", "denied"}

\* mutant of ServerEnds: the lock outlives its transaction
MutServerEndsLocked(c) ==
  /\ tx[c] \in {"open", "sent"}
  /\ tx' = [tx EXCEPT ![c] = "gone"] /\ staged' = [staged EXCEPT ![c] = {}]
  /\ UNCHANGED <<callVars, chainLock, head, rows>>
(* The transaction is rolled back: the call dropped it, or the connection or
   the server failed under it. *)
ServerEnds(c) ==
  /\ tx[c] \in {"open", "sent"}
  /\ Ended(c, "gone")
  /\ UNCHANGED <<callVars, head, rows>>

Answered(c) ==
  /\ Goes(c, "answer", "audited") /\ tx[c] = "done"
  /\ local' = Unlocked(c)
  /\ UNCHANGED <<decision, tx, chainLock, head, staged, rows>>

InAppend == {"append", "begin", "lock", "head", "insert", "commit", "answer"}

\* mutant of AppendFails: a failed append does not stop the action
MutAppendFailsOpen(c) ==
  /\ at[c] \in InAppend
  /\ at' = [at EXCEPT ![c] = "audited"]
  /\ local' = Unlocked(c)
  /\ UNCHANGED <<decision, tx, chainLock, head, staged, rows>>
\* mutant of AppendFails: an append whose answer was lost is tried again
MutAppendFailsRetries(c) ==
  /\ at[c] \in InAppend
  /\ at' = [at EXCEPT ![c] = IF at[c] = "answer" THEN "append" ELSE "failed"]
  /\ local' = Unlocked(c)
  /\ UNCHANGED <<decision, tx, chainLock, head, staged, rows>>
(* append returns an error or is dropped, at any point; the transaction is left
   to the server. *)
AppendFails(c) ==
  /\ at[c] \in InAppend
  /\ at' = [at EXCEPT ![c] = "failed"]
  /\ local' = Unlocked(c)
  /\ UNCHANGED <<decision, tx, chainLock, head, staged, rows>>

(* The callers: dispatch, exec, shell. *)
Act(c) ==
  /\ decision[c] = "allow" /\ Goes(c, "audited", "acted")
  /\ UNCHANGED <<decision, local, tx, chainLock, head, staged, rows>>
Deny(c) ==
  /\ decision[c] = "deny" /\ Goes(c, "audited", "denied")
  /\ UNCHANGED <<decision, local, tx, chainLock, head, staged, rows>>

-----------------------------------------------------------------------------
Proceed(c) ==
  \/ TakeLocal(c) \/ Begin(c) \/ LockChain(c) \/ ReadHead(c) \/ Insert(c)
  \/ Commit(c) \/ Answered(c) \/ Act(c) \/ Deny(c)
Server(c) == ServerCommits(c) \/ ServerEnds(c)

Next == \E c \in Calls :
          Authorize(c) \/ AuthorizeFails(c) \/ Proceed(c) \/ Server(c) \/ AppendFails(c)

(* A call with its next statement at hand goes on, one whose transaction is
   gone gets its error, and the server ends what was sent or abandoned. *)
Abandoned(c) == at[c] \in Over /\ Server(c)
Refused(c)   == tx[c] = "gone" /\ AppendFails(c)
Fairness == \A c \in Calls :
  /\ WF_vars(Proceed(c)) /\ WF_vars(Refused(c)) /\ WF_vars(Abandoned(c))
  /\ WF_vars(tx[c] = "sent" /\ Server(c))

Spec == Init /\ [][Next]_vars /\ Fairness

-----------------------------------------------------------------------------
(* Properties *)

Records == [call : Calls, decision : Decisions]
(* No fork: whoever has read the head and can still insert or commit has the
   current one, so no insert meets another of the same seq.  audit_log.rs: "the
   read-head -> seal -> insert is atomic system-wide". *)
HeadIsCurrent == \A c \in Calls :
  (at[c] \in {"insert", "commit"} /\ tx[c] = "open") \/ tx[c] = "sent" =>
    /\ head[c].seq = Cardinality(DOMAIN rows)
    /\ head[c].prev = IF DOMAIN rows = {} THEN GENESIS_PREV ELSE Last(export).hash

(* Copies of a chain with something changed: a record rewritten and as much of
   the chain sealed again as keeps it plausible, an entry removed, the tail cut. *)
Rewritten(es, i, r) ==
  {[es EXCEPT ![i].record = r],
   [es EXCEPT ![i] = seal(i - 1, r, es[i].prev)]}
  \union (IF i = Len(es) THEN {}
          ELSE {[es EXCEPT ![i] = seal(i - 1, r, es[i].prev),
                           ![i + 1].prev = compute_hash(i - 1, r, es[i].prev)],
                [es EXCEPT ![i] = seal(i - 1, r, es[i].prev),
                           ![i + 1] = seal(i, @.record, compute_hash(i - 1, r, es[i].prev))]})
Doctored(es) ==
  ((UNION {Rewritten(es, i, r) : i \in DOMAIN es, r \in Records}) \ {es})
    \union {RemoveAt(es, i) : i \in DOMAIN es}

(* What `osa audit verify` is for: whatever is exported at any moment verifies,
   and against its recorded head no doctored copy does. *)
TamperEvident ==
  /\ verify(export, FALSE, GENESIS_PREV) = "ok"
  /\ \A es \in Doctored(export) : verify(es, TRUE, Last(export).hash) # "ok"

RowOf(c) == {n \in DOMAIN rows : rows[n].record.call = c}

(* Fail closed: an operator's action has gone ahead, or was denied to his face,
   only if the log holds exactly that decision of his call, once. *)
AuditedFirst == \A c \in Calls : at[c] \in {"acted", "denied"} =>
  \E n \in DOMAIN rows : /\ RowOf(c) = {n}
                         /\ rows[n].record.decision = decision[c]
                         /\ at[c] = "acted" => decision[c] = "allow"

(* The log only grows, at its end, by one record of a call at most: the adapter
   implements the port's contract across replicas, lost answers and crashes. *)
Log == [i \in DOMAIN export |-> export[i].record]
Contract == INSTANCE AuditContract WITH log <- Log
AppendOnly == Contract!Spec

(* Nobody waits for ever: every call that was authorized comes to an end, even
   though calls queue for a lock inside a replica and transactions for one
   across replicas, and calls drop transactions that hold it. *)
CallsEnd == <>[](\A c \in Calls : at[c] \in Over \union {"new"})
=============================================================================
