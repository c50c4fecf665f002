------------------------------ MODULE Enrollment ------------------------------
(***************************************************************************)
(* How a host gets and keeps its identity: join tokens (token.rs), the     *)
(* shared CA (ca.rs), service.rs `mint_token`, `enroll`, `renew`, `revoke`,*)
(* and on the host enroll.rs: `run` with `persist`, and `renew`, run by    *)
(* hand or by `renewal_loop` in the agent.                                 *)
(*                                                                         *)
(* One host's state directory; every process that touches it is an attempt *)
(* to enrol or a renewal, and any number of them overlap.  The key pair of *)
(* an attempt and the host_id a coordinator mints for it are both named by *)
(* the attempt, being fresh.  A certificate says which key it certifies,   *)
(* for which host_id, signed by which CA.  Its expiry, a failing store, a  *)
(* lost answer and the death of a process are failures that may occur at   *)
(* any step.  write_atomic is the three calls it makes, on a temporary     *)
(* file that every writer of the same file shares.  The steps of a request *)
(* may be carried out by any replica that is up, a superset of what the    *)
(* one serving it can do.                                                  *)
(***************************************************************************)
EXTENDS Naturals, FiniteSets

CONSTANTS
  Tokens,    \* join tokens
  Attempts,  \* enrolments, each a process of its own
  TokenOf,   \* the token an attempt presents
  Forced,    \* the attempts run with --force
  Renewals,  \* processes that renew: the agent's loop, `osa-agent renew`
  Replicas,  \* coordinators
  None,      \* no file, no process
  Empty,     \* what a file holds between the truncation and the write
  Torn,      \* what it may hold when two writers wrote it
  Cap,       \* cap on outstanding tokens
  Casts,     \* bound: sets of processes and CAs; one of them holds all that there are
  MaxCa      \* bound: CAs generated

ASSUME EnrollAssumption ==
  /\ TokenOf \in [Attempts -> Tokens] /\ Forced \subseteq Attempts
  /\ Attempts \intersect Renewals = {} /\ None \notin Renewals \union Replicas
  /\ Cap \in Nat /\ MaxCa \in Nat
  /\ None # Empty /\ None # Torn /\ Empty # Torn
  /\ \A x \in {None, Empty, Torn} :
       x \notin Attempts \union 1..MaxCa \union [key : Attempts, host : Attempts, ca : 1..MaxCa]

VARIABLES
  token,     \* token[t]: "none", "minting", "live", "redeemed" or "deleted"
  expired,   \* tokens past their expiry
  revoked,   \* revoked host ids
  issued,    \* every certificate ever signed (history)
  rep,       \* rep[r]: where the replica is in load_or_generate, or "up"
  ca,        \* ca[r]: the CA it found or generated, 0 before
  snap,      \* snap[r]: the row as of the start of its transaction
  caRow,     \* the row of ca_identity, 0: none
  caLock,    \* the holder of CA_LOCK_KEY
  made,      \* CAs generated so far
  at,        \* at[a]: what the attempt does next, or how it ended
  granted,   \* granted[a]: the certificate in the answer
  file,      \* file[f]: the four files of the state directory
  tmp,       \* tmp[f]: f.tmp beside it
  io,        \* io[w]: where the writer is in write_atomic, and what its handle is on
  ren,       \* ren[v]: the renewal under way
  owner,     \* the attempt whose files these are so far (history)
  mixed      \* the files need not be of one identity (history)

tokenVars == <<token, expired>>
caVars    == <<rep, ca, snap, caRow, caLock, made>>
hostVars  == <<file, tmp, io, owner, mixed>>
vars == <<tokenVars, revoked, issued, caVars, at, granted, hostVars, ren>>

Cert(key, host, n) == [key |-> key, host |-> host, ca |-> n]
Certs  == [key : Attempts, host : Attempts, ca : 1..MaxCa]
Idle   == [at |-> "idle", key |-> None, cert |-> None]
Names   == {"cert", "ca", "host_id", "key"}
NoFile  == [f \in Names |-> None]
Writers == Attempts \union Renewals

Init ==
  /\ token = [t \in Tokens |-> "none"] /\ expired = {} /\ revoked = {} /\ issued = {}
  /\ rep = [r \in Replicas |-> "down"] /\ ca = [r \in Replicas |-> 0]
  /\ snap = [r \in Replicas |-> 0] /\ caRow = 0 /\ caLock = None /\ made = 0
  /\ at = [a \in Attempts |-> "idle"] /\ granted = [a \in Attempts |-> None]
  /\ file = NoFile /\ tmp = NoFile /\ io = [w \in Writers |-> "closed"]
  /\ owner = None /\ mixed = FALSE
  /\ ren = [v \in Renewals |-> Idle]

-----------------------------------------------------------------------------
(* The bound on the processes at work (attempts, once begun, and replicas and
   renewals for as long as they are up) and the CAs generated. *)
AtWork ==
  {a \in Attempts : at[a] # "idle"} \union {v \in Renewals : ren[v].at # "idle"}
    \union {r \in Replicas : rep[r] # "down"} \union 1..made
InCast == \E c \in Casts : AtWork \subseteq c

-----------------------------------------------------------------------------
(* ca.rs load_or_generate, at the start of a replica. *)

(* A new transaction; a cluster whose default isolation is stricter than READ
   COMMITTED keeps the snapshot taken here. *)
CaBegin(r) ==
  /\ rep[r] = "down"
  /\ rep' = [rep EXCEPT ![r] = "lock"]
  /\ snap' = [snap EXCEPT ![r] = caRow]
  /\ UNCHANGED <<tokenVars, revoked, issued, ca, caRow, caLock, made, at, granted, hostVars, ren>>
  /\ InCast'

CaTakeLock(r) ==
  /\ rep[r] = "lock" /\ caLock = None
  /\ rep' = [rep EXCEPT ![r] = "select"]
  /\ caLock' = r
  /\ UNCHANGED <<tokenVars, revoked, issued, ca, snap, caRow, made, at, granted, hostVars, ren>>

(* The row is there: the replica takes its CA from it. *)
CaLoad(r) ==
  /\ rep[r] = "select"
  /\ \E row \in {caRow, snap[r]} \ {0} : ca' = [ca EXCEPT ![r] = row]
  /\ rep' = [rep EXCEPT ![r] = "commit"]
  /\ UNCHANGED <<tokenVars, revoked, issued, snap, caRow, caLock, made, at, granted, hostVars, ren>>

(* The row is not there, or not in the snapshot: a new CA. *)
CaGenerate(r) ==
  /\ rep[r] = "select" /\ 0 \in {caRow, snap[r]} /\ made < MaxCa
  /\ made' = made + 1
  /\ ca' = [ca EXCEPT ![r] = made']
  /\ rep' = [rep EXCEPT ![r] = "insert"]
  /\ UNCHANGED <<tokenVars, revoked, issued, snap, caRow, caLock, at, granted, hostVars, ren>>
  /\ InCast'

\* mutant of CaInsert: a row that is already there is no error
MutCaInsertIgnores(r) ==
  /\ rep[r] = "insert"
  /\ rep' = [rep EXCEPT ![r] = "commit"]
  /\ UNCHANGED <<tokenVars, revoked, issued, ca, snap, caRow, caLock, made, at, granted, hostVars, ren>>
(* The table takes one row: a second insert fails, and the start with it. *)
CaInsert(r) ==
  /\ rep[r] = "insert" /\ caRow = 0
  /\ rep' = [rep EXCEPT ![r] = "commit"]
  /\ UNCHANGED <<tokenVars, revoked, issued, ca, snap, caRow, caLock, made, at, granted, hostVars, ren>>

CaCommit(r) ==
  /\ rep[r] = "commit"
  /\ caRow' = IF caRow = 0 THEN ca[r] ELSE caRow
  /\ caLock' = None
  /\ rep' = [rep EXCEPT ![r] = "up"]
  /\ UNCHANGED <<tokenVars, revoked, issued, ca, snap, made, at, granted, hostVars, ren>>

(* An error, a crash or a stop: the process is gone and its transaction rolled
   back, or committed when only the answer was lost. *)
ReplicaEnds(r) ==
  /\ rep[r] # "down"
  /\ rep' = [rep EXCEPT ![r] = "down"] /\ ca' = [ca EXCEPT ![r] = 0]
  /\ snap' = [snap EXCEPT ![r] = 0]
  /\ caLock' = IF caLock = r THEN None ELSE caLock
  /\ \/ UNCHANGED caRow
     \/ rep[r] = "commit" /\ caRow = 0 /\ caRow' = ca[r]
  /\ UNCHANGED <<tokenVars, revoked, issued, made, at, granted, hostVars, ren>>

-----------------------------------------------------------------------------
(* token.rs *)

Outstanding == {t \in Tokens : token[t] = "live" /\ t \notin expired}
Reclaimed   == {t \in Tokens : token[t] = "redeemed" \/ (token[t] = "live" /\ t \in expired)}

(* mint sweeps what is redeemed or expired, then counts; the insert comes in a
   statement of its own. *)
MintCount(t) ==
  /\ token[t] = "none"
  /\ Cardinality(Outstanding) < Cap
  /\ token' = [x \in Tokens |->
       CASE x = t -> "minting" [] x \in Reclaimed -> "deleted" [] OTHER -> token[x]]
  /\ UNCHANGED <<expired, revoked, issued, caVars, at, granted, hostVars, ren>>

MintInsert(t) ==
  /\ token[t] = "minting"
  /\ token' = [token EXCEPT ![t] = "live"]
  /\ UNCHANGED <<expired, revoked, issued, caVars, at, granted, hostVars, ren>>

TokenExpires(t) ==
  /\ token[t] = "live" /\ t \notin expired
  /\ expired' = expired \union {t}
  /\ UNCHANGED <<token, revoked, issued, caVars, at, granted, hostVars, ren>>

\* mutant of Redeemable: the row's redemption is not looked at
MutRedeemableTwice(t) == token[t] \in {"live", "redeemed"} /\ t \notin expired
(* The condition of the UPDATE. *)
Redeemable(t) == token[t] = "live" /\ t \notin expired

-----------------------------------------------------------------------------
(* enroll.rs write_atomic of file f by process w. *)

(* The file a writer writes: an attempt is at it, a renewal writes the certificate. *)
Target(w) == IF w \in Attempts THEN at[w] ELSE "cert"

(* Written over something longer, bytes of both remain. *)
Overlay(old, c) == IF old = Empty THEN {c} ELSE {c, Torn}

(* Create or truncate f.tmp. *)
Open(w, f) ==
  /\ io[w] = "closed"
  /\ tmp' = [tmp EXCEPT ![f] = Empty]
  /\ io' = [io EXCEPT ![w] = "tmp"]
  /\ UNCHANGED file

(* Write and fsync through the handle, wherever the file it was opened on is by
   now: still f.tmp, renamed to f by another writer, or replaced since. *)
Fill(w, f, c) ==
  /\ \/ /\ io[w] = "tmp" /\ \E x \in Overlay(tmp[f], c) : tmp' = [tmp EXCEPT ![f] = x]
        /\ UNCHANGED file
     \/ /\ io[w] = "file" /\ \E x \in Overlay(file[f], c) : file' = [file EXCEPT ![f] = x]
        /\ UNCHANGED tmp
     \/ io[w] = "gone" /\ UNCHANGED <<file, tmp>>
  /\ io' = [io EXCEPT ![w] = "written"]

(* What a rename of f.tmp makes of another writer's handle. *)
Moved(h) == CASE h = "tmp" -> "file" [] h = "file" -> "gone" [] OTHER -> h

(* Rename f.tmp, whoever filled it, to f; it fails when there is none. *)
Rename(w, f) ==
  /\ io[w] = "written" /\ tmp[f] # None
  /\ file' = [file EXCEPT ![f] = tmp[f]]
  /\ tmp' = [tmp EXCEPT ![f] = None]
  /\ io' = [x \in Writers |-> CASE x = w -> "closed"
                               [] x # w /\ Target(x) = f -> Moved(io[x]) [] OTHER -> io[x]]

(* No other process is in the middle of a write. *)
Alone(w) == \A x \in Writers \ {w} : io[x] = "closed"

-----------------------------------------------------------------------------
(* enroll.rs `run` and service.rs `enroll`. *)

NotEnrolled(a) == file["key"] = None \/ a \in Forced
Goes(a, from, to) == at[a] = from /\ at' = [at EXCEPT ![a] = to]

(* ensure_not_enrolled, a fresh key, the request. *)
Ask(a) ==
  /\ Goes(a, "idle", "asked") /\ NotEnrolled(a)
  /\ UNCHANGED <<tokenVars, revoked, issued, caVars, granted, hostVars, ren>>
  /\ InCast'

(* The coordinator redeems the token... *)
Redeem(a) ==
  /\ Goes(a, "asked", "redeemed") /\ Redeemable(TokenOf[a])
  /\ token' = [token EXCEPT ![TokenOf[a]] = "redeemed"]
  /\ UNCHANGED <<expired, revoked, issued, caVars, granted, hostVars, ren>>

(* ...or refuses it: unknown, expired or redeemed. *)
Denied(a) ==
  /\ Goes(a, "asked", "failed") /\ ~Redeemable(TokenOf[a])
  /\ UNCHANGED <<tokenVars, revoked, issued, caVars, granted, hostVars, ren>>

(* Redeemed, it signs for a new host_id, with the CA of the replica that serves. *)
Sign(a) ==
  /\ Goes(a, "redeemed", "granted")
  /\ \E r \in Replicas :
       /\ rep[r] = "up"
       /\ LET c == Cert(a, a, ca[r]) IN
          /\ issued' = issued \union {c}
          /\ granted' = [granted EXCEPT ![a] = c]
  /\ UNCHANGED <<tokenVars, revoked, caVars, hostVars, ren>>

(* persist looks for the key once more. *)
Persist(a) ==
  /\ Goes(a, "granted", "cert") /\ NotEnrolled(a)
  /\ UNCHANGED <<tokenVars, revoked, issued, caVars, granted, hostVars, ren>>

(* Already enrolled, answer lost, store or disk failing, killed: whatever is
   burnt or written stays so. *)
Dies(a) ==
  /\ at[a] \notin {"idle", "done", "failed"}
  /\ at' = [at EXCEPT ![a] = "failed"]
  /\ granted' = [granted EXCEPT ![a] = None]
  /\ io' = [io EXCEPT ![a] = "closed"]
  /\ UNCHANGED <<tokenVars, revoked, issued, caVars, file, tmp, owner, mixed, ren>>

\* mutant of After: the key is written before the CA and the host_id
MutAfterKeyFirst(f) == CASE f = "key" -> "ca" [] f = "ca" -> "host_id"
                         [] f = "host_id" -> "done" [] f = "cert" -> "key"
(* The order of the writes: the key comes last. *)
After(f) == CASE f = "cert" -> "ca" [] f = "ca" -> "host_id"
              [] f = "host_id" -> "key" [] f = "key" -> "done"

Content(a, f) == CASE f = "cert" -> granted[a] [] f = "ca" -> granted[a].ca
                   [] f = "host_id" -> granted[a].host [] f = "key" -> a

(* One write_atomic of persist.  Its files are the attempt's alone as long as no
   other writer is about; the key makes them an identity, or a mixture. *)
WriteOpen(a) ==
  /\ at[a] \in Names /\ Open(a, at[a])
  /\ owner' = IF Alone(a) /\ (at[a] = "cert" \/ owner = a) THEN a ELSE None
  /\ mixed' = (mixed \/ file["key"] # None)
  /\ UNCHANGED <<tokenVars, revoked, issued, caVars, at, granted, ren>>

WriteFill(a) ==
  /\ at[a] \in Names /\ Fill(a, at[a], Content(a, at[a]))
  /\ UNCHANGED <<tokenVars, revoked, issued, caVars, at, granted, owner, mixed, ren>>

WriteRename(a) ==
  /\ at[a] \in Names /\ Rename(a, at[a])
  /\ at' = [at EXCEPT ![a] = After(at[a])]
  /\ granted' = IF at'[a] = "done" THEN [granted EXCEPT ![a] = None] ELSE granted
  /\ owner' = IF at[a] = "key" THEN None ELSE owner
  /\ mixed' = IF at[a] = "key" THEN owner # a ELSE mixed
  /\ UNCHANGED <<tokenVars, revoked, issued, caVars, ren>>

-----------------------------------------------------------------------------
(* Renewal. *)

(* enroll.rs `renew`: read and parse the key and the certificate, ask for a new one. *)
RenewAsk(v) ==
  /\ ren[v].at = "idle" /\ file["key"] \in Attempts /\ file["cert"] \in Certs
  /\ ren' = [ren EXCEPT ![v] = [at |-> "asked", key |-> file["key"], cert |-> file["cert"]]]
  /\ UNCHANGED <<tokenVars, revoked, issued, caVars, at, granted, hostVars>>
  /\ InCast'

\* mutant of ValidRenewal: the CSR may carry any key
MutValidRenewalAnyKey(v, r) == ren[v].cert.ca = ca[r]
(* validate_renewal: signed by our CA, and for the key of the CSR. *)
ValidRenewal(v, r) == ren[v].cert.ca = ca[r] /\ ren[v].cert.key = ren[v].key

(* The row exists. *)
IsRevoked(h) == h \in revoked

(* service.rs `renew` up to the answer of is_revoked. *)
RenewCheck(v) ==
  /\ ren[v].at = "asked"
  /\ \E r \in Replicas : rep[r] = "up" /\ ValidRenewal(v, r)
  /\ ~IsRevoked(ren[v].cert.host)
  /\ ren' = [ren EXCEPT ![v].at = "cleared"]
  /\ UNCHANGED <<tokenVars, revoked, issued, caVars, at, granted, hostVars>>

RenewSign(v) ==
  /\ ren[v].at = "cleared"
  /\ \E r \in Replicas :
       /\ rep[r] = "up"
       /\ LET c == Cert(ren[v].key, ren[v].cert.host, ca[r]) IN
          /\ issued' = issued \union {c}
          /\ ren' = [ren EXCEPT ![v] = [@ EXCEPT !.at = "signed", !.cert = c]]
  /\ UNCHANGED <<tokenVars, revoked, caVars, at, granted, hostVars>>

(* The new certificate must chain to the pinned CA; then it is written. *)
RenewVerify(v) ==
  /\ ren[v].at = "signed" /\ ren[v].cert.ca = file["ca"]
  /\ ren' = [ren EXCEPT ![v].at = "verified"]
  /\ UNCHANGED <<tokenVars, revoked, issued, caVars, at, granted, hostVars>>

RenewOpen(v) ==
  /\ ren[v].at = "verified" /\ Open(v, "cert")
  /\ owner' = None
  /\ mixed' = (mixed \/ ren[v].key # file["key"] \/ ~Alone(v))
  /\ UNCHANGED <<tokenVars, revoked, issued, caVars, at, granted, ren>>

RenewFill(v) ==
  /\ Fill(v, "cert", ren[v].cert)
  /\ UNCHANGED <<tokenVars, revoked, issued, caVars, at, granted, owner, mixed, ren>>

RenewRename(v) ==
  /\ Rename(v, "cert")
  /\ ren' = [ren EXCEPT ![v] = Idle]
  /\ UNCHANGED <<tokenVars, revoked, issued, caVars, at, granted, owner, mixed>>

(* Denied, revoked, lapsed, answer lost, f.tmp gone or process gone; the loop
   tries again. *)
RenewFails(v) ==
  /\ ren[v].at # "idle"
  /\ ren' = [ren EXCEPT ![v] = Idle]
  /\ io' = [io EXCEPT ![v] = "closed"]
  /\ UNCHANGED <<tokenVars, revoked, issued, caVars, at, granted, file, tmp, owner, mixed>>

Revoke(h) ==
  /\ h \notin revoked
  /\ revoked' = revoked \union {h}
  /\ UNCHANGED <<tokenVars, issued, caVars, at, granted, hostVars, ren>>

-----------------------------------------------------------------------------
Next ==
  \/ \E r \in Replicas : CaBegin(r) \/ CaTakeLock(r) \/ CaLoad(r) \/ CaGenerate(r)
                           \/ CaInsert(r) \/ CaCommit(r) \/ ReplicaEnds(r)
  \/ \E t \in Tokens : MintCount(t) \/ MintInsert(t) \/ TokenExpires(t)
  \/ \E a \in Attempts : Ask(a) \/ Redeem(a) \/ Denied(a) \/ Sign(a) \/ Persist(a)
                           \/ WriteOpen(a) \/ WriteFill(a) \/ WriteRename(a) \/ Dies(a)
  \/ \E v \in Renewals : RenewAsk(v) \/ RenewCheck(v) \/ RenewSign(v) \/ RenewVerify(v)
                           \/ RenewOpen(v) \/ RenewFill(v) \/ RenewRename(v) \/ RenewFails(v)
  \/ \E c \in issued : Revoke(c.host)

Spec == Init /\ [][Next]_vars

-----------------------------------------------------------------------------
(* Properties *)

(* A token enrols at most one host, however many requests present it at once,
   around its expiry and around a sweep that deletes it. *)
OneIdentityPerToken == \A c, d \in issued :
  c.host # d.host => TokenOf[c.host] # TokenOf[d.host]

(* A host_id is bound to the key it was enrolled with for ever: renewing from a
   directory with files of two identities never certifies a key for another's
   host_id. *)
HostKeyBinding == \A c \in issued : c.key = c.host

(* There is one CA: every replica that serves holds the row's, and every
   certificate ever issued is of it, however the replicas' starts overlap. *)
OneCa ==
  /\ \A r \in Replicas : rep[r] = "up" => ca[r] = caRow
  /\ \A c \in issued : c.ca = caRow

(* The four files are those of one identity. *)
Whole ==
  /\ file["cert"] \in Certs
  /\ file["cert"].key = file["key"] /\ file["cert"].host = file["host_id"]
  /\ file["cert"].ca = file["ca"]

(* enroll.rs `persist` and `renew`: the key is the marker of a whole identity.
   It holds through crashes between any two calls, stale temporary files and
   renewals that follow one another, and again once one enrolment has written its
   four files undisturbed.  It is given up, although the comments of `persist` and
   `write_atomic` say otherwise, when an enrolment starts to overwrite an identity
   that is there (--force, or two first enrolments that overlap), when a renewal
   writes a certificate of a key replaced meanwhile, and when a renewal opens the
   temporary file while another process is in the middle of a write: one of them may
   then rename what the other has truncated. *)
WholeIdentity == file["key"] # None /\ ~mixed => Whole
=============================================================================
