--------------------------- MODULE EnrollmentProofs ---------------------------
(***************************************************************************)
(* Proofs about module Enrollment, for every set of tokens, enrolments,    *)
(* renewals and replicas: a token enrols one host, a host_id keeps the key *)
(* it was enrolled with, there is one CA, and a key on disk marks a whole  *)
(* identity.  The inductive invariant EnrollInv has one part for each: who *)
(* holds the CA's lock and what he found, which attempt has used a token,  *)
(* where every certificate in flight comes from, which of its files an     *)
(* undisturbed attempt has already written, and what the one renewal that  *)
(* may be writing has in the temporary file.                               *)
(***************************************************************************)
EXTENDS Enrollment, TLAPS

Steps    == {"idle", "asked", "redeemed", "granted", "cert", "ca", "host_id", "key",
             "done", "failed"}
Writing  == {"granted", "cert", "ca", "host_id", "key"}
InTx     == {"select", "insert", "commit"}
Spent    == {"redeemed", "deleted"}

CaType ==
  /\ rep \in [Replicas -> {"down", "lock", "up"} \union InTx]
  /\ ca \in [Replicas -> 0..MaxCa] /\ snap \in [Replicas -> 0..MaxCa]
  /\ caRow \in 0..MaxCa /\ caLock \in Replicas \union {None} /\ made \in 0..MaxCa

TokenType ==
  /\ token \in [Tokens -> {"none", "minting", "live", "redeemed", "deleted"}]
  /\ expired \subseteq Tokens /\ revoked \subseteq Attempts

Contents == Certs \union Attempts \union 1..MaxCa \union {None, Empty, Torn}
Handles  == {"closed", "tmp", "file", "gone", "written"}
HostType ==
  /\ at \in [Attempts -> Steps] /\ granted \in [Attempts -> Certs \union {None}]
  /\ file \in [Names -> Contents] /\ tmp \in [Names -> Contents]
  /\ io \in [Writers -> Handles]
  /\ owner \in Attempts \union {None} /\ mixed \in BOOLEAN

RenewalStates == [at : {"idle", "asked", "cleared", "signed", "verified"},
                  key : Attempts \union {None}, cert : Certs \union {None}]
CertType == issued \subseteq Certs /\ ren \in [Renewals -> RenewalStates]

TypeOK == CaType /\ TokenType /\ HostType /\ CertType

(* The CA: one replica at a time is past the lock; what it is about to commit
   is new or the row's; a snapshot is empty or the row's. *)
CaInv ==
  /\ \A r \in Replicas : rep[r] \in InTx => caLock = r
  /\ \A r \in Replicas : snap[r] \in {0, caRow}
  /\ \A r \in Replicas : rep[r] \in {"insert", "commit"} => ca[r] # 0
  /\ \A r \in Replicas : rep[r] = "commit" => caRow \in {0, ca[r]}
  /\ \A r \in Replicas : rep[r] = "up" => caRow # 0 /\ ca[r] = caRow
  /\ \A c \in issued : c.ca = caRow

(* Attempt a has had its token redeemed and may yet get, or has got, a
   certificate; no two that present one token have. *)
Used(a) == at[a] = "redeemed" \/ \E c \in issued : c.host = a
TokenInv ==
  /\ \A a \in Attempts : Used(a) => token[TokenOf[a]] \in Spent
  /\ \A a, b \in Attempts : Used(a) /\ Used(b) /\ TokenOf[a] = TokenOf[b] => a = b

(* Every certificate in an answer, in the directory or in a renewal was issued,
   and what a renewal was cleared for is its own key's. *)
OriginInv ==
  /\ \A c \in issued : c.key = c.host
  /\ \A a \in Attempts : at[a] \in Writing =>
       granted[a] \in issued /\ granted[a].key = a
  /\ file["cert"] \in Certs => file["cert"] \in issued
  /\ tmp["cert"] \in Certs => tmp["cert"] \in issued
  /\ \A v \in Renewals : ren[v].at # "idle" => ren[v].cert \in issued /\ ren[v].key # None
  /\ \A v \in Renewals : ren[v].at \in {"cleared", "signed", "verified"} =>
       ren[v].cert.key = ren[v].key

(* Only a process that is writing a file has a handle on it, and a handle on the
   file itself is on one that is there. *)
HandleInv ==
  /\ \A a \in Attempts : io[a] # "closed" => at[a] \in Names
  /\ \A v \in Renewals : io[v] # "closed" => ren[v].at = "verified"
  /\ \A w \in Writers : io[w] = "file" => file[Target(w)] # None

(* The owner is the only writer; its files are in place as far as it has come,
   and the temporary file is its own. *)
OwnInv == owner # None =>
  /\ at[owner] \in {"ca", "host_id", "key"} => file["cert"] = granted[owner]
  /\ at[owner] \in {"host_id", "key"} => file["ca"] = granted[owner].ca
  /\ at[owner] = "key" => file["host_id"] = granted[owner].host
  /\ at[owner] \in Names \union {"failed"}
  /\ \A x \in Writers : x # owner => io[x] = "closed"
  /\ io[owner] \in {"closed", "tmp", "written"}
  /\ io[owner] = "tmp" => tmp[at[owner]] = Empty
  /\ io[owner] = "written" => tmp[at[owner]] = Content(owner, at[owner])

(* On a whole identity one renewal at a time writes, for the key that is there,
   and the temporary file is its own. *)
SoleInv == file["key"] # None /\ ~mixed => \A w \in Writers : io[w] # "closed" =>
  /\ w \in Renewals /\ ren[w].key = file["key"]
  /\ \A x \in Writers : x # w => io[x] = "closed"
  /\ io[w] \in {"tmp", "written"}
  /\ io[w] = "tmp" => tmp["cert"] = Empty
  /\ io[w] = "written" => tmp["cert"] = ren[w].cert

(* The files are an identity's; nobody but the one renewal is writing them. *)
FilesInv == OwnInv /\ SoleInv /\ WholeIdentity

EnrollInv == TypeOK /\ CaInv /\ TokenInv /\ OriginInv /\ HandleInv /\ FilesInv

(* A certificate is of its type, and is something. *)
LEMMA CertFields ==
  ASSUME NEW k \in Attempts, NEW h \in Attempts, NEW n \in 1..MaxCa
  PROVE  /\ Cert(k, h, n) \in Certs
         /\ Cert(k, h, n).key = k /\ Cert(k, h, n).host = h /\ Cert(k, h, n).ca = n
  BY DEF Cert, Certs

(* Nothing, a truncated and a torn file are not a certificate or an attempt, and
   differ. *)
LEMMA NoneIsNothing ==
  /\ None \notin Certs /\ None \notin Attempts /\ None \notin Renewals /\ None \notin Replicas
  /\ Empty \notin Certs /\ Torn \notin Certs
  /\ Empty # None /\ Torn # None
  /\ Attempts \intersect Renewals = {}
  BY EnrollAssumption DEF Certs

(* A renewal stays one when its answer comes. *)
LEMMA SignedRenewal ==
  ASSUME NEW s \in RenewalStates, NEW c \in Certs
  PROVE  [s EXCEPT !.at = "signed", !.cert = c] \in RenewalStates
  BY DEF RenewalStates

(* What the calls of write_atomic do: they touch one file, whose contents come
   from the temporary file or the writer, and a file that is there stays. *)
LEMMA DiskStep ==
  ASSUME HostType, NEW w \in Writers, NEW f \in Names, NEW c \in Contents, c # None,
         Open(w, f) \/ Fill(w, f, c) \/ Rename(w, f)
  PROVE  /\ file' \in [Names -> Contents] /\ tmp' \in [Names -> Contents]
         /\ io' \in [Writers -> Handles]
         /\ \A g \in Names : g # f => file'[g] = file[g] /\ tmp'[g] = tmp[g]
         /\ file'[f] \in {file[f], tmp[f], c, Torn}
         /\ tmp'[f] \in {tmp[f], None, Empty, c, Torn}
         /\ \A g \in Names : file[g] # None => file'[g] # None
<1> USE NoneIsNothing DEF HostType
<1>0. {None, Empty, Torn} \subseteq Contents
  BY DEF Contents
<1>1. CASE Open(w, f)
  BY <1>0, <1>1 DEF Open, Handles
<1>2. CASE Fill(w, f, c)
  BY <1>0, <1>2 DEF Fill, Overlay, Handles
<1>3. CASE Rename(w, f)
  <2>1. io' \in [Writers -> Handles]
    BY <1>3 DEF Rename, Moved, Handles
  <2>2. QED  BY <1>0, <1>3, <2>1 DEF Rename
<1>4. QED  BY <1>1, <1>2, <1>3

(* The process at one of the four files writes something there. *)
LEMMA ContentIs ==
  ASSUME TypeOK, OriginInv, NEW a \in Attempts, at[a] \in Names
  PROVE  /\ Content(a, at[a]) \in Contents /\ Content(a, at[a]) # None
         /\ granted[a] \in issued /\ granted[a] \in Certs
         /\ granted[a].key = a /\ granted[a].host = a
         /\ a \in Writers
<1> USE EnrollAssumption, NoneIsNothing
<1>1. granted[a] \in issued /\ granted[a].key = a /\ granted[a].host = a
  BY DEF OriginInv, Writing, Names
<1>2. granted[a] \in Certs
  BY <1>1 DEF TypeOK, CertType
<1>3. granted[a].ca \in 1..MaxCa
  BY <1>2 DEF Certs
<1>4. granted[a].ca # None
  BY <1>3
<1>5. QED  BY <1>1, <1>2, <1>3, <1>4 DEF Content, Contents, Names, Writers

(* A renewal that writes has verified its certificate. *)
LEMMA RenewalWrites ==
  ASSUME HandleInv, NEW v \in Renewals, RenewOpen(v) \/ RenewFill(v) \/ RenewRename(v)
  PROVE  ren[v].at = "verified"
<1>1. CASE RenewOpen(v)
  BY <1>1 DEF RenewOpen
<1>2. CASE RenewFill(v)
  BY <1>2 DEF RenewFill, Fill, HandleInv
<1>3. CASE RenewRename(v)
  BY <1>3 DEF RenewRename, Rename, HandleInv
<1>4. QED  BY <1>1, <1>2, <1>3

(* The initial state satisfies the inductive invariant. *)
LEMMA InitInv ==
  ASSUME Init
  PROVE  EnrollInv
<1> USE EnrollAssumption, NoneIsNothing
<1>1. TypeOK
  <2>1. CaType /\ TokenType
    BY DEF Init, CaType, TokenType, InTx
  <2>2. NoFile \in [Names -> Contents]
    BY DEF NoFile, Contents
  <2>3. HostType
    BY <2>2 DEF Init, HostType, Steps, Handles
  <2>4. Idle \in RenewalStates
    BY DEF Idle, RenewalStates
  <2>5. QED  BY <2>1, <2>3, <2>4 DEF Init, TypeOK, CertType
<1>2. CaInv
  BY DEF Init, CaInv, InTx
<1>3. TokenInv
  BY DEF Init, TokenInv, Used
<1>4. OriginInv
  BY DEF Init, OriginInv, Idle, NoFile, Names, Writing
<1>5. OwnInv /\ HandleInv
  BY DEF Init, OwnInv, HandleInv, Writers
<1>6. SoleInv /\ WholeIdentity
  BY DEF Init, SoleInv, WholeIdentity, NoFile, Names
<1>7. QED  BY <1>1, <1>2, <1>3, <1>4, <1>5, <1>6 DEF EnrollInv, FilesInv

(* The steps of a replica's start keep the CA's part of the invariant. *)
LEMMA StepCa ==
  ASSUME TypeOK, CaInv, OriginInv, [Next]_vars
  PROVE  CaInv'
<1> USE EnrollAssumption, NoneIsNothing DEF TypeOK, CaType, CertType, InTx
<1>1. ASSUME NEW r \in Replicas, CaBegin(r) PROVE CaInv'
  BY <1>1 DEF CaBegin, CaInv
<1>2. ASSUME NEW r \in Replicas, CaTakeLock(r) PROVE CaInv'
  BY <1>2 DEF CaTakeLock, CaInv
<1>3. ASSUME NEW r \in Replicas, CaLoad(r) PROVE CaInv'
  BY <1>3 DEF CaLoad, CaInv
<1>4. ASSUME NEW r \in Replicas, CaGenerate(r) PROVE CaInv'
  BY <1>4 DEF CaGenerate, CaInv
<1>5. ASSUME NEW r \in Replicas, CaInsert(r) PROVE CaInv'
  BY <1>5 DEF CaInsert, CaInv
<1>6. ASSUME NEW r \in Replicas, CaCommit(r) PROVE CaInv'
  <2>1. caRow # 0 => caRow' = caRow
    BY <1>6 DEF CaCommit
  <2>2. issued = {} \/ caRow # 0
    BY DEF CaInv, Certs
  <2>3. caRow' = ca[r] /\ caRow' # 0
    BY <1>6 DEF CaCommit, CaInv
  <2>4. QED  BY <1>6, <2>1, <2>2, <2>3 DEF CaCommit, CaInv
<1>7. ASSUME NEW r \in Replicas, ReplicaEnds(r) PROVE CaInv'
  <2>1. issued = {} \/ caRow # 0
    BY DEF CaInv, Certs
  <2>2. caRow # 0 => caRow' = caRow
    BY <1>7 DEF ReplicaEnds
  <2>3. QED  BY <1>7, <2>1, <2>2 DEF ReplicaEnds, CaInv
<1>8. ASSUME NEW a \in Attempts, Sign(a) PROVE CaInv'
  BY <1>8 DEF Sign, CaInv, Cert, caVars
<1>9. ASSUME NEW v \in Renewals, RenewSign(v) PROVE CaInv'
  BY <1>9 DEF RenewSign, CaInv, Cert, caVars
<1>10. ASSUME UNCHANGED <<caVars, issued>> PROVE CaInv'
  BY <1>10 DEF CaInv, caVars
<1>11. ASSUME NEW t \in Tokens, MintCount(t) \/ MintInsert(t) \/ TokenExpires(t)
       PROVE UNCHANGED <<caVars, issued>>
  BY <1>11 DEF MintCount, MintInsert, TokenExpires
<1>12. ASSUME NEW a \in Attempts,
              Ask(a) \/ Redeem(a) \/ Denied(a) \/ Persist(a)
                \/ WriteOpen(a) \/ WriteFill(a) \/ WriteRename(a) \/ Dies(a)
       PROVE UNCHANGED <<caVars, issued>>
  BY <1>12 DEF Ask, Redeem, Denied, Persist, WriteOpen, WriteFill, WriteRename, Dies
<1>13. ASSUME NEW v \in Renewals,
              RenewAsk(v) \/ RenewCheck(v) \/ RenewVerify(v) \/ RenewOpen(v)
                \/ RenewFill(v) \/ RenewRename(v) \/ RenewFails(v)
       PROVE UNCHANGED <<caVars, issued>>
  BY <1>13 DEF RenewAsk, RenewCheck, RenewVerify, RenewOpen, RenewFill, RenewRename,
     RenewFails
<1>14. ASSUME NEW h, Revoke(h) PROVE UNCHANGED <<caVars, issued>>
  BY <1>14 DEF Revoke
<1>15. CASE UNCHANGED vars
  BY <1>10, <1>15 DEF vars
<1>16. QED
  BY <1>1, <1>2, <1>3, <1>4, <1>5, <1>6, <1>7, <1>8, <1>9, <1>10, <1>11, <1>12, <1>13,
     <1>14, <1>15 DEF Next

(* Every action keeps the types. *)
LEMMA StepType ==
  ASSUME TypeOK, CaInv, OriginInv, HandleInv, [Next]_vars
  PROVE  TypeOK'
<1> USE EnrollAssumption, NoneIsNothing, CertFields
<1>1. CaType'
  <2> USE DEF TypeOK, CaType, InTx, caVars
  <2>1. ASSUME NEW r \in Replicas,
               CaBegin(r) \/ CaTakeLock(r) \/ CaLoad(r) \/ CaGenerate(r)
        PROVE CaType'
    BY <2>1 DEF CaBegin, CaTakeLock, CaLoad, CaGenerate
  <2>2. ASSUME NEW r \in Replicas, CaInsert(r) \/ CaCommit(r) PROVE CaType'
    BY <2>2 DEF CaInsert, CaCommit
  <2>5. ASSUME NEW r \in Replicas, ReplicaEnds(r) PROVE CaType'
    BY <2>5 DEF ReplicaEnds
  <2>3. ASSUME UNCHANGED caVars PROVE CaType'
    BY <2>3
  <2>4. QED
    BY <2>1, <2>2, <2>3, <2>5, ZenonT(60) DEF Next, MintCount, MintInsert, TokenExpires, Ask, Redeem, Denied,
       Sign, Persist, WriteOpen, WriteFill, WriteRename, Dies, RenewAsk, RenewCheck, RenewSign, RenewVerify, RenewOpen, RenewFill,
       RenewRename, RenewFails,
       Revoke, vars
<1>2. TokenType'
  <2> USE DEF TypeOK, TokenType, CertType
  <2>1. ASSUME NEW t \in Tokens, MintCount(t) PROVE TokenType'
    BY <2>1 DEF MintCount
  <2>2. ASSUME NEW t \in Tokens, MintInsert(t) \/ TokenExpires(t) PROVE TokenType'
    BY <2>2 DEF MintInsert, TokenExpires
  <2>3. ASSUME NEW a \in Attempts, Redeem(a) PROVE TokenType'
    BY <2>3 DEF Redeem
  <2>4. ASSUME NEW c \in issued, Revoke(c.host) PROVE TokenType'
    BY <2>4 DEF Revoke, Certs, tokenVars
  <2>5. ASSUME UNCHANGED <<token, expired, revoked>> PROVE TokenType'
    BY <2>5
  <2>6. ASSUME NEW r \in Replicas,
               CaBegin(r) \/ CaTakeLock(r) \/ CaLoad(r) \/ CaGenerate(r)
                 \/ CaInsert(r) \/ CaCommit(r) \/ ReplicaEnds(r)
        PROVE UNCHANGED <<token, expired, revoked>>
    BY <2>6 DEF CaBegin, CaTakeLock, CaLoad, CaGenerate, CaInsert, CaCommit, ReplicaEnds,
       tokenVars
  <2>7. QED
    BY <2>1, <2>2, <2>3, <2>4, <2>5, <2>6 DEF Next, Ask, Denied, Sign, Persist, WriteOpen, WriteFill, WriteRename, Dies,
       RenewAsk, RenewCheck, RenewSign, RenewVerify, RenewOpen, RenewFill,
       RenewRename, RenewFails, vars, tokenVars
<1>3. HostType'
  <2> USE DEF TypeOK, HostType, Steps
  <2>1. ASSUME NEW a \in Attempts, Ask(a) \/ Redeem(a) \/ Denied(a) \/ Persist(a) \/ Dies(a)
        PROVE HostType'
    BY <2>1 DEF Ask, Redeem, Denied, Persist, Dies, Goes, hostVars, Writers, Handles
  <2>2. ASSUME NEW a \in Attempts, Sign(a) PROVE HostType'
    <3>1. PICK r \in Replicas :
            rep[r] = "up" /\ granted' = [granted EXCEPT ![a] = Cert(a, a, ca[r])]
      BY <2>2 DEF Sign
    <3>2. Cert(a, a, ca[r]) \in Certs
      BY <3>1 DEF CaInv, CaType
    <3>3. QED  BY <2>2, <3>1, <3>2 DEF Sign, Goes, hostVars
  <2>3. ASSUME NEW a \in Attempts, WriteOpen(a) \/ WriteFill(a) \/ WriteRename(a)
        PROVE HostType'
    <3>1. at[a] \in Names
      BY <2>3 DEF WriteOpen, WriteFill, WriteRename
    <3> DEFINE c == Content(a, at[a])
    <3>2. c \in Contents /\ c # None /\ a \in Writers
      BY <3>1, ContentIs
    <3>3. Open(a, at[a]) \/ Fill(a, at[a], c) \/ Rename(a, at[a])
      BY <2>3 DEF WriteOpen, WriteFill, WriteRename
    <3> HIDE DEF c
    <3>4. /\ file' \in [Names -> Contents] /\ tmp' \in [Names -> Contents]
          /\ io' \in [Writers -> Handles]
      BY <3>1, <3>2, <3>3, DiskStep
    <3>5. at' \in [Attempts -> Steps]
      BY <2>3 DEF WriteOpen, WriteFill, WriteRename, After, Names
    <3>6. granted' \in [Attempts -> Certs \union {None}]
      BY <2>3 DEF WriteOpen, WriteFill, WriteRename
    <3>7. owner' \in Attempts \union {None}
      BY <2>3 DEF WriteOpen, WriteFill, WriteRename
    <3>8. mixed' \in BOOLEAN
      BY <2>3 DEF WriteOpen, WriteFill, WriteRename
    <3>9. QED  BY <3>4, <3>5, <3>6, <3>7, <3>8
  <2>4. ASSUME NEW v \in Renewals, RenewOpen(v) \/ RenewFill(v) \/ RenewRename(v)
        PROVE HostType'
    <3>1. Open(v, "cert") \/ Fill(v, "cert", ren[v].cert) \/ Rename(v, "cert")
      BY <2>4 DEF RenewOpen, RenewFill, RenewRename
    <3>2. ren[v].at = "verified"
      BY <2>4, RenewalWrites
    <3>3. ren[v].cert \in Contents /\ ren[v].cert # None
      BY <3>2 DEF OriginInv, CertType, Contents
    <3>4. /\ file' \in [Names -> Contents] /\ tmp' \in [Names -> Contents]
          /\ io' \in [Writers -> Handles]
      BY <3>1, <3>3, DiskStep DEF Names, Writers
    <3>5. UNCHANGED <<at, granted>> /\ owner' \in {owner, None} /\ mixed' \in BOOLEAN
      BY <2>4 DEF RenewOpen, RenewFill, RenewRename
    <3>6. QED  BY <3>4, <3>5
  <2>5. ASSUME UNCHANGED <<at, granted, file, tmp, owner, mixed>>, io' \in [Writers -> Handles]
        PROVE HostType'
    BY <2>5
  <2>8. ASSUME NEW v \in Renewals, RenewFails(v) PROVE HostType'
    BY <2>5, <2>8 DEF RenewFails, Writers, Handles
  <2>9. ASSUME UNCHANGED <<at, granted, hostVars>> PROVE HostType'
    BY <2>5, <2>9 DEF hostVars
  <2>6. ASSUME NEW r \in Replicas,
               CaBegin(r) \/ CaTakeLock(r) \/ CaLoad(r) \/ CaGenerate(r)
                 \/ CaInsert(r) \/ CaCommit(r) \/ ReplicaEnds(r)
        PROVE UNCHANGED <<at, granted, hostVars>>
    BY <2>6 DEF CaBegin, CaTakeLock, CaLoad, CaGenerate, CaInsert, CaCommit, ReplicaEnds
  <2>7. QED
    BY <2>1, <2>2, <2>3, <2>4, <2>6, <2>8, <2>9 DEF Next, MintCount, MintInsert,
       TokenExpires, RenewAsk, RenewCheck, RenewSign, RenewVerify, Revoke, vars
<1>4. CertType'
  <2> USE DEF TypeOK, CertType
  <2>1. ASSUME NEW a \in Attempts, Sign(a) PROVE CertType'
    BY <2>1 DEF Sign, CaInv, CaType
  <2>2. ASSUME NEW v \in Renewals, RenewAsk(v) PROVE CertType'
    BY <2>2 DEF RenewAsk, RenewalStates
  <2>3. ASSUME NEW v \in Renewals, RenewCheck(v) \/ RenewVerify(v) PROVE CertType'
    BY <2>3 DEF RenewCheck, RenewVerify, RenewalStates
  <2>4. ASSUME NEW v \in Renewals, RenewSign(v) PROVE CertType'
    <3>1. ren[v].key \in Attempts /\ ren[v].cert.host \in Attempts
      BY <2>4 DEF RenewSign, OriginInv, RenewalStates, Certs
    <3>2. PICK r \in Replicas :
            LET c == Cert(ren[v].key, ren[v].cert.host, ca[r]) IN
              /\ rep[r] = "up" /\ issued' = issued \union {c}
              /\ ren' = [ren EXCEPT ![v] = [@ EXCEPT !.at = "signed", !.cert = c]]
      BY <2>4 DEF RenewSign
    <3>3. Cert(ren[v].key, ren[v].cert.host, ca[r]) \in Certs
      BY <3>1, <3>2 DEF CaInv, CaType
    <3> DEFINE c == Cert(ren[v].key, ren[v].cert.host, ca[r])
               next == [ren[v] EXCEPT !.at = "signed", !.cert = c]
    <3>4. ren' = [ren EXCEPT ![v] = next] /\ issued' = issued \union {c}
      BY <3>2
    <3>5. c \in Certs
      BY <3>3
    <3> HIDE DEF c
    <3>6. next \in RenewalStates
      BY <3>5, SignedRenewal
    <3> HIDE DEF next
    <3>7. QED  BY <3>4, <3>5, <3>6
  <2>5. ASSUME NEW v \in Renewals, RenewRename(v) \/ RenewFails(v) PROVE CertType'
    BY <2>5 DEF RenewRename, RenewFails, Idle, RenewalStates
  <2>6. ASSUME UNCHANGED <<issued, ren>> PROVE CertType'
    BY <2>6
  <2>7. ASSUME NEW r \in Replicas,
               CaBegin(r) \/ CaTakeLock(r) \/ CaLoad(r) \/ CaGenerate(r)
                 \/ CaInsert(r) \/ CaCommit(r) \/ ReplicaEnds(r)
        PROVE UNCHANGED <<issued, ren>>
    BY <2>7 DEF CaBegin, CaTakeLock, CaLoad, CaGenerate, CaInsert, CaCommit, ReplicaEnds
  <2>8. QED
    BY <2>1, <2>2, <2>3, <2>4, <2>5, <2>6, <2>7 DEF Next, MintCount, MintInsert,
       TokenExpires, Ask, Redeem, Denied, Persist, WriteOpen, WriteFill, WriteRename, Dies, RenewOpen,
       RenewFill, Revoke, vars
<1>5. QED  BY <1>1, <1>2, <1>3, <1>4, SMTT(40) DEF TypeOK

(* Redemption is exclusive, and a sweep deletes only what is spent or expired. *)
LEMMA StepToken ==
  ASSUME TypeOK, CaInv, TokenInv, OriginInv, [Next]_vars
  PROVE  TokenInv'
<1> USE EnrollAssumption DEF TypeOK, TokenType, Spent
<1>1. ASSUME NEW t \in Tokens, MintCount(t) \/ MintInsert(t) PROVE TokenInv'
  <2>1. \A x \in Tokens : token[x] \in Spent => token'[x] \in Spent
    BY <1>1 DEF MintCount, MintInsert, Reclaimed
  <2>2. QED  BY <1>1, <2>1 DEF MintCount, MintInsert, TokenInv, Used
<1>2. ASSUME NEW a \in Attempts, Redeem(a) PROVE TokenInv'
  <2>1. \A b \in Attempts : Used(b)' <=> (b = a \/ Used(b))
    BY <1>2 DEF Redeem, Goes, Used, HostType
  <2>2. \A b \in Attempts : Used(b) => TokenOf[b] # TokenOf[a]
    BY <1>2 DEF Redeem, Redeemable, TokenInv
  <2>3. QED  BY <1>2, <2>1, <2>2 DEF Redeem, TokenInv
<1>3. ASSUME NEW a \in Attempts, Sign(a) PROVE TokenInv'
  <2>1. \A b \in Attempts : Used(b)' => Used(b)
    BY <1>3 DEF Sign, Goes, Used, HostType, Cert
  <2>2. QED  BY <1>3, <2>1 DEF Sign, TokenInv, tokenVars
<1>4. ASSUME NEW v \in Renewals, RenewSign(v) PROVE TokenInv'
  <2>1. \A b \in Attempts : Used(b)' => Used(b)
    BY <1>4 DEF RenewSign, OriginInv, Used, Cert
  <2>2. QED  BY <1>4, <2>1 DEF RenewSign, TokenInv, tokenVars
<1>5. ASSUME NEW a \in Attempts, Ask(a) \/ Denied(a) \/ Persist(a)
                \/ WriteOpen(a) \/ WriteFill(a) \/ WriteRename(a) \/ Dies(a)
      PROVE TokenInv'
  <2>1. \A b \in Attempts : Used(b)' => Used(b)
    BY <1>5 DEF Ask, Denied, Persist, WriteOpen, WriteFill, WriteRename, After, Names, Dies, Goes, Used,
       HostType
  <2>2. token' = token
    BY <1>5 DEF Ask, Denied, Persist, WriteOpen, WriteFill, WriteRename, Dies, tokenVars
  <2>3. QED  BY <2>1, <2>2 DEF TokenInv
<1>6. ASSUME UNCHANGED <<token, at, issued>> PROVE TokenInv'
  BY <1>6 DEF TokenInv, Used
<1>7. ASSUME NEW r \in Replicas,
             CaBegin(r) \/ CaTakeLock(r) \/ CaLoad(r) \/ CaGenerate(r)
               \/ CaInsert(r) \/ CaCommit(r) \/ ReplicaEnds(r)
      PROVE UNCHANGED <<token, at, issued>>
  BY <1>7 DEF CaBegin, CaTakeLock, CaLoad, CaGenerate, CaInsert, CaCommit, ReplicaEnds,
     tokenVars
<1>8. QED
  BY <1>1, <1>2, <1>3, <1>4, <1>5, <1>6, <1>7 DEF Next, TokenExpires, RenewAsk, RenewCheck,
     RenewVerify, RenewOpen, RenewFill, RenewRename, RenewFails, Revoke, vars, tokenVars

(* Certificates come from a signature over the key that asked; a renewal is
   signed only for the key of the certificate it presented. *)
LEMMA StepOrigin ==
  ASSUME TypeOK, CaInv, OriginInv, HandleInv, [Next]_vars
  PROVE  OriginInv'
<1> USE EnrollAssumption, NoneIsNothing DEF TypeOK, CertType, Writing
<1>1. ASSUME NEW a \in Attempts, Sign(a) PROVE OriginInv'
  BY <1>1 DEF Sign, Goes, Cert, OriginInv, HostType, hostVars
<1>2. ASSUME NEW a \in Attempts, Ask(a) \/ Redeem(a) \/ Denied(a) \/ Persist(a) \/ Dies(a)
      PROVE OriginInv'
  BY <1>2 DEF Ask, Redeem, Denied, Persist, Dies, Goes, OriginInv, HostType, hostVars
<1>3. ASSUME NEW a \in Attempts, WriteOpen(a) \/ WriteFill(a) \/ WriteRename(a)
      PROVE OriginInv'
  <2>1. at[a] \in Names
    BY <1>3 DEF WriteOpen, WriteFill, WriteRename
  <2> DEFINE c == Content(a, at[a])
  <2>2. /\ c \in Contents /\ c # None /\ a \in Writers
        /\ at[a] = "cert" => c \in issued
    BY <2>1, ContentIs DEF Content
  <2>3. Open(a, at[a]) \/ Fill(a, at[a], c) \/ Rename(a, at[a])
    BY <1>3 DEF WriteOpen, WriteFill, WriteRename
  <2> HIDE DEF c
  <2>4. /\ at[a] # "cert" => file'["cert"] = file["cert"] /\ tmp'["cert"] = tmp["cert"]
        /\ at[a] = "cert" => /\ file'["cert"] \in {file["cert"], tmp["cert"], c, Torn}
                             /\ tmp'["cert"] \in {tmp["cert"], None, Empty, c, Torn}
    BY <2>1, <2>2, <2>3, DiskStep DEF Names
  <2>5. \A b \in Attempts : at'[b] \in Writing =>
          at[b] \in Writing /\ granted'[b] = granted[b]
    BY <1>3 DEF WriteOpen, WriteFill, WriteRename, After, HostType, Steps, Names
  <2>6. issued' = issued /\ ren' = ren
    BY <1>3 DEF WriteOpen, WriteFill, WriteRename
  <2>7. QED  BY <2>2, <2>4, <2>5, <2>6 DEF OriginInv
<1>4. ASSUME NEW v \in Renewals, RenewAsk(v) PROVE OriginInv'
  BY <1>4 DEF RenewAsk, OriginInv, hostVars
<1>5. ASSUME NEW v \in Renewals, RenewCheck(v) PROVE OriginInv'
  BY <1>5 DEF RenewCheck, ValidRenewal, RenewalStates, OriginInv, hostVars
<1>6. ASSUME NEW v \in Renewals, RenewSign(v) PROVE OriginInv'
  <2>1. PICK r \in Replicas :
          LET c == Cert(ren[v].key, ren[v].cert.host, ca[r]) IN
            /\ rep[r] = "up" /\ issued' = issued \union {c}
            /\ ren' = [ren EXCEPT ![v] = [@ EXCEPT !.at = "signed", !.cert = c]]
    BY <1>6 DEF RenewSign
  <2> DEFINE c == Cert(ren[v].key, ren[v].cert.host, ca[r])
  <2>2. c.key = ren[v].key /\ c.host = ren[v].cert.host
    BY DEF Cert
  <2>3. ren[v].key = ren[v].cert.host /\ ren[v].key # None
    BY <1>6 DEF RenewSign, OriginInv
  <2>4. ren'[v].cert = c /\ ren'[v].key = ren[v].key /\ ren'[v].at = "signed"
    BY <2>1 DEF RenewalStates
  <2>5. \A w \in Renewals : w # v => ren'[w] = ren[w]
    BY <2>1
  <2>6. issued' = issued \union {c}
    BY <2>1
  <2> HIDE DEF c
  <2>7. QED  BY <1>6, <2>2, <2>3, <2>4, <2>5, <2>6 DEF RenewSign, OriginInv, hostVars
<1>7. ASSUME NEW v \in Renewals, RenewOpen(v) \/ RenewFill(v) \/ RenewRename(v)
      PROVE OriginInv'
  <2>1. Open(v, "cert") \/ Fill(v, "cert", ren[v].cert) \/ Rename(v, "cert")
    BY <1>7 DEF RenewOpen, RenewFill, RenewRename
  <2>2. ren[v].at = "verified"
    BY <1>7, RenewalWrites
  <2>3. ren[v].cert \in issued /\ ren[v].cert \in Contents /\ ren[v].cert # None
    BY <2>2 DEF OriginInv, Contents
  <2>4. /\ file'["cert"] \in {file["cert"], tmp["cert"], ren[v].cert, Torn}
        /\ tmp'["cert"] \in {tmp["cert"], None, Empty, ren[v].cert, Torn}
    BY <2>1, <2>3, DiskStep DEF Names, Writers
  <2>5. /\ UNCHANGED <<issued, at, granted>>
        /\ ren' = ren \/ ren' = [ren EXCEPT ![v] = Idle]
    BY <1>7 DEF RenewOpen, RenewFill, RenewRename
  <2>6. QED  BY <2>3, <2>4, <2>5 DEF OriginInv, Idle
<1>8. ASSUME NEW v \in Renewals, RenewFails(v) \/ RenewVerify(v) PROVE OriginInv'
  BY <1>8 DEF RenewFails, RenewVerify, RenewalStates, Idle, OriginInv, hostVars
<1>9. ASSUME UNCHANGED <<issued, at, granted, hostVars, ren>> PROVE OriginInv'
  BY <1>9 DEF OriginInv, hostVars
<1>10. ASSUME NEW r \in Replicas,
              CaBegin(r) \/ CaTakeLock(r) \/ CaLoad(r) \/ CaGenerate(r)
                \/ CaInsert(r) \/ CaCommit(r) \/ ReplicaEnds(r)
       PROVE UNCHANGED <<issued, at, granted, hostVars, ren>>
  BY <1>10 DEF CaBegin, CaTakeLock, CaLoad, CaGenerate, CaInsert, CaCommit, ReplicaEnds
<1>11. QED
  BY <1>1, <1>2, <1>3, <1>4, <1>5, <1>6, <1>7, <1>8, <1>9, <1>10 DEF Next, MintCount,
     MintInsert, TokenExpires, Revoke, vars

(* A handle is closed when its process ends, and follows the file it is on. *)
LEMMA StepHandle ==
  ASSUME TypeOK, OriginInv, HandleInv, [Next]_vars
  PROVE  HandleInv'
<1> USE EnrollAssumption, NoneIsNothing DEF TypeOK, HostType, CertType, Writers
<1>1. ASSUME NEW a \in Attempts, WriteOpen(a) \/ WriteFill(a) PROVE HandleInv'
  <2>1. at[a] \in Names /\ UNCHANGED <<at, ren>>
    BY <1>1 DEF WriteOpen, WriteFill
  <2>2. Open(a, at[a]) \/ Fill(a, at[a], Content(a, at[a]))
    BY <1>1 DEF WriteOpen, WriteFill
  <2>3. \A g \in Names : file[g] # None => file'[g] # None
    BY <2>1, <2>2, ContentIs, DiskStep
  <2>4. /\ \A x \in Writers : x # a => io'[x] = io[x]
        /\ io'[a] \in {"tmp", "written"}
    BY <2>2 DEF Open, Fill
  <2>5. \A x \in Writers : io[x] = "file" => Target(x) \in Names
    BY DEF HandleInv, Target, Names
  <2>6. QED  BY <2>1, <2>3, <2>4, <2>5 DEF HandleInv, Target
<1>2. ASSUME NEW v \in Renewals, RenewOpen(v) \/ RenewFill(v) PROVE HandleInv'
  <2>1. UNCHANGED <<at, ren>>
    BY <1>2 DEF RenewOpen, RenewFill
  <2>2. Open(v, "cert") \/ Fill(v, "cert", ren[v].cert)
    BY <1>2 DEF RenewOpen, RenewFill
  <2>3. ren[v].at = "verified"
    BY <1>2 DEF RenewOpen, RenewFill, Fill, HandleInv
  <2>4. ren[v].cert \in Contents /\ ren[v].cert # None
    BY <2>3 DEF OriginInv, Contents
  <2>5. \A g \in Names : file[g] # None => file'[g] # None
    BY <2>2, <2>4, DiskStep DEF Names
  <2>6. /\ \A x \in Writers : x # v => io'[x] = io[x]
        /\ io'[v] \in {"tmp", "written"}
    BY <2>2 DEF Open, Fill
  <2>7. \A x \in Writers : io[x] = "file" => Target(x) \in Names
    BY DEF HandleInv, Target, Names
  <2>8. QED  BY <2>1, <2>3, <2>5, <2>6, <2>7 DEF HandleInv, Target
<1>3. ASSUME NEW w \in Writers, NEW f \in Names, f = Target(w), Rename(w, f),
             \A a \in Attempts : a # w => at'[a] = at[a],
             \A v \in Renewals : v # w => ren'[v] = ren[v]
      PROVE HandleInv'
  <2>1. /\ io'[w] = "closed" /\ file'[f] # None
        /\ \A g \in Names : g # f => file'[g] = file[g]
    BY <1>3 DEF Rename
  <2>2. \A x \in Writers : x # w =>
          io'[x] = IF Target(x) = f THEN Moved(io[x]) ELSE io[x]
    BY <1>3 DEF Rename
  <2>3. \A x \in Writers : x # w => Target(x)' = Target(x)
    BY <1>3 DEF Target
  <2>4. \A x \in Writers : x # w /\ io'[x] # "closed" => io[x] # "closed"
    BY <2>2 DEF Moved
  <2>5. \A x \in Writers : io[x] # "closed" => Target(x) \in Names
    BY DEF HandleInv, Target, Names
  <2>6. ASSUME NEW x \in Writers, io'[x] = "file" PROVE file'[Target(x)'] # None
    <3>1. x # w
      BY <2>1, <2>6
    <3>2. Target(x)' = Target(x) /\ Target(x) \in Names
      BY <2>3, <2>4, <2>5, <2>6, <3>1
    <3>3. CASE Target(x) = f
      BY <2>1, <3>2, <3>3
    <3>4. CASE Target(x) # f
      BY <2>1, <2>2, <2>6, <3>1, <3>2, <3>4 DEF HandleInv
    <3>5. QED  BY <3>3, <3>4
  <2>7. /\ \A a \in Attempts : io'[a] # "closed" => at'[a] \in Names
        /\ \A v \in Renewals : io'[v] # "closed" => ren'[v].at = "verified"
    BY <1>3, <2>1, <2>4 DEF HandleInv
  <2>8. QED  BY <2>6, <2>7 DEF HandleInv
<1>4. ASSUME NEW a \in Attempts, WriteRename(a) PROVE HandleInv'
  <2>1. /\ at[a] \in Names /\ at[a] = Target(a) /\ Rename(a, at[a]) /\ ren' = ren
        /\ \A b \in Attempts : b # a => at'[b] = at[b]
    BY <1>4 DEF WriteRename, Target
  <2>2. QED  BY <1>3, <2>1
<1>5. ASSUME NEW v \in Renewals, RenewRename(v) PROVE HandleInv'
  <2>1. /\ "cert" \in Names /\ "cert" = Target(v) /\ Rename(v, "cert") /\ at' = at
        /\ \A x \in Renewals : x # v => ren'[x] = ren[x]
    BY <1>5 DEF RenewRename, Target, Names
  <2>2. QED  BY <1>3, <2>1
<1>6. ASSUME NEW a \in Attempts, Dies(a) PROVE HandleInv'
  BY <1>6 DEF Dies, HandleInv, Target, hostVars
<1>7. ASSUME NEW v \in Renewals, RenewFails(v) PROVE HandleInv'
  BY <1>7 DEF RenewFails, HandleInv, Target, hostVars
<1>8. ASSUME NEW a \in Attempts, Ask(a) \/ Redeem(a) \/ Denied(a) \/ Persist(a) \/ Sign(a)
      PROVE HandleInv'
  <2>1. /\ at[a] \in {"idle", "asked", "redeemed", "granted"} /\ UNCHANGED hostVars
        /\ UNCHANGED ren /\ \A b \in Attempts : b # a => at'[b] = at[b]
    BY <1>8 DEF Ask, Redeem, Denied, Persist, Sign, Goes
  <2>2. io[a] = "closed"
    BY <2>1 DEF HandleInv, Names
  <2>3. QED  BY <2>1, <2>2 DEF HandleInv, Target, hostVars
<1>9. ASSUME NEW v \in Renewals, RenewAsk(v) \/ RenewCheck(v) \/ RenewSign(v) \/ RenewVerify(v)
      PROVE HandleInv'
  <2>1. /\ ren[v].at # "verified" /\ UNCHANGED hostVars /\ UNCHANGED at
        /\ \A x \in Renewals : x # v => ren'[x] = ren[x]
    BY <1>9 DEF RenewAsk, RenewCheck, RenewSign, RenewVerify
  <2>2. io[v] = "closed"
    BY <2>1 DEF HandleInv
  <2>3. QED  BY <2>1, <2>2 DEF HandleInv, Target, hostVars
<1>10. ASSUME UNCHANGED <<at, ren, hostVars>> PROVE HandleInv'
  BY <1>10 DEF HandleInv, Target, hostVars
<1>11. ASSUME NEW r \in Replicas,
              CaBegin(r) \/ CaTakeLock(r) \/ CaLoad(r) \/ CaGenerate(r)
                \/ CaInsert(r) \/ CaCommit(r) \/ ReplicaEnds(r)
       PROVE UNCHANGED <<at, ren, hostVars>>
  BY <1>11 DEF CaBegin, CaTakeLock, CaLoad, CaGenerate, CaInsert, CaCommit, ReplicaEnds
<1>12. QED
  BY <1>1, <1>2, <1>4, <1>5, <1>6, <1>7, <1>8, <1>9, <1>10, <1>11 DEF Next, MintCount,
     MintInsert, TokenExpires, Revoke, vars

(* One write of an undisturbed attempt takes its files one further, and the key
   makes them an identity; any other attempt's write finds no identity to spoil,
   or gives it up. *)
LEMMA StepWrite ==
  ASSUME TypeOK, CaInv, OriginInv, HandleInv, FilesInv, NEW a \in Attempts,
         WriteOpen(a) \/ WriteFill(a) \/ WriteRename(a)
  PROVE  FilesInv'
<1> USE EnrollAssumption, NoneIsNothing DEF TypeOK, HostType, FilesInv
<1>0. /\ at[a] \in Names /\ a \in Writers /\ a \notin Renewals
      /\ granted[a] \in issued /\ granted[a] \in Certs
      /\ granted[a].key = a /\ granted[a].host = a
  <2>1. at[a] \in Names
    BY DEF WriteOpen, WriteFill, WriteRename
  <2>2. QED  BY <2>1, ContentIs DEF Writers
<1>1. CASE WriteOpen(a)
  <2>1. /\ UNCHANGED <<file, at, granted, ren>>
        /\ tmp' = [tmp EXCEPT ![at[a]] = Empty] /\ io' = [io EXCEPT ![a] = "tmp"]
        /\ owner' = (IF Alone(a) /\ (at[a] = "cert" \/ owner = a) THEN a ELSE None)
        /\ mixed' = (mixed \/ file["key"] # None)
    BY <1>1 DEF WriteOpen, Open
  <2>2. SoleInv' /\ WholeIdentity'
    BY <2>1 DEF SoleInv, WholeIdentity
  <2>3. CASE owner' = None
    BY <2>2, <2>3 DEF OwnInv
  <2>4. CASE owner' # None
    <3>1. owner' = a /\ Alone(a) /\ (at[a] = "cert" \/ owner = a)
      BY <2>1, <2>4
    <3>2. \A x \in Writers : x # a => io'[x] = "closed"
      BY <1>0, <2>1, <3>1 DEF Alone
    <3>3. io'[a] = "tmp" /\ tmp'[at[a]] = Empty
      BY <1>0, <2>1
    <3>4. /\ at[a] \in {"ca", "host_id", "key"} => file["cert"] = granted[a]
          /\ at[a] \in {"host_id", "key"} => file["ca"] = granted[a].ca
          /\ at[a] = "key" => file["host_id"] = granted[a].host
      BY <3>1 DEF OwnInv
    <3>5. OwnInv'
      BY <1>0, <2>1, <3>1, <3>2, <3>3, <3>4 DEF OwnInv
    <3>6. QED  BY <2>2, <3>5
  <2>5. QED  BY <2>3, <2>4
<1>2. ASSUME io[a] # "closed" PROVE owner \in {None, a} /\ (file["key"] = None \/ mixed)
  BY <1>0, <1>2 DEF OwnInv, SoleInv
<1>3. CASE WriteFill(a)
  <2>1. UNCHANGED <<at, granted, ren, owner, mixed>> /\ Fill(a, at[a], Content(a, at[a]))
    BY <1>3 DEF WriteFill
  <2>2. io[a] # "closed" /\ io' = [io EXCEPT ![a] = "written"]
    BY <2>1 DEF Fill
  <2>3. file["key"] = None => file'["key"] = None
    <3>1. SUFFICES ASSUME file["key"] = None PROVE file'["key"] = None
      OBVIOUS
    <3>2. CASE io[a] = "file"
      <4>1. Target(a) = at[a] /\ file[at[a]] # None
        BY <1>0, <3>2 DEF HandleInv, Target
      <4>2. QED  BY <1>0, <2>1, <3>1, <3>2, <4>1 DEF Fill, Names
    <3>3. CASE io[a] # "file"
      BY <2>1, <3>1, <3>3 DEF Fill
    <3>4. QED  BY <3>2, <3>3
  <2>4. SoleInv' /\ WholeIdentity'
    BY <1>2, <2>1, <2>2, <2>3 DEF SoleInv, WholeIdentity
  <2>5. CASE owner = None
    BY <2>1, <2>4, <2>5 DEF OwnInv
  <2>6. CASE owner = a
    <3>1. io[a] = "tmp" /\ tmp[at[a]] = Empty
      BY <2>1, <2>6 DEF OwnInv, Fill
    <3>2. file' = file /\ tmp' = [tmp EXCEPT ![at[a]] = Content(a, at[a])]
      BY <2>1, <3>1 DEF Fill, Overlay
    <3>3. Content(a, at[a])' = Content(a, at[a])
      BY <2>1 DEF Content
    <3>4. /\ io'[a] = "written" /\ tmp'[at[a]] = Content(a, at[a])
          /\ \A x \in Writers : x # a => io'[x] = "closed"
      BY <1>0, <2>2, <2>6, <3>2 DEF OwnInv
    <3>5. OwnInv'
      <4>1. Content(owner', at'[owner']) = Content(a, at[a])
        BY <2>1, <2>6
      <4>2. Content(owner, at[owner])' = Content(a, at[a])
        BY <2>1, <2>6 DEF Content
      <4>3. QED  BY <1>0, <2>1, <2>6, <3>2, <3>4, <4>2 DEF OwnInv
    <3>6. QED  BY <2>4, <3>5
  <2>7. QED  BY <1>2, <2>2, <2>5, <2>6
<1>4. CASE WriteRename(a)
  <2>1. /\ io[a] = "written" /\ file' = [file EXCEPT ![at[a]] = tmp[at[a]]]
        /\ at' = [at EXCEPT ![a] = After(at[a])] /\ ren' = ren
        /\ owner' = (IF at[a] = "key" THEN None ELSE owner)
        /\ mixed' = (IF at[a] = "key" THEN owner # a ELSE mixed)
    BY <1>4 DEF WriteRename, Rename
  <2>2. /\ \A x \in Writers : io[x] = "closed" => io'[x] = "closed"
        /\ io'[a] = "closed"
    BY <1>0, <1>4 DEF WriteRename, Rename, Moved
  <2>3. owner = a => \A x \in Writers : io'[x] = "closed"
    BY <2>2 DEF OwnInv
  <2>4. owner = a => tmp[at[a]] = Content(a, at[a])
    BY <2>1 DEF OwnInv
  <2>5. CASE at[a] = "key"
    <3>1. OwnInv'
      BY <2>1, <2>5 DEF OwnInv
    <3>2. CASE owner # a
      BY <2>1, <2>5, <3>1, <3>2 DEF SoleInv, WholeIdentity
    <3>3. CASE owner = a
      <4>1. SoleInv'
        BY <2>3, <3>3 DEF SoleInv
      <4>2. file'["key"] = a
        BY <2>1, <2>4, <2>5, <3>3 DEF Content, Names
      <4>3. /\ file'["cert"] = granted[a] /\ file'["ca"] = granted[a].ca
            /\ file'["host_id"] = granted[a].host
        BY <2>1, <2>5, <3>3 DEF OwnInv, Names
      <4>4. WholeIdentity'
        BY <1>0, <4>2, <4>3 DEF WholeIdentity, Whole
      <4>5. QED  BY <3>1, <4>1, <4>4
    <3>4. QED  BY <3>2, <3>3
  <2>6. CASE at[a] # "key"
    <3>1. file'["key"] = file["key"] /\ mixed' = mixed /\ owner' = owner
      BY <1>0, <2>1, <2>6 DEF Names
    <3>2. SoleInv' /\ WholeIdentity'
      BY <1>2, <2>1, <3>1 DEF SoleInv, WholeIdentity
    <3>3. CASE owner = None
      BY <3>1, <3>2, <3>3 DEF OwnInv
    <3>4. CASE owner = a
      <4>1. granted' = granted
        BY <1>0, <1>4, <2>1, <2>6 DEF WriteRename, After, Names
      <4>2. at'[a] = After(at[a]) /\ at[a] \in {"cert", "ca", "host_id"}
        BY <1>0, <2>1, <2>6 DEF Names
      <4>3. \A x \in Writers : io'[x] = "closed"
        BY <2>3, <3>4
      <4>4. CASE at[a] = "cert"
        <5>1. at'[a] = "ca" /\ file'["cert"] = granted[a]
          BY <2>1, <2>4, <3>4, <4>2, <4>4 DEF After, Content, Names
        <5>2. QED  BY <1>0, <3>1, <3>2, <3>4, <4>1, <4>3, <5>1 DEF OwnInv, Names
      <4>5. CASE at[a] = "ca"
        <5>1. at'[a] = "host_id" /\ file'["ca"] = granted[a].ca /\ file'["cert"] = granted[a]
          BY <2>1, <2>4, <3>4, <4>2, <4>5 DEF After, Content, Names, OwnInv
        <5>2. QED  BY <1>0, <3>1, <3>2, <3>4, <4>1, <4>3, <5>1 DEF OwnInv, Names
      <4>6. CASE at[a] = "host_id"
        <5>1. /\ at'[a] = "key" /\ file'["host_id"] = granted[a].host
              /\ file'["ca"] = granted[a].ca /\ file'["cert"] = granted[a]
          BY <2>1, <2>4, <3>4, <4>2, <4>6 DEF After, Content, Names, OwnInv
        <5>2. QED  BY <1>0, <3>1, <3>2, <3>4, <4>1, <4>3, <5>1 DEF OwnInv, Names
      <4>7. QED  BY <4>2, <4>4, <4>5, <4>6
    <3>5. QED  BY <1>2, <2>1, <3>3, <3>4
  <2>7. QED  BY <2>5, <2>6
<1>5. QED  BY <1>1, <1>3, <1>4

(* A renewal that found nobody writing, and the key it was signed for in place,
   replaces the certificate of a whole identity by another of the same. *)
LEMMA StepRenewWrite ==
  ASSUME TypeOK, CaInv, OriginInv, HandleInv, FilesInv, NEW v \in Renewals,
         RenewOpen(v) \/ RenewFill(v) \/ RenewRename(v)
  PROVE  FilesInv'
<1> USE EnrollAssumption, NoneIsNothing DEF TypeOK, HostType, FilesInv
<1>0. v \in Writers /\ v \notin Attempts /\ ren[v].at = "verified" /\ v # owner
  <2>1. ren[v].at = "verified"
    BY RenewalWrites
  <2>2. QED  BY <2>1 DEF Writers
<1>1. /\ ren[v].cert \in issued /\ ren[v].cert \in Certs
      /\ ren[v].cert.key = ren[v].key /\ ren[v].cert.host = ren[v].key
      /\ ren[v].cert.ca = caRow
  BY <1>0 DEF OriginInv, CertType, CaInv
<1>2. CASE RenewOpen(v)
  <2>1. /\ UNCHANGED <<file, at, granted, ren>> /\ owner' = None
        /\ tmp' = [tmp EXCEPT !["cert"] = Empty] /\ io' = [io EXCEPT ![v] = "tmp"]
        /\ mixed' = (mixed \/ ren[v].key # file["key"] \/ ~Alone(v))
    BY <1>2 DEF RenewOpen, Open
  <2>2. OwnInv' /\ WholeIdentity'
    BY <2>1 DEF OwnInv, WholeIdentity, Whole
  <2>3. SoleInv'
    <3>1. SUFFICES ASSUME ~mixed' PROVE SoleInv'
      BY DEF SoleInv
    <3>2. ren[v].key = file["key"] /\ \A x \in Writers : x # v => io'[x] = "closed"
      BY <2>1, <3>1 DEF Alone
    <3>3. io'[v] = "tmp" /\ tmp'["cert"] = Empty
      BY <1>0, <2>1 DEF Names
    <3>4. QED  BY <2>1, <3>2, <3>3 DEF SoleInv
  <2>4. QED  BY <2>2, <2>3
<1>3. ASSUME io[v] # "closed" PROVE owner = None
  BY <1>0, <1>3 DEF OwnInv
<1>4. ASSUME io[v] # "closed", file["key"] # None, ~mixed
      PROVE  /\ ren[v].key = file["key"] /\ io[v] \in {"tmp", "written"}
             /\ \A x \in Writers : x # v => io[x] = "closed"
             /\ io[v] = "tmp" => tmp["cert"] = Empty
             /\ io[v] = "written" => tmp["cert"] = ren[v].cert
  BY <1>0, <1>4 DEF SoleInv
<1>5. CASE RenewFill(v)
  <2>1. /\ UNCHANGED <<at, granted, ren, owner, mixed>> /\ Fill(v, "cert", ren[v].cert)
        /\ io[v] # "closed" /\ io' = [io EXCEPT ![v] = "written"]
    BY <1>5 DEF RenewFill, Fill
  <2>2. OwnInv'
    BY <1>3, <2>1 DEF OwnInv
  <2>3. file'["key"] = file["key"]
    BY <2>1 DEF Fill, Names
  <2>4. SUFFICES ASSUME file["key"] # None, ~mixed PROVE SoleInv' /\ WholeIdentity'
    BY <2>1, <2>2, <2>3 DEF SoleInv, WholeIdentity
  <2>5. io[v] = "tmp" /\ tmp["cert"] = Empty
    BY <1>4, <2>1, <2>4 DEF Fill
  <2>6. file' = file /\ tmp'["cert"] = ren[v].cert
    BY <2>1, <2>5 DEF Fill, Overlay, Names
  <2>7. WholeIdentity'
    BY <2>1, <2>6 DEF WholeIdentity, Whole
  <2>8. \A x \in Writers : x # v => io'[x] = "closed"
    BY <1>4, <2>1, <2>4
  <2>9. io'[v] = "written"
    BY <1>0, <2>1
  <2>10. SoleInv'
    BY <1>4, <2>1, <2>4, <2>6, <2>8, <2>9 DEF SoleInv
  <2>11. QED  BY <2>7, <2>10
<1>6. CASE RenewRename(v)
  <2>1. /\ UNCHANGED <<at, granted, owner, mixed>> /\ io[v] = "written"
        /\ file' = [file EXCEPT !["cert"] = tmp["cert"]]
    BY <1>6 DEF RenewRename, Rename
  <2>2. OwnInv'
    BY <1>3, <2>1 DEF OwnInv
  <2>3. file'["key"] = file["key"]
    BY <2>1 DEF Names
  <2>4. SUFFICES ASSUME file["key"] # None, ~mixed PROVE SoleInv' /\ WholeIdentity'
    BY <2>1, <2>2, <2>3 DEF SoleInv, WholeIdentity
  <2>5. tmp["cert"] = ren[v].cert /\ ren[v].key = file["key"]
    BY <1>4, <2>1, <2>4
  <2>6. \A x \in Writers : io'[x] = "closed"
    BY <1>0, <1>4, <1>6, <2>1, <2>4 DEF RenewRename, Rename, Moved
  <2>7. /\ file'["cert"] = ren[v].cert /\ file'["host_id"] = file["host_id"]
        /\ file'["ca"] = file["ca"]
    BY <2>1, <2>5 DEF Names
  <2>8. file["host_id"] = file["key"] /\ file["ca"] = caRow
    BY <2>4 DEF WholeIdentity, Whole, OriginInv, CaInv
  <2>9. WholeIdentity'
    BY <1>1, <2>3, <2>5, <2>7, <2>8 DEF WholeIdentity, Whole
  <2>10. QED  BY <2>6, <2>9 DEF SoleInv
<1>7. QED  BY <1>2, <1>5, <1>6

(* The files stay what they are in every step that is not a write. *)
LEMMA StepFiles ==
  ASSUME TypeOK, CaInv, OriginInv, HandleInv, FilesInv, [Next]_vars
  PROVE  FilesInv'
<1> USE EnrollAssumption, NoneIsNothing DEF TypeOK, HostType, FilesInv
<1>1. ASSUME NEW a \in Attempts, Ask(a) \/ Redeem(a) \/ Denied(a) \/ Persist(a) \/ Sign(a)
      PROVE FilesInv'
  <2>1. /\ at[a] \in {"idle", "asked", "redeemed", "granted"} /\ UNCHANGED hostVars
        /\ UNCHANGED ren
    BY <1>1 DEF Ask, Redeem, Denied, Persist, Sign, Goes
  <2>2. \A b \in Attempts : b # a => at'[b] = at[b] /\ granted'[b] = granted[b]
    BY <1>1 DEF Ask, Redeem, Denied, Persist, Sign, Goes
  <2>3. owner # None => owner # a /\ owner \in Attempts
    BY <2>1 DEF OwnInv, Names
  <2>4. OwnInv'
    BY <2>1, <2>2, <2>3 DEF OwnInv, Content, hostVars
  <2>5. SoleInv' /\ WholeIdentity'
    BY <2>1 DEF SoleInv, WholeIdentity, Whole, hostVars
  <2>6. QED  BY <2>4, <2>5
<1>2. ASSUME NEW a \in Attempts, Dies(a) PROVE FilesInv'
  <2>1. /\ UNCHANGED <<file, tmp, owner, mixed, ren>> /\ io' = [io EXCEPT ![a] = "closed"]
        /\ at' = [at EXCEPT ![a] = "failed"] /\ granted' = [granted EXCEPT ![a] = None]
    BY <1>2 DEF Dies
  <2>2. /\ io'[a] = "closed" /\ \A x \in Writers : x # a => io'[x] = io[x]
        /\ \A b \in Attempts : b # a => at'[b] = at[b] /\ granted'[b] = granted[b]
    BY <2>1 DEF Writers
  <2>3. SoleInv' /\ WholeIdentity'
    BY <2>1, <2>2 DEF SoleInv, WholeIdentity, Whole
  <2>4. owner = None => OwnInv'
    BY <2>1 DEF OwnInv
  <2>5. owner = a => OwnInv'
    BY <2>1, <2>2 DEF OwnInv, Names
  <2>6. ASSUME owner # None, owner # a PROVE OwnInv'
    <3>1. owner' = owner /\ owner \in Attempts /\ owner \in Writers
      BY <2>1, <2>6 DEF Writers
    <3>2. /\ at'[owner] = at[owner] /\ granted'[owner] = granted[owner]
          /\ io'[owner] = io[owner] /\ UNCHANGED <<file, tmp>>
      BY <2>1, <2>2, <2>6, <3>1
    <3>3. Content(owner, at[owner])' = Content(owner, at[owner])
      BY <3>1, <3>2 DEF Content
    <3>4. \A x \in Writers : x # owner => io'[x] = "closed"
      BY <2>2, <2>6 DEF OwnInv
    <3>5. QED  BY <2>6, <3>1, <3>2, <3>3, <3>4 DEF OwnInv
  <2>7. QED  BY <2>3, <2>4, <2>5, <2>6
<1>3. ASSUME NEW v \in Renewals, RenewFails(v) PROVE FilesInv'
  <2>1. /\ UNCHANGED <<file, tmp, owner, mixed, at, granted>>
        /\ io' = [io EXCEPT ![v] = "closed"] /\ ren' = [ren EXCEPT ![v] = Idle]
    BY <1>3 DEF RenewFails
  <2>2. /\ io'[v] = "closed" /\ \A x \in Writers : x # v => io'[x] = io[x]
        /\ \A x \in Renewals : x # v => ren'[x] = ren[x]
    BY <2>1 DEF Writers
  <2>3. owner # v
    OBVIOUS
  <2>4. OwnInv'
    BY <2>1, <2>2, <2>3 DEF OwnInv, Content, Writers
  <2>5. SoleInv' /\ WholeIdentity'
    BY <2>1, <2>2 DEF SoleInv, WholeIdentity, Whole
  <2>6. QED  BY <2>4, <2>5
<1>4. ASSUME NEW v \in Renewals, RenewAsk(v) \/ RenewCheck(v) \/ RenewSign(v) \/ RenewVerify(v)
      PROVE FilesInv'
  <2>1. /\ ren[v].at # "verified" /\ UNCHANGED hostVars /\ UNCHANGED <<at, granted>>
        /\ \A x \in Renewals : x # v => ren'[x] = ren[x]
    <3>1. CASE RenewAsk(v)  BY <3>1 DEF RenewAsk
    <3>2. CASE RenewCheck(v)  BY <3>2 DEF RenewCheck
    <3>3. CASE RenewSign(v)  BY <3>3 DEF RenewSign
    <3>4. CASE RenewVerify(v)  BY <3>4 DEF RenewVerify
    <3>5. QED  BY <1>4, <3>1, <3>2, <3>3, <3>4
  <2>2. io[v] = "closed"
    BY <2>1 DEF HandleInv
  <2>3. OwnInv' /\ WholeIdentity'
    BY <2>1 DEF OwnInv, Content, WholeIdentity, Whole, hostVars
  <2>4. SoleInv'
    BY <2>1, <2>2 DEF SoleInv, hostVars
  <2>5. QED  BY <2>3, <2>4
<1>5. ASSUME UNCHANGED <<at, granted, hostVars, ren>> PROVE FilesInv'
  BY <1>5 DEF OwnInv, Content, SoleInv, WholeIdentity, Whole, hostVars
<1>6. ASSUME NEW r \in Replicas,
             CaBegin(r) \/ CaTakeLock(r) \/ CaLoad(r) \/ CaGenerate(r)
               \/ CaInsert(r) \/ CaCommit(r) \/ ReplicaEnds(r)
      PROVE UNCHANGED <<at, granted, hostVars, ren>>
  BY <1>6 DEF CaBegin, CaTakeLock, CaLoad, CaGenerate, CaInsert, CaCommit, ReplicaEnds
<1>7. ASSUME NEW t \in Tokens, MintCount(t) \/ MintInsert(t) \/ TokenExpires(t)
      PROVE UNCHANGED <<at, granted, hostVars, ren>>
  BY <1>7 DEF MintCount, MintInsert, TokenExpires
<1>8. ASSUME NEW h, Revoke(h) PROVE UNCHANGED <<at, granted, hostVars, ren>>
  BY <1>8 DEF Revoke
<1>9. CASE UNCHANGED vars
  BY <1>5, <1>9 DEF vars
<1> HIDE DEF FilesInv, TypeOK, HostType
<1>10. CASE Next
  BY <1>1, <1>2, <1>3, <1>4, <1>5, <1>6, <1>7, <1>8, <1>10, StepWrite, StepRenewWrite DEF Next
<1>11. QED  BY <1>9, <1>10

(* EnrollInv is inductive: it holds in every reachable state. *)
LEMMA Inductive == Spec => []EnrollInv
<1>1. EnrollInv /\ [Next]_vars => EnrollInv'
  BY StepType, StepCa, StepToken, StepOrigin, StepHandle, StepFiles DEF EnrollInv
<1>2. QED  BY InitInv, <1>1, PTL DEF Spec

(* ca.rs load_or_generate: whatever the isolation level, the interleaving of
   starts and the crashes, every replica that serves holds the CA of the row,
   and every certificate ever issued is signed by it. *)
THEOREM OneSharedCa == Spec => []OneCa
<1>1. EnrollInv => OneCa
  BY DEF EnrollInv, CaInv, OneCa
<1>2. QED  BY Inductive, <1>1, PTL

(* service.rs renew and enroll: for every number of attempts, renewals and
   replicas, no certificate binds a host_id to a key other than the one it was
   enrolled with. *)
THEOREM HostKeepsItsKey == Spec => []HostKeyBinding
<1>1. EnrollInv => HostKeyBinding
  BY DEF EnrollInv, OriginInv, HostKeyBinding
<1>2. QED  BY Inductive, <1>1, PTL

(* token.rs redeem: a token is burnt by at most one of the attempts that
   present it, so certificates of two hosts never come from one token. *)
THEOREM TokenEnrolsOne == Spec => []OneIdentityPerToken
<1>1. EnrollInv => OneIdentityPerToken
  <2> SUFFICES ASSUME EnrollInv, NEW c \in issued, NEW d \in issued, c.host # d.host
               PROVE  TokenOf[c.host] # TokenOf[d.host]
    BY DEF OneIdentityPerToken
  <2>1. c.host \in Attempts /\ d.host \in Attempts
    BY DEF EnrollInv, TypeOK, CertType, Certs
  <2>2. Used(c.host) /\ Used(d.host)
    BY DEF Used
  <2>3. QED  BY <2>1, <2>2 DEF EnrollInv, TokenInv
<1>2. QED  BY Inductive, <1>1, PTL

(* enroll.rs persist, renew and write_atomic: the key file appears last, so that
   a key on disk stands for files of one identity, through crashes between any
   two calls and renewals one after the other, for any number of processes.  It
   says nothing of the time after a forced enrolment has begun to overwrite an
   identity or a renewal has opened the temporary file beside another writer,
   until one enrolment has written its four files undisturbed. *)
THEOREM KeyMarksIdentity == Spec => []WholeIdentity
<1>1. EnrollInv => WholeIdentity
  BY DEF EnrollInv, FilesInv
<1>2. QED  BY Inductive, <1>1, PTL
=============================================================================
