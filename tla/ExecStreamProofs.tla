-------------------------- MODULE ExecStreamProofs --------------------------
(* Proofs about ExecStream: what an operator sees of a job, and what he knows   *)
(* when his stream ends, for any calls, hosts, sessions, queue sizes and limits.*)
EXTENDS ExecStream, SequenceTheorems, TLAPS

-----------------------------------------------------------------------------
(* The invariant.                                                              *)

Msg == [sid : Nat, seq : Nat, job : Jobs, item : 1..Chunks \union {Exit}]

TypeInv ==
  /\ plan \in Plans
  /\ todo \in [Calls -> Seq(Jobs)] /\ cmds \in Seq(Jobs)
  /\ pending \in SUBSET Jobs /\ overdue \in SUBSET pending
  /\ sid \in [Hosts -> Nat] /\ sidOf \in [Jobs -> Nat] /\ seq \in [Hosts -> Nat \ {0}]
  /\ stage \in [Jobs -> {"new", "sent", "run", "over"}]
  /\ sealed \in [Jobs -> 0..(Chunks + 1)] /\ hand \in [Jobs -> Nat]
  /\ up \in [Hosts -> Seq(Msg)]
  /\ got \in [Jobs -> Seq(1..Chunks \union {Exit, Error})]

\* Jobs whose dispatch has not been decided yet.
Waiting(c) == Range(todo[c]) \union Range(cmds)
AllWaiting == Range(cmds) \union UNION {Range(todo[c]) : c \in Calls}

\* A job is in one place at most: with its fan-out task, in the bridge's command
\* queue, or pending.
PlaceInv ==
  /\ IsInjective(cmds) /\ Range(cmds) \intersect pending = {}
  /\ \A c \in Calls :
       /\ IsInjective(todo[c]) /\ Range(todo[c]) \subseteq JobsOf(c)
       /\ Range(todo[c]) \intersect (Range(cmds) \union pending) = {}
  /\ \A j \in AllWaiting : stage[j] = "new" /\ got[j] = <<>>

\* How far the agent is with a job.
AgentInv ==
  \A j \in Jobs :
    /\ stage[j] \in {"new", "sent"} => sealed[j] = 0
    /\ hand[j] # 0 => stage[j] = "run" /\ sealed[j] > 0
    /\ stage[j] = "run" /\ hand[j] = 0 => sealed[j] <= Chunks

\* A result that was sealed, and is not in a task's hand any more.
Past(j, item) ==
  IF item = Exit THEN sealed[j] = Chunks + 1 /\ stage[j] = "over"
  ELSE item <= sealed[j] /\ (hand[j] # 0 => item < sealed[j])

\* x before y in the results of one job.
Before(x, y) == ~Terminal(x) /\ (~Terminal(y) => x < y)

\* The uplink has a job's results in order.
UpInv ==
  \A h \in Hosts : \A i \in DOMAIN up[h] :
    /\ HostOf[up[h][i].job] = h
    /\ Past(up[h][i].job, up[h][i].item)
    /\ \A k \in DOMAIN up[h] :
         i < k /\ up[h][i].job = up[h][k].job => Before(up[h][i].item, up[h][k].item)

\* What the operator has of a job is before all that is still on its way, and a job
\* that is pending has no terminal event.
GotInv ==
  \A j \in Jobs : \A n \in DOMAIN got[j] :
    /\ j \in pending => ~Terminal(got[j][n])
    /\ got[j][n] # Error => Past(j, got[j][n])
    /\ ~Terminal(got[j][n]) =>
         \A h \in Hosts : \A i \in DOMAIN up[h] :
            up[h][i].job = j => Before(got[j][n], up[h][i].item)

\* An operator who stays and keeps up is told of every job that is nowhere any more.
ToldInv ==
  \A c \in Calls : open[c] /\ ~lagged[c] =>
    \A j \in JobsOf(c) :
      \/ j \in Waiting(c) \union pending
      \/ \E n \in DOMAIN got[j] : Terminal(got[j][n])

ExecInv ==
  TypeInv /\ PlaceInv /\ AgentInv /\ UpInv /\ GotInv /\ ToldInv /\ WellFormedStream

-----------------------------------------------------------------------------
(* Sequences.                                                                  *)

(* What is left of a queue without repetition when its head is taken. *)
LEMMA RangeTail ==
  ASSUME NEW S, NEW s \in Seq(S), s # <<>>, IsInjective(s)
  PROVE  /\ Head(s) \in S /\ Head(s) \in Range(s) /\ Tail(s) \in Seq(S)
         /\ Range(Tail(s)) = Range(s) \ {Head(s)} /\ IsInjective(Tail(s))
<1>1. /\ Tail(s) \in Seq(S) /\ Len(s) >= 1 /\ Len(s) \in Nat
      /\ DOMAIN s = 1..Len(s) /\ DOMAIN Tail(s) = 1..(Len(s) - 1)
      /\ \A i \in 1..(Len(s) - 1) : Tail(s)[i] = s[i + 1]
      /\ Head(s) = s[1] /\ Head(s) \in S
  OBVIOUS
<1>2. IsInjective(Tail(s))
  BY <1>1 DEF IsInjective
<1>3. Range(Tail(s)) \subseteq Range(s) \ {Head(s)}
  BY <1>1 DEF IsInjective, Range
<1>4. ASSUME NEW x \in Range(s) \ {Head(s)} PROVE x \in Range(Tail(s))
  <2>1. PICK i \in 1..Len(s) : s[i] = x
    BY <1>1 DEF Range
  <2>2. i - 1 \in 1..(Len(s) - 1) /\ Tail(s)[i - 1] = x
    BY <1>1, <2>1
  <2>3. QED  BY <1>1, <2>2 DEF Range
<1>5. QED  BY <1>1, <1>2, <1>3, <1>4 DEF Range

(* And when something new is put at its end. *)
LEMMA RangeAppend ==
  ASSUME NEW S, NEW s \in Seq(S), NEW x \in S
  PROVE  /\ Append(s, x) \in Seq(S) /\ Range(Append(s, x)) = Range(s) \union {x}
         /\ IsInjective(s) /\ x \notin Range(s) => IsInjective(Append(s, x))
<1>1. /\ Append(s, x) \in Seq(S) /\ Len(s) \in Nat
      /\ DOMAIN s = 1..Len(s) /\ DOMAIN Append(s, x) = 1..(Len(s) + 1)
      /\ \A i \in 1..Len(s) : Append(s, x)[i] = s[i]
      /\ Append(s, x)[Len(s) + 1] = x
  OBVIOUS
<1>2. \A i \in 1..(Len(s) + 1) : i \in 1..Len(s) \/ i = Len(s) + 1
  BY <1>1
<1>3. Range(Append(s, x)) = Range(s) \union {x}
  BY <1>1, <1>2 DEF Range
<1>4. IsInjective(s) /\ x \notin Range(s) => IsInjective(Append(s, x))
  BY <1>1, <1>2 DEF IsInjective, Range
<1>5. QED  BY <1>1, <1>3, <1>4

(* An element of a tail is the next one of the sequence. *)
LEMMA TailElement ==
  ASSUME NEW S, NEW s \in Seq(S), s # <<>>
  PROVE  /\ Tail(s) \in Seq(S) /\ Head(s) \in S /\ 1 \in DOMAIN s /\ Head(s) = s[1]
         /\ \A i \in DOMAIN Tail(s) :
              i \in Nat /\ i > 0 /\ i + 1 \in DOMAIN s /\ Tail(s)[i] = s[i + 1]
  OBVIOUS

(* An element of a longer sequence is an old one or the new one. *)
LEMMA AppendElement ==
  ASSUME NEW S, NEW s \in Seq(S), NEW x \in S
  PROVE  /\ Append(s, x) \in Seq(S) /\ Len(s) \in Nat /\ DOMAIN s = 1..Len(s)
         /\ DOMAIN Append(s, x) = 1..(Len(s) + 1) /\ Append(s, x)[Len(s) + 1] = x
         /\ \A i \in DOMAIN Append(s, x) :
              \/ i \in DOMAIN s /\ Append(s, x)[i] = s[i] /\ i < Len(s) + 1
              \/ i = Len(s) + 1 /\ Append(s, x)[i] = x
         /\ \A i \in DOMAIN s : i \in DOMAIN Append(s, x) /\ Append(s, x)[i] = s[i]
  OBVIOUS

-----------------------------------------------------------------------------
(* Telling the operator.                                                       *)

Items == 1..Chunks \union {Exit, Error}

\* What TrySend does to what an operator has, and when it marks him as lagging.
Tells(S, item, told) ==
  /\ \A j \in Jobs : got'[j] = IF j \in told THEN Append(got[j], item) ELSE got[j]
  /\ \A c \in Calls : (open'[c] /\ ~lagged'[c]) => (open[c] /\ ~lagged[c])
  /\ \A c \in Calls : \A j \in S \intersect JobsOf(c) : (open'[c] /\ ~lagged'[c]) => j \in told

(* An event that finds no room marks its call (try_send). *)
LEMMA TrySendTells ==
  ASSUME TypeInv, NEW S, NEW told, NEW item \in Items, TrySend(S, item, told)
  PROVE  Tells(S, item, told) /\ got' \in [Jobs -> Seq(Items)]
<1> DEFINE live(c) == {j \in S \intersect JobsOf(c) : open[c]}
<1>1. /\ got' = [j \in Jobs |-> IF j \in told THEN Append(got[j], item) ELSE got[j]]
      /\ lagged' = [c \in Calls |-> lagged[c] \/ live(c) \ told # {}]
      /\ open' = open
  BY DEF TrySend
<1>2. \A c \in Calls : lagged'[c] <=> (lagged[c] \/ live(c) \ told # {})
  BY <1>1
<1>3. \A c \in Calls : \A j \in S \intersect JobsOf(c) : open[c] /\ ~lagged'[c] => j \in told
  BY <1>2
<1>4. \A j \in Jobs : got[j] \in Seq(Items) /\ Append(got[j], item) \in Seq(Items)
  <2>1. ASSUME NEW j \in Jobs PROVE got[j] \in Seq(Items)
    BY DEF TypeInv, Items
  <2>2. QED  BY <2>1, AppendElement
<1>5. got' \in [Jobs -> Seq(Items)]
  BY <1>1, <1>4
<1>6. \A j \in Jobs : got'[j] = IF j \in told THEN Append(got[j], item) ELSE got[j]
  BY <1>1
<1>7. \A c \in Calls : (open'[c] /\ ~lagged'[c]) => (open[c] /\ ~lagged[c])
  BY <1>1, <1>2
<1>8. \A c \in Calls : \A j \in S \intersect JobsOf(c) : (open'[c] /\ ~lagged'[c]) => j \in told
  BY <1>1, <1>3
<1>9. QED  BY <1>5, <1>6, <1>7, <1>8 DEF Tells

\* Messages of the uplink are only taken away.
UpShrinks ==
  /\ up' \in [Hosts -> Seq(Msg)]
  /\ \A h \in Hosts : \A i \in DOMAIN up'[h] : \E k \in DOMAIN up[h] : up'[h][i] = up[h][k]

\* The jobs that a step decides are told, and leave for no other reason.
Settles(S, item, told) ==
  /\ pending' \subseteq pending /\ overdue' \subseteq pending'
  /\ Terminal(item) => S \intersect pending' = {}
  /\ \A c \in Calls : Waiting(c)' \subseteq Waiting(c) /\ S \intersect Waiting(c)' = {}
  /\ \A c \in Calls : \A j \in JobsOf(c) \intersect (Waiting(c) \union pending) :
       \/ j \in Waiting(c)' \union pending'
       \/ j \in S /\ (j \in told => Terminal(item))

\* The event follows what the operator has of the job, and precedes what is on its way.
Follows(S, item) ==
  \A j \in S :
    /\ \A n \in DOMAIN got[j] : Before(got[j][n], item)
    /\ item # Error => Past(j, item)
    /\ ~Terminal(item) =>
         \A h \in Hosts : \A i \in DOMAIN up'[h] :
           up'[h][i].job = j => Before(item, up'[h][i].item)

(* Events in order keep the operator's view in order. *)
LEMMA TellStep ==
  ASSUME ExecInv, NEW S \in SUBSET Jobs, NEW told \in SUBSET S, NEW item \in Items,
         Tells(S, item, told), got' \in [Jobs -> Seq(Items)], Settles(S, item, told),
         Follows(S, item), UpShrinks, UNCHANGED <<plan, stage, sealed, hand>>
  PROVE  GotInv' /\ ToldInv' /\ WellFormedStream'
<1>0. /\ \A j \in Jobs : got[j] \in Seq(Items)
      /\ \A j, x : Past(j, x)' = Past(j, x)
      /\ \A c : JobsOf(c)' = JobsOf(c)
  BY DEF ExecInv, TypeInv, Items, Past, JobsOf, Fan
<1>1. \A j \in Jobs \ told : got'[j] = got[j]
  BY DEF Tells
<1>2. \A j \in told : got'[j] = Append(got[j], item)
  BY DEF Tells
<1>3. WellFormedStream'
  <2>1. ASSUME NEW j \in Jobs, NEW m \in DOMAIN got'[j], NEW n \in DOMAIN got'[j], m < n
        PROVE  Before(got'[j][m], got'[j][n])
    <3>1. CASE j \notin told
      BY <1>1, <2>1, <3>1 DEF ExecInv, WellFormedStream, Before
    <3>2. CASE j \in told
      <4>1. /\ got'[j] = Append(got[j], item) /\ got[j] \in Seq(Items)
        BY <1>0, <1>2, <3>2
      <4>2. m \in DOMAIN got[j] /\ got'[j][m] = got[j][m]
        BY <2>1, <4>1, AppendElement
      <4>3. CASE n \in DOMAIN got[j] /\ got'[j][n] = got[j][n]
        BY <2>1, <4>2, <4>3 DEF ExecInv, WellFormedStream, Before
      <4>4. CASE got'[j][n] = item
        BY <3>2, <4>2, <4>4 DEF Follows
      <4>5. QED  BY <4>1, <4>3, <4>4, AppendElement
    <3>3. QED  BY <3>1, <3>2
  <2>2. QED  BY <2>1 DEF WellFormedStream, Before
<1>4. GotInv'
  <2>1. ASSUME NEW j \in Jobs, NEW n \in DOMAIN got'[j]
        PROVE  /\ j \in pending' => ~Terminal(got'[j][n])
               /\ got'[j][n] # Error => Past(j, got'[j][n])
               /\ ~Terminal(got'[j][n]) =>
                    \A h \in Hosts : \A i \in DOMAIN up'[h] :
                      up'[h][i].job = j => Before(got'[j][n], up'[h][i].item)
    <3>1. CASE n \in DOMAIN got[j] /\ got'[j][n] = got[j][n]
      <4>1. /\ j \in pending => ~Terminal(got[j][n])
            /\ got[j][n] # Error => Past(j, got[j][n])
            /\ ~Terminal(got[j][n]) =>
                 \A h \in Hosts : \A i \in DOMAIN up[h] :
                   up[h][i].job = j => Before(got[j][n], up[h][i].item)
        BY <3>1 DEF ExecInv, GotInv
      <4>2. QED  BY <3>1, <4>1 DEF Settles, UpShrinks
    <3>2. CASE j \in told /\ got'[j][n] = item
      BY <3>2 DEF Settles, Follows
    <3>3. QED
      <4>1. CASE j \notin told
        BY <1>1, <2>1, <3>1, <4>1
      <4>2. CASE j \in told
        BY <1>0, <1>2, <2>1, <3>1, <3>2, <4>2, AppendElement
      <4>3. QED  BY <4>1, <4>2
  <2>2. QED  BY <1>0, <2>1 DEF GotInv
<1>5. ToldInv'
  <2> SUFFICES ASSUME NEW c \in Calls, open'[c], ~lagged'[c], NEW j \in JobsOf(c),
                      j \notin Waiting(c)' \union pending'
               PROVE  \E n \in DOMAIN got'[j] : Terminal(got'[j][n])
    BY <1>0 DEF ToldInv
  <2>0. j \in Jobs /\ open[c] /\ ~lagged[c]
    <3>1. Range(plan.fan[c]) \subseteq Jobs
      BY ExecAssumption DEF ExecInv, TypeInv, Range
    <3>2. QED  BY <3>1 DEF Tells, JobsOf, Fan
  <2>1. CASE \E n \in DOMAIN got[j] : Terminal(got[j][n])
    <3>1. PICK n \in DOMAIN got[j] : Terminal(got[j][n])
      BY <2>1
    <3>2. n \in DOMAIN got'[j] /\ got'[j][n] = got[j][n]
      BY <1>0, <1>1, <1>2, <2>0, <3>1, AppendElement, SMTT(40)
    <3>3. QED  BY <3>1, <3>2
  <2>2. CASE j \in Waiting(c) \union pending
    <3>1. j \in S /\ (j \in told => Terminal(item))
      BY <2>2 DEF Settles
    <3>2. j \in told /\ Terminal(item)
      BY <3>1 DEF Tells
    <3>3. got'[j] = Append(got[j], item) /\ got[j] \in Seq(Items)
      BY <1>0, <1>2, <2>0, <3>2
    <3>4. Len(got[j]) + 1 \in DOMAIN got'[j] /\ got'[j][Len(got[j]) + 1] = item
      BY <3>3, AppendElement
    <3>5. QED  BY <3>2, <3>4
  <2>3. QED  BY <2>0, <2>1, <2>2 DEF ExecInv, ToldInv
<1>6. QED  BY <1>3, <1>4, <1>5

-----------------------------------------------------------------------------
(* The agent's steps.                                                          *)

(* Jobs that wait are jobs. *)
LEMMA WaitingJobs ==
  ASSUME TypeInv, NEW c \in Calls
  PROVE  Waiting(c) \subseteq Jobs /\ JobsOf(c) \subseteq Jobs
<1>1. ASSUME NEW s \in Seq(Jobs) PROVE Range(s) \subseteq Jobs
  BY DEF Range
<1>2. todo[c] \in Seq(Jobs) /\ cmds \in Seq(Jobs) /\ Fan[c] \in Seq(Jobs)
  BY ExecAssumption DEF TypeInv, Fan
<1>3. QED  BY <1>1, <1>2 DEF Waiting, JobsOf

(* The same for all calls. *)
LEMMA AllWaitingJobs ==
  ASSUME TypeInv
  PROVE  AllWaiting \subseteq Jobs
<1>1. \A c \in Calls : Range(todo[c]) \subseteq Jobs
  BY WaitingJobs DEF Waiting
<1>2. Range(cmds) \subseteq Jobs
  BY DEF TypeInv, Range
<1>3. QED  BY <1>1, <1>2 DEF AllWaiting

\* Nobody is told and no job leaves.
Silent ==
  /\ UNCHANGED <<plan, up, got>>
  /\ \A c \in Calls : open'[c] /\ ~lagged'[c] => open[c] /\ ~lagged[c]
  /\ \A j \in pending' : j \in pending \/ got[j] = <<>>
  /\ \A c \in Calls : \A j \in JobsOf(c) \intersect (Waiting(c) \union pending) :
       j \in Waiting(c)' \union pending'

(* Steps that tell the operator nothing and publish nothing: what was sealed stays
   sealed. *)
LEMMA QuietStep ==
  ASSUME ExecInv, TypeInv', PlaceInv', AgentInv', Silent,
         \A j \in Jobs : \A x \in Items : Past(j, x) => Past(j, x)'
  PROVE  ExecInv'
<1>0. TypeInv /\ UNCHANGED <<plan, up, got>>
  BY DEF ExecInv, Silent
<1>1. UpInv'
  <2>1. \A h \in Hosts : \A i \in DOMAIN up[h] : up[h][i].job \in Jobs /\ up[h][i].item \in Items
    <3>1. ASSUME NEW h \in Hosts, NEW i \in DOMAIN up[h] PROVE up[h][i] \in Msg
      <4>1. up[h] \in Seq(Msg)
        BY <1>0 DEF TypeInv
      <4>2. QED  BY <4>1
    <3>2. QED  BY <3>1 DEF Msg, Items
  <2>2. QED  BY <1>0, <2>1 DEF ExecInv, UpInv, HostOf
<1>2. GotInv'
  <2>1. \A j \in Jobs : \A n \in DOMAIN got[j] : got[j][n] \in Items /\ got[j] # <<>>
    BY <1>0 DEF TypeInv, Items
  <2>2. QED  BY <1>0, <2>1 DEF ExecInv, GotInv, Silent
<1>3. ToldInv'
  <2> SUFFICES ASSUME NEW c \in Calls, open'[c], ~lagged'[c], NEW j \in JobsOf(c),
                      j \notin Waiting(c)' \union pending'
               PROVE  \E n \in DOMAIN got[j] : Terminal(got[j][n])
    BY <1>0 DEF ToldInv, JobsOf, Fan
  <2>1. open[c] /\ ~lagged[c] /\ j \notin Waiting(c) \union pending
    BY DEF Silent
  <2>2. QED  BY <2>1 DEF ExecInv, ToldInv
<1>4. WellFormedStream'
  BY <1>0 DEF ExecInv, WellFormedStream
<1>5. QED  BY <1>1, <1>2, <1>3, <1>4 DEF ExecInv

(* The same for the agent, which leaves the coordinator alone. *)
LEMMA AgentQuiet ==
  ASSUME ExecInv, TypeInv', AgentInv', UNCHANGED <<plan, fanVars, jobsVars, up, got, open, lagged>>,
         \A j \in Jobs : \A x \in Items : Past(j, x) => Past(j, x)',
         \A j \in Jobs : stage[j] = "new" => stage'[j] = "new"
  PROVE  ExecInv'
<1>0. TypeInv /\ UNCHANGED <<plan, todo, cmds, pending, overdue, up, got, open, lagged>>
  BY DEF ExecInv, fanVars, jobsVars
<1>1. \A c : JobsOf(c)' = JobsOf(c) /\ Waiting(c)' = Waiting(c)
  BY <1>0 DEF JobsOf, Fan, Waiting
<1>2. PlaceInv'
  BY <1>0, <1>1, AllWaitingJobs DEF ExecInv, PlaceInv, AllWaiting
<1>3. Silent
  BY <1>0, <1>1 DEF Silent
<1>4. QED  BY <1>2, <1>3, QuietStep

(* A dispatch arrives or is lost. *)
LEMMA DispatchArrives ==
  ASSUME ExecInv, NEW j \in Jobs, UNCHANGED plan, AgentStarts(j) \/ DispatchLost(j)
  PROVE  ExecInv'
<1>1. /\ TypeInv /\ AgentInv /\ stage[j] = "sent"
      /\ UNCHANGED <<fanVars, jobsVars, sessVars, sidOf, agentSid, seq, sealed, hand, up, opVars>>
      /\ stage' = [stage EXCEPT ![j] = "run"] \/ stage' = [stage EXCEPT ![j] = "over"]
  BY DEF ExecInv, AgentStarts, DispatchLost
<1>2. \A i \in Jobs : i # j => stage'[i] = stage[i]
  BY <1>1 DEF TypeInv
<1>3. stage'[j] \in {"run", "over"} /\ sealed[j] = 0 /\ hand[j] = 0
  BY <1>1 DEF TypeInv, AgentInv
<1>4. TypeInv'
  BY <1>1 DEF TypeInv, fanVars, jobsVars, sessVars, opVars
<1>5. AgentInv'
  BY <1>1, <1>2, <1>3, ExecAssumption DEF AgentInv, TypeInv
<1>6. \A i \in Jobs : \A x \in Items : Past(i, x) => Past(i, x)'
  BY <1>1, <1>2, <1>3 DEF Past
<1>7. QED  BY <1>1, <1>2, <1>4, <1>5, <1>6, AgentQuiet DEF opVars

(* A result is sealed. *)
LEMMA SealStep ==
  ASSUME ExecInv, NEW j \in Jobs, UNCHANGED plan, Seal(j)
  PROVE  ExecInv'
<1> DEFINE h == HostOf[j]
<1>1. /\ TypeInv /\ AgentInv /\ stage[j] = "run" /\ hand[j] = 0
      /\ hand' = [hand EXCEPT ![j] = seq[h]]
      /\ seq' = [seq EXCEPT ![h] = @ + 1]
      /\ sealed' = [sealed EXCEPT ![j] = @ + 1]
      /\ UNCHANGED <<fanVars, jobsVars, sessVars, stage, sidOf, agentSid, up, opVars>>
  BY DEF ExecInv, Seal
<1>2. h \in Hosts
  BY <1>1, ExecAssumption DEF TypeInv, HostOf
<1>3. sealed[j] \in Nat /\ sealed[j] <= Chunks /\ Chunks \in Nat /\ seq[h] \in Nat \ {0}
  BY <1>1, <1>2, ExecAssumption DEF TypeInv, AgentInv
<1>4. /\ \A i \in Jobs : i # j => hand'[i] = hand[i] /\ sealed'[i] = sealed[i]
      /\ hand'[j] = seq[h] /\ sealed'[j] = sealed[j] + 1
  BY <1>1 DEF TypeInv
<1>5. TypeInv'
  <2>1. hand' \in [Jobs -> Nat] /\ sealed' \in [Jobs -> 0..(Chunks + 1)]
    BY <1>1, <1>3 DEF TypeInv
  <2>2. seq' \in [Hosts -> Nat \ {0}]
    BY <1>1, <1>2, SMTT(40) DEF TypeInv
  <2>3. QED  BY <1>1, <2>1, <2>2 DEF TypeInv, fanVars, jobsVars, sessVars, opVars
<1>6. AgentInv'
  BY <1>1, <1>3, <1>4 DEF AgentInv
<1>7. \A i \in Jobs : \A x \in Items : Past(i, x) => Past(i, x)'
  BY <1>1, <1>3, <1>4, ExecAssumption DEF Past, Items, Exit, Error
<1>8. QED  BY <1>1, <1>5, <1>6, <1>7, AgentQuiet DEF opVars

(* The connection drops. *)
LEMMA DropStep ==
  ASSUME ExecInv, NEW h \in Hosts, UNCHANGED plan, Drop(h)
  PROVE  ExecInv'
<1>1. /\ TypeInv /\ AgentInv
      /\ stage' = [j \in Jobs |-> IF j \in On(h) /\ stage[j] = "run" THEN "over" ELSE stage[j]]
      /\ hand' = [j \in Jobs |-> IF j \in On(h) THEN 0 ELSE hand[j]]
      /\ UNCHANGED <<fanVars, jobsVars, sessVars, sidOf, seq, sealed, up, opVars>>
  BY DEF ExecInv, Drop
<1>2. \A j \in Jobs :
        /\ stage'[j] = stage[j] \/ (stage[j] = "run" /\ stage'[j] = "over" /\ hand'[j] = 0)
        /\ hand'[j] = 0 \/ (hand'[j] = hand[j] /\ stage'[j] = stage[j])
        /\ stage'[j] = "run" => hand'[j] = hand[j]
  BY <1>1
<1>3. TypeInv'
  BY <1>1 DEF TypeInv, fanVars, jobsVars, sessVars, opVars
<1>4. AgentInv'
  BY <1>1, <1>2 DEF AgentInv
<1>5. \A i \in Jobs : \A x \in Items : Past(i, x) => Past(i, x)'
  BY <1>1, <1>2 DEF Past
<1>6. QED  BY <1>1, <1>2, <1>3, <1>4, <1>5, AgentQuiet DEF opVars

(* A result is handed over to the publisher, after all that its job handed over
   before (JobChannel::send). *)
LEMMA HandOverStep ==
  ASSUME ExecInv, NEW j \in Jobs, UNCHANGED plan, HandOver(j)
  PROVE  ExecInv'
<1>0. PICK h, x, m :
        /\ h = HostOf[j] /\ x = Item(sealed[j])
        /\ m = [sid |-> sidOf[j], seq |-> hand[j], job |-> j, item |-> x]
  OBVIOUS
<1> DEFINE st == IF Terminal(x) THEN "over" ELSE "run"
<1>1. /\ TypeInv /\ PlaceInv /\ AgentInv /\ UpInv /\ GotInv /\ ToldInv /\ WellFormedStream
      /\ hand[j] # 0
      /\ up' = [up EXCEPT ![h] = Append(@, m)]
      /\ hand' = [hand EXCEPT ![j] = 0]
      /\ stage' = [stage EXCEPT ![j] = st]
      /\ UNCHANGED <<fanVars, jobsVars, sessVars, sidOf, agentSid, seq, sealed, opVars>>
  BY <1>0 DEF ExecInv, HandOver, Published
<1>2. h \in Hosts /\ Chunks \in Nat
  BY <1>0, <1>1, ExecAssumption DEF TypeInv, HostOf
<1>3. stage[j] = "run" /\ sealed[j] \in 1..(Chunks + 1)
  BY <1>1, <1>2 DEF AgentInv, TypeInv
<1>4. x \in 1..Chunks \union {Exit} /\ x \in Items
  BY <1>0, <1>2, <1>3 DEF Item, Items
<1>5. \/ x = Exit /\ Terminal(x) /\ sealed[j] = Chunks + 1 /\ st = "over"
      \/ x = sealed[j] /\ ~Terminal(x) /\ x # Exit /\ sealed[j] <= Chunks /\ st = "run"
  BY <1>0, <1>2, <1>3 DEF Item, Terminal, Exit, Error
<1>6. m \in Msg
  BY <1>0, <1>1, <1>4 DEF Msg, TypeInv
<1>7. m.job = j /\ m.item = x
  BY <1>0
<1> HIDE DEF st
<1>8. up[h] \in Seq(Msg) /\ up' \in [Hosts -> Seq(Msg)] /\ up'[h] = Append(up[h], m)
      /\ \A g \in Hosts \ {h} : up'[g] = up[g]
  <2>1. up[h] \in Seq(Msg) /\ Append(up[h], m) \in Seq(Msg)
    <3>1. up[h] \in Seq(Msg)
      BY <1>1, <1>2 DEF TypeInv
    <3>2. QED  BY <1>6, <3>1, AppendElement
  <2>2. QED  BY <1>1, <1>2, <2>1 DEF TypeInv
<1>9. /\ \A i \in Jobs : i # j => hand'[i] = hand[i] /\ stage'[i] = stage[i]
      /\ hand'[j] = 0 /\ stage'[j] = st /\ sealed' = sealed
      /\ UNCHANGED <<todo, cmds, pending, overdue, sid, got, open, lagged>>
  BY <1>1 DEF TypeInv, fanVars, jobsVars, sessVars, opVars
<1>10. TypeInv'
  <2>1. hand' \in [Jobs -> Nat] /\ stage' \in [Jobs -> {"new", "sent", "run", "over"}]
    BY <1>1, <1>5 DEF TypeInv
  <2>2. QED  BY <1>1, <1>8, <1>9, <2>1 DEF TypeInv
<1>11. AgentInv'
  BY <1>1, <1>3, <1>5, <1>9 DEF AgentInv
<1>12. /\ \A i \in Jobs : \A y \in Items : Past(i, y) => Past(i, y)'
       /\ Past(j, x)'
       /\ \A y \in Items \ {Error} : Past(j, y) => Before(y, x)
  <2>1. ASSUME NEW y \in Items, Past(j, y)
        PROVE  /\ y # Exit /\ y < sealed[j]
    BY <1>1, <1>3, <2>1 DEF Past
  <2>2. ASSUME NEW i \in Jobs, NEW y \in Items, Past(i, y) PROVE Past(i, y)'
    <3>1. CASE i = j
      BY <2>1, <2>2, <3>1, <1>9 DEF Past, Items, Exit, Error
    <3>2. CASE i # j
      BY <2>2, <3>2, <1>9 DEF Past
    <3>3. QED  BY <3>1, <3>2
  <2>3. Past(j, x)'
    BY <1>3, <1>5, <1>9 DEF Past
  <2>4. QED  BY <1>5, <2>1, <2>2, <2>3 DEF Before, Terminal, Items
<1>13. PlaceInv'
  <2>1. AllWaiting \subseteq Jobs /\ AllWaiting' = AllWaiting
    BY <1>1, <1>9, AllWaitingJobs DEF AllWaiting
  <2>2. \A c : JobsOf(c)' = JobsOf(c)
    BY DEF JobsOf, Fan
  <2>3. QED  BY <1>1, <1>3, <1>9, <2>1, <2>2 DEF PlaceInv
<1>14. UpInv'
  <2>1. ASSUME NEW g \in Hosts, NEW i \in DOMAIN up[g]
        PROVE  /\ up[g][i].job \in Jobs /\ up[g][i].item \in Items \ {Error}
               /\ HostOf[up[g][i].job] = g /\ Past(up[g][i].job, up[g][i].item)
    <3>1. up[g][i] \in Msg
      <4>1. up[g] \in Seq(Msg)
        BY <1>1 DEF TypeInv
      <4>2. QED  BY <4>1
    <3>2. up[g][i].job \in Jobs /\ up[g][i].item \in Items \ {Error}
      BY <1>2, <3>1 DEF Msg, Items, Exit, Error
    <3>3. QED  BY <1>1, <3>2 DEF UpInv
  <2>2. ASSUME NEW g \in Hosts, NEW i \in DOMAIN up'[g]
        PROVE  /\ HostOf[up'[g][i].job] = g
               /\ Past(up[g][i].job, up[g][i].item)'
               /\ \A k \in DOMAIN up'[g] :
                    i < k /\ up'[g][i].job = up'[g][k].job => Before(up'[g][i].item, up'[g][k].item)
    <3>1. CASE g # h
      BY <1>1, <1>8, <1>12, <2>1, <3>1 DEF UpInv
    <3>2. CASE g = h /\ i \in DOMAIN up[h] /\ up'[h][i] = up[h][i]
      <4>1. HostOf[up'[g][i].job] = g /\ Past(up[g][i].job, up[g][i].item)'
        BY <1>12, <2>1, <3>2
      <4>2. ASSUME NEW k \in DOMAIN up'[h], i < k, up'[h][i].job = up'[h][k].job
            PROVE  Before(up'[h][i].item, up'[h][k].item)
        <5>1. CASE k \in DOMAIN up[h] /\ up'[h][k] = up[h][k]
          BY <1>1, <1>2, <3>2, <4>2, <5>1 DEF UpInv
        <5>2. CASE up'[h][k] = m
          BY <1>2, <1>7, <1>12, <2>1, <3>2, <4>2, <5>2
        <5>3. QED  BY <1>6, <1>8, <4>2, <5>1, <5>2, AppendElement
      <4>3. QED  BY <3>2, <4>1, <4>2
    <3>3. CASE g = h /\ i = Len(up[h]) + 1 /\ up'[h][i] = m
      <4>1. HostOf[up'[g][i].job] = g /\ Past(up[g][i].job, up[g][i].item)'
        BY <1>0, <1>7, <1>12, <3>3
      <4>2. \A k \in DOMAIN up'[h] : ~(i < k)
        <5>1. Len(up[h]) \in Nat /\ DOMAIN up'[h] = 1..(Len(up[h]) + 1)
          BY <1>6, <1>8, AppendElement
        <5>2. QED  BY <3>3, <5>1
      <4>3. QED  BY <3>3, <4>1, <4>2
    <3>4. QED  BY <1>6, <1>8, <2>2, <3>1, <3>2, <3>3, AppendElement
  <2>3. QED  BY <2>2 DEF UpInv, HostOf
<1>15. GotInv'
  <2>1. ASSUME NEW i \in Jobs, NEW n \in DOMAIN got[i]
        PROVE  /\ i \in pending => ~Terminal(got[i][n])
               /\ got[i][n] # Error => Past(i, got[i][n])'
               /\ ~Terminal(got[i][n]) =>
                    \A g \in Hosts : \A k \in DOMAIN up'[g] :
                      up'[g][k].job = i => Before(got[i][n], up'[g][k].item)
    <3>1. got[i][n] \in Items
      BY <1>1 DEF TypeInv, Items
    <3>2. /\ i \in pending => ~Terminal(got[i][n])
          /\ got[i][n] # Error => Past(i, got[i][n])
          /\ ~Terminal(got[i][n]) =>
               \A g \in Hosts : \A k \in DOMAIN up[g] :
                 up[g][k].job = i => Before(got[i][n], up[g][k].item)
      BY <1>1 DEF GotInv
    <3>3. got[i][n] # Error => Past(i, got[i][n])'
      BY <1>9, <1>12, <3>1, <3>2
    <3>4. ASSUME ~Terminal(got[i][n]), NEW g \in Hosts, NEW k \in DOMAIN up'[g], up'[g][k].job = i
          PROVE  Before(got[i][n], up'[g][k].item)
      <4>1. CASE g # h \/ (k \in DOMAIN up[g] /\ up'[g][k] = up[g][k])
        BY <1>8, <3>2, <3>4, <4>1
      <4>2. CASE up'[g][k] = m
        BY <1>7, <1>12, <3>1, <3>2, <3>4, <4>2 DEF Terminal
      <4>3. QED  BY <1>6, <1>8, <3>4, <4>1, <4>2, AppendElement
    <3>5. QED  BY <3>2, <3>3, <3>4
  <2>2. QED  BY <1>9, <2>1 DEF GotInv
<1>16. ToldInv'
  BY <1>1, <1>9 DEF ToldInv, JobsOf, Fan, Waiting
<1>17. WellFormedStream'
  BY <1>1, <1>9 DEF WellFormedStream
<1>18. QED  BY <1>10, <1>11, <1>13, <1>14, <1>15, <1>16, <1>17 DEF ExecInv

-----------------------------------------------------------------------------
(* The fan-out task's and the bridge's steps.                                  *)

(* What does not concern the agent. *)
LEMMA AgentFrame ==
  ASSUME ExecInv, UNCHANGED <<plan, stage, sealed, hand>>
  PROVE  AgentInv' /\ (UNCHANGED up => UpInv' /\ UpShrinks)
<1>1. \A j, x : Past(j, x)' = Past(j, x)
  BY DEF Past
<1>2. AgentInv'
  BY DEF ExecInv, AgentInv
<1>3. UNCHANGED up => UpInv'
  BY <1>1 DEF ExecInv, UpInv, HostOf
<1>4. UNCHANGED up => UpShrinks
  BY DEF ExecInv, TypeInv, UpShrinks
<1>5. QED  BY <1>2, <1>3, <1>4

(* Errors for jobs that have had no terminal event. *)
LEMMA FailJobs ==
  ASSUME ExecInv, NEW S \in SUBSET Jobs, NEW told \in SUBSET S, TrySend(S, Error, told),
         Settles(S, Error, told), UNCHANGED <<plan, stage, sealed, hand, up>>,
         \A j \in S : j \in pending \/ got[j] = <<>>,
         TypeInv', PlaceInv'
  PROVE  ExecInv'
<1>1. Error \in Items /\ Terminal(Error)
  BY DEF Items, Terminal
<1>2. Tells(S, Error, told) /\ got' \in [Jobs -> Seq(Items)]
  BY <1>1, TrySendTells DEF ExecInv
<1>3. Follows(S, Error)
  <2>1. ASSUME NEW j \in S, NEW n \in DOMAIN got[j] PROVE Before(got[j][n], Error)
    <3>1. got[j] # <<>>
      OBVIOUS
    <3>2. ~Terminal(got[j][n])
      BY <2>1, <3>1 DEF ExecInv, GotInv
    <3>3. QED  BY <1>1, <3>2 DEF Before
  <2>2. QED  BY <1>1, <2>1 DEF Follows
<1>4. AgentInv' /\ UpInv' /\ UpShrinks
  BY AgentFrame
<1>5. GotInv' /\ ToldInv' /\ WellFormedStream'
  BY <1>1, <1>2, <1>3, <1>4, TellStep
<1>6. QED  BY <1>4, <1>5 DEF ExecInv

(* A host of a call is denied. *)
LEMMA FanOutDeniedStep ==
  ASSUME ExecInv, NEW c \in Calls, UNCHANGED plan, FanOutDenied(c)
  PROVE  ExecInv'
<1> DEFINE j == Head(todo[c])
           S == {j}
<1>1. /\ TypeInv /\ PlaceInv /\ todo[c] # <<>>
      /\ todo' = [todo EXCEPT ![c] = Tail(@)]
      /\ UNCHANGED <<cmds, jobsVars, sessVars, agentVars, up>>
  BY DEF ExecInv, FanOutDenied
<1>2. PICK told \in SUBSET S : TrySend(S, Error, told)
  BY DEF FanOutDenied
<1>3. /\ j \in Jobs /\ j \in Range(todo[c]) /\ Tail(todo[c]) \in Seq(Jobs)
      /\ Range(Tail(todo[c])) = Range(todo[c]) \ {j} /\ IsInjective(Tail(todo[c]))
  <2>1. todo[c] \in Seq(Jobs) /\ IsInjective(todo[c])
    BY <1>1 DEF TypeInv, PlaceInv
  <2>2. QED  BY <1>1, <2>1, RangeTail
<1>4. got[j] = <<>> /\ j \in JobsOf(c)
  BY <1>1, <1>3 DEF PlaceInv, AllWaiting
<1>5. UNCHANGED <<cmds, pending, overdue, sid, stage, sidOf, seq, sealed, hand, up>>
  BY <1>1 DEF jobsVars, sessVars, agentVars
<1>6. todo' \in [Calls -> Seq(Jobs)] /\ todo'[c] = Tail(todo[c])
      /\ \A d \in Calls \ {c} : todo'[d] = todo[d]
  BY <1>1, <1>3 DEF TypeInv
<1>7. \A d \in Calls \ {c} : j \notin Waiting(d)
  <2>1. ASSUME NEW d \in Calls \ {c} PROVE j \notin JobsOf(d)
    BY <1>1, <1>4, ExecAssumption DEF TypeInv, JobsOf, Fan
  <2>2. j \notin Range(cmds)
    BY <1>1, <1>3 DEF PlaceInv
  <2>3. QED  BY <1>1, <2>1, <2>2 DEF PlaceInv, Waiting
<1>8. \A d \in Calls : Waiting(d)' = Waiting(d) \ {j}
  BY <1>1, <1>3, <1>5, <1>6, <1>7 DEF Waiting, PlaceInv
<1>9. got' \in [Jobs -> Seq(Items)] /\ Tells(S, Error, told)
  BY <1>1, <1>2, TrySendTells DEF Items
<1>10. TypeInv'
  BY <1>1, <1>5, <1>6, <1>9 DEF TypeInv, Items
<1>11. PlaceInv'
  <2>1. \A d : JobsOf(d)' = JobsOf(d)
    BY DEF JobsOf, Fan
  <2>2. AllWaiting' \subseteq AllWaiting \ {j}
    BY <1>1, <1>3, <1>5, <1>6, <1>7 DEF AllWaiting, Waiting, PlaceInv
  <2>3. \A i \in AllWaiting' : stage'[i] = "new" /\ got'[i] = <<>>
    BY <1>1, <1>2, <1>5, <1>9, <2>2, AllWaitingJobs DEF Tells, PlaceInv
  <2>4. QED  BY <1>1, <1>3, <1>5, <1>6, <2>1, <2>3 DEF PlaceInv
<1>12. Settles(S, Error, told)
  BY <1>1, <1>3, <1>5, <1>8 DEF Settles, Terminal, PlaceInv, TypeInv
<1>13. QED  BY <1>2, <1>3, <1>4, <1>5, <1>10, <1>11, <1>12, FailJobs

(* A host of a call is allowed: its job moves on to the bridge's queue. *)
LEMMA FanOutAllowedStep ==
  ASSUME ExecInv, NEW c \in Calls, UNCHANGED plan, FanOutAllowed(c)
  PROVE  ExecInv'
<1> DEFINE j == Head(todo[c])
<1>1. /\ TypeInv /\ PlaceInv /\ todo[c] # <<>>
      /\ cmds' = Append(cmds, j)
      /\ todo' = [todo EXCEPT ![c] = Tail(@)]
      /\ UNCHANGED <<jobsVars, sessVars, agentVars, up, opVars>>
  BY DEF ExecInv, FanOutAllowed
<1>2. /\ j \in Jobs /\ j \in Range(todo[c]) /\ Tail(todo[c]) \in Seq(Jobs)
      /\ Range(Tail(todo[c])) = Range(todo[c]) \ {j} /\ IsInjective(Tail(todo[c]))
  <2>1. todo[c] \in Seq(Jobs) /\ IsInjective(todo[c])
    BY <1>1 DEF TypeInv, PlaceInv
  <2>2. QED  BY <1>1, <2>1, RangeTail
<1>3. /\ cmds' \in Seq(Jobs) /\ Range(cmds') = Range(cmds) \union {j} /\ IsInjective(cmds')
  <2>1. cmds \in Seq(Jobs) /\ IsInjective(cmds) /\ j \notin Range(cmds)
    BY <1>1, <1>2 DEF TypeInv, PlaceInv
  <2>2. QED  BY <1>1, <1>2, <2>1, RangeAppend
<1>4. /\ got[j] = <<>> /\ stage[j] = "new" /\ j \in JobsOf(c) /\ j \notin pending
  BY <1>1, <1>2 DEF PlaceInv, AllWaiting
<1>5. UNCHANGED <<pending, overdue, sid, stage, sidOf, seq, sealed, hand, got, open, lagged>>
  BY <1>1 DEF jobsVars, sessVars, agentVars, opVars
<1>6. todo' \in [Calls -> Seq(Jobs)] /\ todo'[c] = Tail(todo[c])
      /\ \A d \in Calls \ {c} : todo'[d] = todo[d]
  BY <1>1, <1>2 DEF TypeInv
<1>7. \A d \in Calls \ {c} : j \notin Range(todo[d])
  <2>1. ASSUME NEW d \in Calls \ {c} PROVE j \notin JobsOf(d)
    BY <1>1, <1>4, ExecAssumption DEF TypeInv, JobsOf, Fan
  <2>2. QED  BY <1>1, <2>1 DEF PlaceInv
<1>8. \A d \in Calls : Waiting(d)' = Waiting(d) \union {j}
  BY <1>2, <1>3, <1>6 DEF Waiting
<1>9. TypeInv'
  BY <1>1, <1>3, <1>5, <1>6 DEF TypeInv
<1>10. PlaceInv'
  <2>1. \A d : JobsOf(d)' = JobsOf(d)
    BY DEF JobsOf, Fan
  <2>2. \A d \in Calls : /\ IsInjective(todo'[d]) /\ Range(todo'[d]) \subseteq JobsOf(d)
                         /\ Range(todo'[d]) \intersect (Range(cmds') \union pending') = {}
    BY <1>1, <1>2, <1>3, <1>5, <1>6, <1>7 DEF PlaceInv
  <2>3. \A i \in AllWaiting' : stage'[i] = "new" /\ got'[i] = <<>>
    <3>1. AllWaiting' \subseteq AllWaiting \union {j}
      BY <1>2, <1>3, <1>6 DEF AllWaiting
    <3>2. QED  BY <1>1, <1>4, <1>5, <3>1 DEF PlaceInv
  <2>4. IsInjective(cmds') /\ Range(cmds') \intersect pending' = {}
    BY <1>1, <1>3, <1>4, <1>5 DEF PlaceInv
  <2>5. QED  BY <2>1, <2>2, <2>3, <2>4 DEF PlaceInv
<1>11. Silent
  BY <1>1, <1>5, <1>8 DEF Silent
<1>12. AgentInv' /\ \A i, x : Past(i, x)' = Past(i, x)
  BY <1>5, AgentFrame DEF Past
<1>13. QED  BY <1>9, <1>10, <1>11, <1>12, QuietStep

\* The bridge takes the next command.
TakesCommand(j) ==
  /\ cmds # <<>> /\ j = Head(cmds) /\ cmds' = Tail(cmds) /\ UNCHANGED <<plan, todo>>

(* A command taken from the bridge's queue is one job's, and it waits nowhere else. *)
LEMMA CommandTaken ==
  ASSUME ExecInv, NEW j, TakesCommand(j)
  PROVE  /\ j \in Jobs /\ got[j] = <<>> /\ stage[j] = "new" /\ j \notin pending
         /\ cmds' \in Seq(Jobs) /\ IsInjective(cmds') /\ Range(cmds') = Range(cmds) \ {j}
         /\ \A c \in Calls : j \notin Range(todo[c]) /\ Waiting(c)' = Waiting(c) \ {j}
<1>1. TypeInv /\ PlaceInv /\ cmds # <<>> /\ j = Head(cmds) /\ cmds' = Tail(cmds) /\ todo' = todo
  BY DEF ExecInv, TakesCommand
<1>2. cmds \in Seq(Jobs) /\ IsInjective(cmds)
  BY <1>1 DEF TypeInv, PlaceInv
<1>3. /\ j \in Jobs /\ j \in Range(cmds) /\ cmds' \in Seq(Jobs)
      /\ Range(cmds') = Range(cmds) \ {j} /\ IsInjective(cmds')
  BY <1>1, <1>2, RangeTail
<1>4. \A c \in Calls : j \notin Range(todo[c]) /\ Waiting(c)' = Waiting(c) \ {j}
  BY <1>1, <1>3 DEF PlaceInv, Waiting
<1>5. QED  BY <1>1, <1>3, <1>4 DEF PlaceInv, AllWaiting

(* A command is refused: the call is told, or has been marked as lagging. *)
LEMMA RefusedStep ==
  ASSUME ExecInv, UNCHANGED plan, DispatchRefused
  PROVE  ExecInv'
<1>0. PICK j : j = Head(cmds)
  OBVIOUS
<1> DEFINE S == {j}
<1>1. /\ TypeInv /\ PlaceInv /\ TakesCommand(j)
      /\ UNCHANGED <<todo, pending, overdue, sessVars, agentVars, up>>
  BY <1>0 DEF ExecInv, DispatchRefused, TakesCommand
<1>2. PICK told \in SUBSET S : TrySend(S, Error, told)
  BY <1>0 DEF DispatchRefused
<1>3. /\ j \in Jobs /\ got[j] = <<>> /\ stage[j] = "new" /\ j \notin pending
      /\ cmds' \in Seq(Jobs) /\ IsInjective(cmds') /\ Range(cmds') = Range(cmds) \ {j}
      /\ \A c \in Calls : j \notin Range(todo[c]) /\ Waiting(c)' = Waiting(c) \ {j}
  BY <1>1, CommandTaken
<1>4. UNCHANGED <<todo, pending, overdue, sid, stage, sidOf, seq, sealed, hand, up>>
  BY <1>1 DEF sessVars, agentVars
<1>5. got' \in [Jobs -> Seq(Items)] /\ Tells(S, Error, told)
  BY <1>1, <1>2, TrySendTells DEF Items
<1>6. TypeInv'
  BY <1>1, <1>3, <1>4, <1>5 DEF TypeInv, Items
<1>7. PlaceInv'
  <2>1. \A d : JobsOf(d)' = JobsOf(d)
    BY DEF JobsOf, Fan
  <2>2. AllWaiting' \subseteq AllWaiting \ {j}
    BY <1>3, <1>4 DEF AllWaiting
  <2>3. \A i \in AllWaiting' : stage'[i] = "new" /\ got'[i] = <<>>
    BY <1>1, <1>2, <1>4, <1>5, <2>2, AllWaitingJobs DEF Tells, PlaceInv
  <2>4. QED  BY <1>1, <1>3, <1>4, <2>1, <2>3 DEF PlaceInv
<1>8. Settles(S, Error, told)
  BY <1>1, <1>3, <1>4 DEF Settles, Terminal, TypeInv
<1>9. QED  BY <1>2, <1>3, <1>4, <1>6, <1>7, <1>8, FailJobs

(* A command is sent: its job is pending from now on. *)
LEMMA SentStep ==
  ASSUME ExecInv, UNCHANGED plan, DispatchSent
  PROVE  ExecInv'
<1>0. PICK j : j = Head(cmds)
  OBVIOUS
<1>1. /\ TypeInv /\ PlaceInv /\ AgentInv /\ TakesCommand(j)
      /\ stage' = [stage EXCEPT ![j] = "sent"]
      /\ sidOf' = [sidOf EXCEPT ![j] = sid[HostOf[j]]]
      /\ pending' = pending \union {j}
      /\ UNCHANGED <<todo, overdue, sessVars, agentSid, seq, sealed, hand, up, opVars>>
  BY <1>0 DEF ExecInv, DispatchSent, TakesCommand
<1>2. /\ j \in Jobs /\ got[j] = <<>> /\ stage[j] = "new" /\ j \notin pending
      /\ cmds' \in Seq(Jobs) /\ IsInjective(cmds') /\ Range(cmds') = Range(cmds) \ {j}
      /\ \A c \in Calls : j \notin Range(todo[c]) /\ Waiting(c)' = Waiting(c) \ {j}
  BY <1>1, CommandTaken
<1>3. UNCHANGED <<todo, overdue, sid, seq, sealed, hand, up, got, open, lagged>>
  BY <1>1 DEF sessVars, opVars
<1>4. HostOf[j] \in Hosts
  BY <1>1, <1>2, ExecAssumption DEF TypeInv, HostOf
<1>5. /\ \A i \in Jobs : i # j => stage'[i] = stage[i]
      /\ stage'[j] = "sent"
  BY <1>1, <1>2 DEF TypeInv
<1>6. TypeInv'
  <2>1. /\ stage' \in [Jobs -> {"new", "sent", "run", "over"}] /\ sidOf' \in [Jobs -> Nat]
        /\ pending' \in SUBSET Jobs /\ overdue' \in SUBSET pending'
    BY <1>1, <1>2, <1>3, <1>4 DEF TypeInv
  <2>2. QED  BY <1>1, <1>2, <1>3, <2>1 DEF TypeInv
<1>7. AgentInv'
  BY <1>1, <1>2, <1>3, <1>5 DEF AgentInv
<1>8. PlaceInv'
  <2>1. \A d : JobsOf(d)' = JobsOf(d)
    BY DEF JobsOf, Fan
  <2>2. AllWaiting' \subseteq AllWaiting \ {j}
    BY <1>2, <1>3 DEF AllWaiting
  <2>3. \A i \in AllWaiting' : stage'[i] = "new" /\ got'[i] = <<>>
    BY <1>1, <1>3, <1>5, <2>2, AllWaitingJobs DEF PlaceInv
  <2>4. QED  BY <1>1, <1>2, <1>3, <2>1, <2>3 DEF PlaceInv
<1>9. Silent
  BY <1>1, <1>2, <1>3 DEF Silent
<1>10. \A i \in Jobs : \A x \in Items : Past(i, x) => Past(i, x)'
  BY <1>2, <1>3, <1>5 DEF Past
<1>11. QED  BY <1>6, <1>7, <1>8, <1>9, <1>10, QuietStep

(* The sweep fails what is overdue. *)
LEMMA ReapStep ==
  ASSUME ExecInv, UNCHANGED plan, Reap
  PROVE  ExecInv'
<1>1. /\ TypeInv /\ PlaceInv
      /\ pending' = pending \ overdue /\ overdue' = overdue \ overdue
      /\ UNCHANGED <<fanVars, sessVars, agentVars, up>>
  BY DEF ExecInv, Reap, Forget
<1>2. PICK told \in SUBSET overdue : TrySend(overdue, Error, told)
  BY DEF Reap
<1>3. UNCHANGED <<todo, cmds, sid, stage, sidOf, seq, sealed, hand, up>>
  BY <1>1 DEF fanVars, sessVars, agentVars
<1>4. got' \in [Jobs -> Seq(Items)] /\ Tells(overdue, Error, told)
  BY <1>1, <1>2, TrySendTells DEF Items
<1>5. overdue \in SUBSET Jobs /\ overdue \subseteq pending
  BY <1>1 DEF TypeInv
<1>6. /\ \A c : JobsOf(c)' = JobsOf(c) /\ Waiting(c)' = Waiting(c)
      /\ AllWaiting' = AllWaiting
  BY <1>3 DEF JobsOf, Fan, Waiting, AllWaiting
<1>7. \A c \in Calls : overdue \intersect Waiting(c) = {}
  BY <1>1, <1>5 DEF PlaceInv, Waiting
<1>8. TypeInv'
  BY <1>1, <1>3, <1>4 DEF TypeInv, Items
<1>9. PlaceInv'
  <2>1. AllWaiting \intersect overdue = {}
    BY <1>1, <1>5 DEF PlaceInv, AllWaiting
  <2>2. \A i \in AllWaiting : stage'[i] = "new" /\ got'[i] = <<>>
    BY <1>1, <1>2, <1>3, <1>4, <2>1, AllWaitingJobs DEF Tells, PlaceInv
  <2>3. QED  BY <1>1, <1>3, <1>6, <2>2 DEF PlaceInv
<1>10. Settles(overdue, Error, told)
  BY <1>1, <1>5, <1>6, <1>7 DEF Settles, Terminal
<1>11. QED  BY <1>2, <1>3, <1>5, <1>8, <1>9, <1>10, FailJobs

(* A new session fails the pending jobs of the old one (purge_host_jobs). *)
LEMMA RehelloStep ==
  ASSUME ExecInv, NEW h \in Hosts, UNCHANGED plan, Rehello(h)
  PROVE  ExecInv'
<1> DEFINE S == pending \intersect On(h)
<1>1. /\ TypeInv /\ PlaceInv
      /\ pending' = pending \ On(h) /\ overdue' = overdue \ On(h)
      /\ sid' = [sid EXCEPT ![h] = @ + 1] /\ seq' = [seq EXCEPT ![h] = 1]
      /\ UNCHANGED <<fanVars, stage, sidOf, sealed, hand, up>>
  BY DEF ExecInv, Rehello, NewSession, Forget
<1>2. PICK told \in SUBSET S : TrySend(S, Error, told)
  BY DEF Rehello
<1>3. UNCHANGED <<todo, cmds, stage, sidOf, sealed, hand, up>>
  BY <1>1 DEF fanVars
<1>4. got' \in [Jobs -> Seq(Items)] /\ Tells(S, Error, told)
  BY <1>1, <1>2, TrySendTells DEF Items
<1>5. S \in SUBSET Jobs /\ S \subseteq pending
  BY <1>1 DEF TypeInv
<1>6. /\ \A c : JobsOf(c)' = JobsOf(c) /\ Waiting(c)' = Waiting(c)
      /\ AllWaiting' = AllWaiting
  BY <1>3 DEF JobsOf, Fan, Waiting, AllWaiting
<1>7. \A c \in Calls : S \intersect Waiting(c) = {}
  BY <1>1, <1>5 DEF PlaceInv, Waiting
<1>8. TypeInv'
  <2>1. sid' \in [Hosts -> Nat] /\ seq' \in [Hosts -> Nat \ {0}]
    BY <1>1 DEF TypeInv
  <2>2. pending' \in SUBSET Jobs /\ overdue' \in SUBSET pending'
    BY <1>1 DEF TypeInv
  <2>3. QED  BY <1>1, <1>3, <1>4, <2>1, <2>2 DEF TypeInv, Items
<1>9. PlaceInv'
  <2>1. AllWaiting \intersect S = {}
    BY <1>1, <1>5 DEF PlaceInv, AllWaiting
  <2>2. \A i \in AllWaiting : stage'[i] = "new" /\ got'[i] = <<>>
    BY <1>1, <1>2, <1>3, <1>4, <2>1, AllWaitingJobs DEF Tells, PlaceInv
  <2>3. QED  BY <1>1, <1>3, <1>6, <2>2 DEF PlaceInv
<1>10. Settles(S, Error, told)
  BY <1>1, <1>5, <1>6, <1>7 DEF Settles, Terminal, TypeInv
<1>11. QED  BY <1>2, <1>3, <1>5, <1>8, <1>9, <1>10, FailJobs

(* A deadline, a session that is not announced, a read, an operator who leaves: no job
   is told of and none leaves its place. *)
LEMMA IdleStep ==
  ASSUME ExecInv, UNCHANGED plan,
         \/ UNCHANGED vars
         \/ \E j \in Jobs : Expire(j)
         \/ \E h \in Hosts : RehelloUnannounced(h)
         \/ \E c \in Calls : Read(c) \/ Leave(c)
  PROVE  ExecInv'
<1>0. TypeInv
  BY DEF ExecInv
<1>1. /\ UNCHANGED <<todo, cmds, pending, stage, sidOf, seq, sealed, hand, up, got, lagged>>
      /\ overdue' \in SUBSET pending
      /\ sid' \in [Hosts -> Nat]
  <2>1. CASE UNCHANGED vars
    BY <1>0, <2>1 DEF TypeInv, vars, moving, fanVars, jobsVars, sessVars, agentVars, opVars
  <2>2. ASSUME NEW j \in Jobs, Expire(j) PROVE <1>1
    BY <1>0, <2>2 DEF TypeInv, Expire, fanVars, sessVars, agentVars, opVars
  <2>3. ASSUME NEW h \in Hosts, RehelloUnannounced(h) PROVE <1>1
    BY <1>0, <2>3 DEF TypeInv, RehelloUnannounced, NewSession, fanVars, jobsVars, agentVars, opVars
  <2>4. ASSUME NEW c \in Calls, Read(c) \/ Leave(c) PROVE <1>1
    BY <1>0, <2>4 DEF TypeInv, Read, Leave, fanVars, jobsVars, sessVars, agentVars
  <2>5. QED  BY <2>1, <2>2, <2>3, <2>4
<1>2. \A d \in Calls : open'[d] => open[d]
  <2>1. CASE UNCHANGED open
    BY <2>1
  <2>2. ASSUME NEW c \in Calls, Leave(c) PROVE \A d \in Calls : open'[d] => open[d]
    <3>1. open[c] /\ open' = [open EXCEPT ![c] = FALSE]
      BY <2>2 DEF Leave
    <3>2. ASSUME NEW d \in Calls, open'[d] PROVE open[d]
      <4>1. CASE d = c
        BY <3>1, <4>1
      <4>2. CASE d # c
        BY <3>1, <3>2, <4>2
      <4>3. QED  BY <4>1, <4>2
    <3>3. QED  BY <3>2
  <2>3. QED
    BY <2>1, <2>2 DEF vars, moving, opVars, Expire, RehelloUnannounced, Read
<1>3. TypeInv'
  BY <1>0, <1>1 DEF TypeInv
<1>4. /\ \A c : JobsOf(c)' = JobsOf(c) /\ Waiting(c)' = Waiting(c)
      /\ AllWaiting' = AllWaiting
  BY <1>1 DEF JobsOf, Fan, Waiting, AllWaiting
<1>5. PlaceInv'
  BY <1>1, <1>4 DEF ExecInv, PlaceInv
<1>6. AgentInv' /\ \A i, x : Past(i, x)' = Past(i, x)
  BY <1>1, AgentFrame DEF Past
<1>7. Silent
  BY <1>1, <1>2, <1>4 DEF Silent
<1>8. QED  BY <1>3, <1>5, <1>6, <1>7, QuietStep

(* The first message of an uplink is taken: the rest stays in order, and after it. *)
LEMMA UpTail ==
  ASSUME ExecInv, NEW h \in Hosts, up[h] # <<>>, up' = [up EXCEPT ![h] = Tail(@)],
         UNCHANGED <<plan, stage, sealed, hand>>
  PROVE  /\ UpInv' /\ UpShrinks
         /\ Head(up[h]) \in Msg /\ HostOf[Head(up[h]).job] = h
         /\ Past(Head(up[h]).job, Head(up[h]).item)
         /\ \A g \in Hosts : \A i \in DOMAIN up'[g] :
              up'[g][i].job = Head(up[h]).job => Before(Head(up[h]).item, up'[g][i].item)
<1>1. TypeInv /\ UpInv
  BY DEF ExecInv
<1>2. /\ Tail(up[h]) \in Seq(Msg) /\ Head(up[h]) \in Msg /\ 1 \in DOMAIN up[h]
      /\ Head(up[h]) = up[h][1]
      /\ \A i \in DOMAIN Tail(up[h]) :
           i \in Nat /\ i > 0 /\ i + 1 \in DOMAIN up[h] /\ Tail(up[h])[i] = up[h][i + 1]
  <2>1. up[h] \in Seq(Msg)
    BY <1>1 DEF TypeInv
  <2>2. QED  BY <2>1, TailElement
<1>3. /\ up' \in [Hosts -> Seq(Msg)] /\ up'[h] = Tail(up[h])
      /\ \A g \in Hosts \ {h} : up'[g] = up[g]
  BY <1>1, <1>2 DEF TypeInv
<1>4. UpShrinks
  <2>1. ASSUME NEW g \in Hosts, NEW i \in DOMAIN up'[g]
        PROVE  \E k \in DOMAIN up[g] : up'[g][i] = up[g][k]
    <3>1. CASE g = h
      BY <1>2, <1>3, <3>1
    <3>2. CASE g # h
      BY <1>3, <3>2
    <3>3. QED  BY <3>1, <3>2
  <2>2. QED  BY <1>3, <2>1 DEF UpShrinks
<1>5. HostOf[Head(up[h]).job] = h /\ Past(Head(up[h]).job, Head(up[h]).item)
  BY <1>1, <1>2 DEF UpInv
<1>6. ASSUME NEW g \in Hosts, NEW i \in DOMAIN up'[g], up'[g][i].job = Head(up[h]).job
      PROVE  Before(Head(up[h]).item, up'[g][i].item)
  <2>1. g = h
    BY <1>1, <1>3, <1>5, <1>6 DEF UpInv
  <2>2. i + 1 \in DOMAIN up[h] /\ 1 < i + 1 /\ up'[h][i] = up[h][i + 1]
    BY <1>2, <1>3, <1>6, <2>1
  <2>3. QED  BY <1>1, <1>2, <1>6, <2>1, <2>2 DEF UpInv
<1>7. UpInv'
  <2>1. \A j, x : Past(j, x)' = Past(j, x)
    BY DEF Past
  <2>2. ASSUME NEW g \in Hosts, NEW i \in DOMAIN up'[g]
        PROVE  /\ HostOf[up'[g][i].job] = g /\ Past(up'[g][i].job, up'[g][i].item)
               /\ \A k \in DOMAIN up'[g] :
                    i < k /\ up'[g][i].job = up'[g][k].job => Before(up'[g][i].item, up'[g][k].item)
    <3>1. CASE g = h
      <4>1. i + 1 \in DOMAIN up[h] /\ up'[h][i] = up[h][i + 1] /\ i \in Nat
        BY <1>2, <1>3, <2>2, <3>1
      <4>2. ASSUME NEW k \in DOMAIN up'[h], i < k, up'[h][i].job = up'[h][k].job
            PROVE  Before(up'[h][i].item, up'[h][k].item)
        <5>1. k + 1 \in DOMAIN up[h] /\ up'[h][k] = up[h][k + 1] /\ i + 1 < k + 1
          BY <1>2, <1>3, <4>1, <4>2
        <5>2. \A a, b \in DOMAIN up[h] :
                a < b /\ up[h][a].job = up[h][b].job => Before(up[h][a].item, up[h][b].item)
          BY <1>1 DEF UpInv
        <5>3. PICK a, b : a = i + 1 /\ b = k + 1
          OBVIOUS
        <5>4. a \in DOMAIN up[h] /\ b \in DOMAIN up[h] /\ a < b
          BY <4>1, <5>1, <5>3
        <5>5. up'[h][i] = up[h][a] /\ up'[h][k] = up[h][b]
          BY <4>1, <5>1, <5>3
        <5>6. QED  BY <4>2, <5>2, <5>4, <5>5
      <4>3. QED  BY <1>1, <3>1, <4>1, <4>2 DEF UpInv
    <3>2. CASE g # h
      BY <1>1, <1>3, <3>2 DEF UpInv
    <3>3. QED  BY <3>1, <3>2
  <2>3. QED  BY <2>1, <2>2 DEF UpInv, HostOf
<1>8. QED  BY <1>2, <1>4, <1>5, <1>6, <1>7

(* A result is lost on its way. *)
LEMMA LostStep ==
  ASSUME ExecInv, NEW h \in Hosts, UNCHANGED plan, up[h] # <<>>,
         up' = [up EXCEPT ![h] = Tail(@)],
         UNCHANGED <<fanVars, jobsVars, sid, agentVars, opVars>>
  PROVE  ExecInv'
<1>1. UNCHANGED <<todo, cmds, pending, overdue, stage, sidOf, seq, sealed, hand, got, open, lagged>>
  BY DEF fanVars, jobsVars, agentVars, opVars
<1>2. UpInv' /\ UpShrinks
  BY <1>1, UpTail
<1>3. TypeInv'
  BY <1>1, <1>2 DEF ExecInv, TypeInv, UpShrinks
<1>4. /\ \A c : JobsOf(c)' = JobsOf(c) /\ Waiting(c)' = Waiting(c)
      /\ AllWaiting' = AllWaiting
  BY <1>1 DEF JobsOf, Fan, Waiting, AllWaiting
<1>5. PlaceInv'
  BY <1>1, <1>4 DEF ExecInv, PlaceInv
<1>6. AgentInv' /\ \A i, x : Past(i, x)' = Past(i, x)
  BY <1>1, AgentFrame DEF Past
<1>7. GotInv'
  BY <1>1, <1>2, <1>6 DEF ExecInv, GotInv, UpShrinks
<1>8. ToldInv' /\ WellFormedStream'
  BY <1>1, <1>4 DEF ExecInv, ToldInv, WellFormedStream
<1>9. QED  BY <1>2, <1>3, <1>5, <1>6, <1>7, <1>8 DEF ExecInv

(* A result reaches the bridge: one of a pending job is the next event of its call
   (handle_result). *)
LEMMA ResultStep ==
  ASSUME ExecInv, NEW h \in Hosts, UNCHANGED plan, OnResult(h)
  PROVE  ExecInv'
<1>1. /\ TypeInv /\ PlaceInv /\ GotInv /\ up[h] # <<>> /\ up' = [up EXCEPT ![h] = Tail(@)]
      /\ UNCHANGED <<fanVars, agentVars, sid>>
  BY DEF ExecInv, OnResult, sessVars
<1>2. CASE UNCHANGED <<jobsVars, opVars>>
  BY <1>1, <1>2, LostStep
<1>3. PICK m : m = Head(up[h])
  OBVIOUS
<1> DEFINE j == m.job
           S == {j}
           x == m.item
<1>4. ASSUME j \in pending, NEW told \in SUBSET S, TrySend(S, x, told),
             Forget(IF Concluded(m, told) THEN S ELSE {})
      PROVE  ExecInv'
  <2>1. UNCHANGED <<todo, cmds, sid, stage, sidOf, seq, sealed, hand>>
    BY <1>1 DEF fanVars, agentVars
  <2>2. /\ UpInv' /\ UpShrinks
        /\ m \in Msg /\ HostOf[j] = h /\ Past(j, x)
        /\ \A g \in Hosts : \A i \in DOMAIN up'[g] : up'[g][i].job = j => Before(x, up'[g][i].item)
    BY <1>1, <1>3, <2>1, UpTail, ZenonT(60)
  <2>3. j \in Jobs /\ x \in Items
    BY <2>2 DEF Msg, Items
  <2>4. Tells(S, x, told) /\ got' \in [Jobs -> Seq(Items)]
    BY <1>1, <1>4, <2>3, TrySendTells
  <2>5. /\ pending' \in {pending, pending \ {j}} /\ overdue' = overdue \ (pending \ pending')
        /\ told = {} \/ Terminal(x) => pending' = pending \ {j}
        /\ pending' = pending \ {j} => told = {} \/ Terminal(x)
    <3>1. CASE Concluded(m, told)
      BY <1>1, <1>4, <3>1 DEF Forget, Concluded, TypeInv
    <3>2. CASE ~Concluded(m, told)
      BY <1>1, <1>4, <3>2 DEF Forget, Concluded, TypeInv
    <3>3. QED  BY <3>1, <3>2
  <2>6. Follows(S, x)
    <3>1. ASSUME NEW n \in DOMAIN got[j] PROVE Before(got[j][n], x)
      <4>1. ~Terminal(got[j][n])
        BY <1>1, <1>4, <2>3 DEF GotInv
      <4>2. 1 \in DOMAIN up[h] /\ m = up[h][1]
        <5>1. up[h] \in Seq(Msg)
          BY <1>1 DEF TypeInv
        <5>2. QED  BY <1>1, <1>3, <5>1, TailElement
      <4>3. QED  BY <1>1, <2>3, <4>1, <4>2 DEF GotInv
    <3>2. QED  BY <2>2, <3>1 DEF Follows
  <2>7. /\ \A c : JobsOf(c)' = JobsOf(c) /\ Waiting(c)' = Waiting(c)
        /\ AllWaiting' = AllWaiting
    BY <2>1 DEF JobsOf, Fan, Waiting, AllWaiting
  <2>8. j \notin AllWaiting /\ \A c \in Calls : j \notin Waiting(c)
    BY <1>1, <1>4 DEF PlaceInv, AllWaiting, Waiting
  <2>9. Settles(S, x, told)
    BY <1>1, <1>4, <2>5, <2>7, <2>8 DEF Settles, TypeInv
  <2>10. GotInv' /\ ToldInv' /\ WellFormedStream'
    BY <2>1, <2>2, <2>3, <2>4, <2>6, <2>9, TellStep
  <2>11. TypeInv'
    BY <1>1, <2>1, <2>2, <2>4, <2>5 DEF TypeInv, UpShrinks, Items
  <2>12. PlaceInv'
    <3>1. \A i \in AllWaiting : stage'[i] = "new" /\ got'[i] = <<>>
      BY <1>1, <1>4, <2>1, <2>4, <2>8, AllWaitingJobs DEF Tells, PlaceInv
    <3>2. QED  BY <1>1, <2>1, <2>5, <2>7, <3>1 DEF PlaceInv
  <2>13. AgentInv'
    BY <2>1, AgentFrame
  <2>14. QED  BY <2>2, <2>10, <2>11, <2>12, <2>13 DEF ExecInv
<1>5. QED  BY <1>2, <1>3, <1>4 DEF OnResult

-----------------------------------------------------------------------------
(* Theorems.                                                                   *)

(* Every call has all of its jobs before it. *)
LEMMA InitExec == Init => ExecInv
<1> SUFFICES ASSUME Init PROVE ExecInv
  OBVIOUS
<1>1. /\ plan \in Plans /\ todo = plan.fan /\ cmds = <<>> /\ pending = {} /\ overdue = {}
      /\ plan.fan \in [Calls -> Seq(Jobs)]
  BY ExecAssumption DEF Init, Fan
<1>2. Range(cmds) = {} /\ IsInjective(cmds)
  BY <1>1 DEF Range, IsInjective
<1>3. TypeInv
  BY <1>1, ExecAssumption DEF Init, TypeInv
<1>4. PlaceInv
  <2>1. \A c \in Calls : IsInjective(todo[c]) /\ Range(todo[c]) = JobsOf(c)
    BY <1>1, ExecAssumption DEF JobsOf, Fan
  <2>2. \A j \in Jobs : stage[j] = "new" /\ got[j] = <<>>
    BY DEF Init
  <2>3. QED  BY <1>1, <1>2, <1>3, <2>1, <2>2, AllWaitingJobs DEF PlaceInv
<1>5. AgentInv
  BY DEF Init, AgentInv
<1>6. UpInv /\ GotInv /\ WellFormedStream
  BY DEF Init, UpInv, GotInv, WellFormedStream
<1>7. ToldInv
  BY <1>1 DEF ToldInv, Waiting, JobsOf, Fan
<1>8. QED  BY <1>3, <1>4, <1>5, <1>6, <1>7 DEF ExecInv

(* Every step keeps the invariant. *)
LEMMA ExecStep == ExecInv /\ [Next]_vars => ExecInv'
<1> SUFFICES ASSUME ExecInv, [Next]_vars PROVE ExecInv'
  OBVIOUS
<1>0. UNCHANGED plan
  BY DEF Next, vars
<1>1. ASSUME NEW c \in Calls, FanOut(c) \/ Read(c) \/ Leave(c) PROVE ExecInv'
  BY <1>0, <1>1, FanOutAllowedStep, FanOutDeniedStep, IdleStep DEF FanOut
<1>2. CASE Command \/ Reap
  BY <1>0, <1>2, RefusedStep, SentStep, ReapStep DEF Command
<1>3. ASSUME NEW h \in Hosts, OnResult(h) \/ ResultLost(h) PROVE ExecInv'
  BY <1>0, <1>3, ResultStep, LostStep DEF ResultLost, sessVars
<1>4. ASSUME NEW h \in Hosts, Drop(h) \/ Rehello(h) \/ RehelloUnannounced(h) PROVE ExecInv'
  BY <1>0, <1>4, DropStep, RehelloStep, IdleStep
<1>5. ASSUME NEW j \in Jobs, AgentStarts(j) \/ DispatchLost(j) \/ Seal(j) \/ HandOver(j) PROVE ExecInv'
  BY <1>0, <1>5, DispatchArrives, SealStep, HandOverStep
<1>6. CASE (\E j \in Jobs : Expire(j)) \/ UNCHANGED vars
  BY <1>0, <1>6, IdleStep
<1>7. QED  BY <1>1, <1>2, <1>3, <1>4, <1>5, <1>6 DEF Next, Step

(* The invariant of the whole stream. *)
LEMMA ExecInvHolds == Spec => []ExecInv
  BY InitExec, ExecStep, PTL DEF Spec

(* What an operator sees of a job is some of its chunks, in order, and then at most one
   terminal event, whatever reap, purge and late result cross (handle_result,
   purge_host_jobs, reap_stale_jobs). *)
THEOREM StreamsWellFormed == Spec => []WellFormedStream
<1>1. ExecInv => WellFormedStream
  BY DEF ExecInv
<1>2. QED  BY <1>1, ExecInvHolds, PTL

(* An operator who stays and keeps up has the terminal event of every job when his
   stream ends, and `osa exec` can only call it a success if every job ran to its own
   outcome. *)
THEOREM EveryJobReported == Spec => []ReportedUnlessLagging
<1>1. ExecInv => ReportedUnlessLagging
  <2> SUFFICES ASSUME ExecInv, NEW c \in Calls, Ended(c), open[c], ~lagged[c]
               PROVE  /\ Reported(c) = JobsOf(c)
                      /\ MayExitZero(c) => \A j \in JobsOf(c) : sealed[j] = Chunks + 1
    BY DEF ReportedUnlessLagging
  <2>1. TypeInv /\ JobsOf(c) \subseteq Jobs
    BY WaitingJobs DEF ExecInv
  <2>2. ASSUME NEW j \in JobsOf(c)
        PROVE  got[j] \in Seq(Items) /\ got[j] # <<>> /\ Terminal(Last(got[j]))
               /\ Last(got[j]) \in Range(got[j])
    <3>1. j \notin Waiting(c) \union pending
      <4>1. Range(todo[c]) = {}
        BY DEF Ended, Range
      <4>2. QED  BY <2>2, <4>1 DEF Ended, Waiting
    <3>2. PICK n \in DOMAIN got[j] : Terminal(got[j][n])
      BY <3>1 DEF ExecInv, ToldInv
    <3>3. got[j] \in Seq(Items)
      BY <2>1 DEF TypeInv, Items
    <3>4. \A k \in DOMAIN got[j] : ~(n < k)
      BY <2>1, <3>2 DEF ExecInv, WellFormedStream
    <3>5. n = Len(got[j])
      <4>1. DOMAIN got[j] = 1..Len(got[j]) /\ Len(got[j]) \in Nat
        BY <3>3
      <4>2. n \in 1..Len(got[j]) /\ Len(got[j]) \in DOMAIN got[j]
        BY <3>2, <4>1
      <4>3. ~(n < Len(got[j]))
        BY <3>4, <4>2
      <4>4. QED  BY <4>1, <4>2, <4>3
    <3>6. QED  BY <3>2, <3>3, <3>5 DEF Last, Range
  <2>3. Reported(c) = JobsOf(c)
    BY <2>2 DEF Reported
  <2>4. ASSUME MayExitZero(c), NEW j \in JobsOf(c) PROVE sealed[j] = Chunks + 1
    <3>1. Last(got[j]) = Exit
      BY <2>2, <2>4 DEF MayExitZero, Terminal
    <3>2. PICK n \in DOMAIN got[j] : got[j][n] = Exit
      BY <2>2, <3>1 DEF Range
    <3>3. Past(j, Exit)
      BY <2>1, <3>2 DEF ExecInv, GotInv, Exit, Error
    <3>4. QED  BY <3>3 DEF Past
  <2>5. QED  BY <2>3, <2>4
<1>2. QED  BY <1>1, ExecInvHolds, PTL

=============================================================================
