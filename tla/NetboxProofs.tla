---------------------------- MODULE NetboxProofs ----------------------------
(* The inventory sink: no device is stolen, no primary dangles, no row is       *)
(* doubled, and a snapshot that counts as synced is what NetBox shows.           *)
EXTENDS Netbox, FiniteSetTheorems, TLAPS

-----------------------------------------------------------------------------
(* The inductive invariant.                                                    *)

Stages == {"idle", "wait", "match", "interfaces", "addresses", "ensure", "finalize", "delete"}
Fields == {"st", "host", "obs", "attempt", "dev", "cur", "old", "i", "j", "ifid", "kept", "p4", "p6"}
RowFields == {"id", "iface", "cidr"}

\* The states of a task x, as Holds and Reconciling have them.
Active(x) == x.st \notin {"idle", "wait"}
AtWork(x) == x.st \in {"interfaces", "addresses", "ensure", "finalize", "delete"}

\* Rows have ids of their own, and every address has its interface.
RowInv ==
  /\ lastId \in Nat
  /\ \A r \in ifaces : r.id \in 1..lastId
  /\ \A r, s \in ifaces : r.id = s.id => r = s
  /\ \A a \in addrs : DOMAIN a = RowFields /\ a.id \in 1..lastId /\ a.iface \in RowIds(ifaces)
  /\ \A a, b \in addrs : a.id = b.id => a = b

\* An interface, or an address, is on the device if it is still there.
IfaceOn(i, d) == \A r \in ifaces : r.id = i => r.dev = d
AddrOn(i, d) == \A a \in addrs : a.id = i => IfaceOn(a.iface, d)

\* The rows that a reconcile knows are its device's.
RowsKnown(x) ==
  /\ \A r \in x.cur : r.id \in 1..lastId /\ r.dev = x.dev /\ \A s \in ifaces : s.id = r.id => s = r
  /\ \A a \in x.old :
       /\ DOMAIN a = RowFields /\ a.id \in 1..lastId /\ AddrOn(a.id, x.dev)
       /\ \A b \in addrs : b.id = a.id => b.cidr = a.cidr
  /\ x.ifid # None => x.ifid \in 1..lastId /\ IfaceOn(x.ifid, x.dev)
  /\ \A i \in x.kept : i \in 1..lastId /\ AddrOn(i, x.dev)
  /\ {x.p4, x.p6} \subseteq x.kept \cup {None}

\* A snapshot is of a network its host may have.
Snapshot(h, obs) == \E hw \in Hardware[h], net \in Networks[h] : obs = collect(hw, net)

\* The device is the only one with the snapshot's serial.
Matched(x) ==
  /\ x.dev \in Devices /\ SerialOf[x.dev] = x.obs.serial
  /\ \A e \in Devices \ {x.dev} : SerialOf[e] # x.obs.serial

\* Nothing is done yet of an attempt.
Blank(x) ==
  /\ x.i = 1 /\ x.j = 0 /\ x.old = {} /\ x.ifid = None /\ x.kept = {} /\ x.p4 = None /\ x.p6 = None
  /\ x.st # "addresses" => x.cur = {}

\* The loop is at an interface of the snapshot (j = 0), or at an address of it.
InLoop(x) == x.i \in 1..Len(x.obs.ifs) /\ x.j \in 0..Len(x.obs.ifs[x.i].ips)

TaskGood(x) ==
  /\ x.st \in Stages
  /\ x.st # "idle" => x.host \in Hosts /\ x.obs.serial # NoSerial /\ Snapshot(x.host, x.obs)
  /\ Active(x) => DOMAIN x = Fields
  /\ x.st \in {"match", "interfaces", "addresses"} => Blank(x)
  /\ x.st = "ensure" => InLoop(x)
  /\ AtWork(x) => Matched(x) /\ RowsKnown(x)

\* Alone on its device, a reconcile finds it its own or unclaimed, and the primaries
\* as it left them.
Undisturbed(x) ==
  AtWork(x) /\ x.dev \notin contested =>
    /\ dev[x.dev].claim \in {NoHost, x.host}
    /\ x.st = "delete" => dev[x.dev] = [claim |-> x.host, p4 |-> x.p4, p6 |-> x.p6]

\* Tasks of one host take turns, and two on one device are noted.
Apart(x, y) ==
  /\ Active(x) /\ Active(y) => x.host # y.host
  /\ AtWork(x) /\ AtWork(y) /\ x.dev = y.dev => x.dev \in contested

\* Primaries are addresses of the device.
PrimaryInv ==
  \A d \in Devices : {dev[d].p4, dev[d].p6} \ {None} \subseteq RowIds(AddrsOf(d))

\* The loop has left position l of interface k behind.
Behind(x, k, l) == x.st # "ensure" \/ k < x.i \/ (k = x.i /\ l < x.j)

HostPrefixes == {<<v, 32>> : v \in V4} \cup {<<v, 128>> : v \in V6}

\* The names and the prefixes of the snapshot that it has left behind.
DoneNames(x) == {x.obs.ifs[k].name : k \in {n \in DOMAIN x.obs.ifs : Behind(x, n, 0)}}
DonePrefixes(x) ==
  {c \in HostPrefixes : \E k \in DOMAIN x.obs.ifs : \E l \in DOMAIN x.obs.ifs[k].ips :
                      to_cidr(x.obs.ifs[k].ips[l]) = <<c>> /\ Behind(x, k, l)}

DonePlaces(x) ==
  {p \in NamesIn(x.obs.ifs) \X HostPrefixes :
     \E k \in DOMAIN x.obs.ifs : \E l \in DOMAIN x.obs.ifs[k].ips :
       x.obs.ifs[k].name = p[1] /\ to_cidr(x.obs.ifs[k].ips[l]) = <<p[2]>> /\ Behind(x, k, l)}

\* One interface at most has the prefix.
OnOne(ifs, c) ==
  \A k, m \in DOMAIN ifs : \A l \in DOMAIN ifs[k].ips : \A n \in DOMAIN ifs[m].ips :
    to_cidr(ifs[k].ips[l]) = <<c>> /\ to_cidr(ifs[m].ips[n]) = <<c>> => k = m

\* The addresses with ids in K are at the places L, and at each that is the only one for
\* its prefix there is one.
SeatedIn(ifs, K, I, A, L) ==
  /\ \A b \in A : b.id \in K => \E r \in I : r.id = b.iface /\ <<r.name, b.cidr>> \in L
  /\ \A p \in L : OnOne(ifs, p[2]) =>
       \E b \in A : \E r \in I : b.id \in K /\ r.id = b.iface /\ p = <<r.name, b.cidr>>

Seated(x) == SeatedIn(x.obs.ifs, x.kept, OnDevice(x.dev), AddrsOf(x.dev), DonePlaces(x))

\* The device of x has all that the names N and the prefixes P ask for, and what it has
\* besides is in the lists that x read.
Reconciled(x, N, P) ==
  /\ x.cur \subseteq OnDevice(x.dev) /\ RowIds(x.old) \subseteq RowIds(AddrsOf(x.dev))
  /\ \A a \in x.old : a.id \notin x.kept => a \in AddrsOf(x.dev)
  /\ N \subseteq {r.name : r \in OnDevice(x.dev)}
  /\ \A r \in OnDevice(x.dev) : r \in x.cur \/ r.name \in N
  /\ \A c \in P : \E b \in AddrsOf(x.dev) : b.id \in x.kept /\ b.cidr = c
  /\ \A b \in AddrsOf(x.dev) : b.id \in x.kept \cup RowIds(x.old)
  /\ \A b \in AddrsOf(x.dev) : b.id \in x.kept =>
       b.cidr \in P /\ \E r \in OnDevice(x.dev) : r.id = b.iface /\ r.name \in N
  /\ x.p4 = None <=> \A c \in P : ~is_ipv4_cidr(c)
  /\ x.p6 = None <=> \A c \in P : is_ipv4_cidr(c)

\* Alone on its device, a reconcile sees all of it.
AllKnown(x) ==
  AtWork(x) /\ x.dev \notin contested =>
    /\ x.st = "addresses" => x.cur = OnDevice(x.dev)
    /\ x.st \in {"ensure", "finalize", "delete"} =>
         Reconciled(x, DoneNames(x), DonePrefixes(x)) /\ Seated(x)
    /\ x.st = "ensure" /\ x.j > 0 =>
         \E r \in OnDevice(x.dev) : r.id = x.ifid /\ r.name = x.obs.ifs[x.i].name

\* No prefix twice on the device, but for addresses that a host has twice.
Doubled(v) ==
  \E net \in UNION {Networks[h] : h \in Hosts} : \E n, m \in DOMAIN net : n # m /\ v \in net[n] \cap net[m]
NoneDoubled(d) ==
  d \notin contested =>
    \A a, b \in AddrsOf(d) : a # b /\ a.cidr = b.cidr => Doubled(a.cidr[1])

\* The device shows the last snapshot that was synced, unless it was written to since.
SyncInv ==
  /\ DOMAIN synced = Hosts
  /\ \A h \in Hosts : \A q \in synced[h] :
       h \notin torn /\ (\A d \in contested : SerialOf[d] # q[1]) =>
         Shows(h, [serial |-> q[1], ifs |-> q[3]])

NetInv ==
  /\ DOMAIN task = Slots /\ DOMAIN dev = Devices
  /\ RowInv /\ PrimaryInv /\ SyncInv
  /\ \A d \in Devices : NoneDoubled(d)
  /\ \A t \in Slots : TaskGood(task[t]) /\ Undisturbed(task[t]) /\ AllKnown(task[t])
  /\ \A t, u \in Slots : t # u => Apart(task[t], task[u])

-----------------------------------------------------------------------------
(* The parts of a step.                                                        *)

\* A step at device d leaves the other devices alone, moves no row from one device to
\* another, changes no prefix and gives out only new ids.
Frame(d) ==
  /\ DOMAIN dev' = Devices /\ lastId \in Nat /\ lastId' \in Nat /\ lastId <= lastId'
  /\ contested' = contested
  /\ \A e \in Devices \ {d} :
       dev'[e] = dev[e] /\ OnDevice(e)' = OnDevice(e) /\ AddrsOf(e)' = AddrsOf(e)
  /\ \A r \in ifaces' : r.id \in 1..lastId => r \in ifaces
  /\ \A i \in 1..lastId : \A e \in Devices : AddrOn(i, e) => AddrOn(i, e)'
  /\ \A b \in addrs' : b.id \in 1..lastId => \E a \in addrs : a.id = b.id /\ a.cidr = b.cidr

\* What the invariant says of a task alone.
Sound(x) == TaskGood(x) /\ Undisturbed(x) /\ AllKnown(x)

\* y continues x, or has let go of what x held.
Continues(x, y) ==
  /\ Active(y) => Active(x) /\ y.host = x.host
  /\ AtWork(y) => AtWork(x) /\ y.dev = x.dev

(* A task that is not at work looks at no row. *)
LEMMA OffWork ==
  ASSUME NEW x, ~AtWork(x), TaskGood(x)
  PROVE  Sound(x)'
BY DEF Sound, TaskGood, Undisturbed, AllKnown

(* What a reconcile knows of its device's rows stays true when rows stay put. *)
LEMMA KnownStays ==
  ASSUME NEW d, Frame(d), NEW x, TaskGood(x)
  PROVE  TaskGood(x)'
<1>1. CASE ~AtWork(x) BY <1>1 DEF TaskGood
<1>2. CASE AtWork(x)
  <2>1. RowsKnown(x) /\ Matched(x) BY <1>2 DEF TaskGood
  <2>2. \A r \in x.cur : r.id \in 1..lastId' /\ r.dev = x.dev /\ \A s \in ifaces' : s.id = r.id => s = r
    BY <2>1 DEF RowsKnown, Frame
  <2>3. \A a \in x.old : DOMAIN a = RowFields /\ a.id \in 1..lastId' /\ AddrOn(a.id, x.dev)'
    BY <2>1 DEF RowsKnown, Frame, Matched
  <2>4. \A a \in x.old : \A b \in addrs' : b.id = a.id => b.cidr = a.cidr
    BY <2>1 DEF RowsKnown, Frame
  <2>5. x.ifid # None => x.ifid \in 1..lastId' /\ IfaceOn(x.ifid, x.dev)'
    BY <2>1 DEF RowsKnown, Frame, IfaceOn
  <2>6. \A i \in x.kept : i \in 1..lastId' /\ AddrOn(i, x.dev)'
    BY <2>1 DEF RowsKnown, Frame, Matched
  <2>7. RowsKnown(x)' BY <2>1, <2>2, <2>3, <2>4, <2>5, <2>6 DEF RowsKnown
  <2> QED BY <2>1, <2>7 DEF TaskGood, Matched
<1> QED BY <1>1, <1>2

(* A step at a device that another task leaves alone keeps that task sound. *)
LEMMA BystanderStays ==
  ASSUME NEW d, Frame(d), NEW x, Sound(x), AtWork(x) => x.dev # d \/ d \in contested
  PROVE  Sound(x)'
<1>1. TaskGood(x)' BY KnownStays DEF Sound
<1>2. CASE ~AtWork(x) BY <1>2, OffWork DEF Sound
<1>3. CASE x.dev \in contested BY <1>1, <1>3 DEF Sound, Undisturbed, AllKnown, Frame
<1>4. CASE AtWork(x) /\ x.dev # d
  <2>1. x.dev \in Devices BY <1>4 DEF Sound, TaskGood, Matched
  <2>2. /\ dev'[x.dev] = dev[x.dev] /\ OnDevice(x.dev)' = OnDevice(x.dev)
        /\ AddrsOf(x.dev)' = AddrsOf(x.dev) /\ contested' = contested
    BY <1>4, <2>1 DEF Frame
  <2>3. Undisturbed(x)' BY <2>2 DEF Sound, Undisturbed
  <2>4. AllKnown(x)' BY <2>2 DEF Sound, AllKnown, Reconciled, Seated
  <2> QED BY <1>1, <2>3, <2>4 DEF Sound
<1> QED BY <1>2, <1>3, <1>4

\* The tasks beside t stay sound.
OthersSound(t) == \A x : (\E u \in Slots \ {t} : x = task[u]) => Sound(x)'

(* A step of task t keeps the invariant if the rows stay in order, the other tasks
   sound, and what becomes of t is sound and keeps apart. *)
LEMMA TaskStep ==
  ASSUME NetInv, NEW t \in Slots, NEW y, task' = [task EXCEPT ![t] = y], DOMAIN dev' = Devices,
         RowInv', PrimaryInv', SyncInv', OthersSound(t), Sound(y)',
         \A d \in Devices : NoneDoubled(d)',
         contested \subseteq contested',
         \A u \in Slots \ {t} : \A x : x = task[u] => Apart(x, y)' /\ Apart(y, x)'
  PROVE  NetInv'
<1>1. DOMAIN task' = Slots /\ task'[t] = y /\ \A u \in Slots \ {t} : task'[u] = task[u]
  BY DEF NetInv
<1>2. ASSUME NEW u \in Slots PROVE TaskGood(task[u])' /\ Undisturbed(task[u])' /\ AllKnown(task[u])'
  <2>1. PICK x : x = task'[u] OBVIOUS
  <2>2. Sound(x)' BY <1>1, <2>1 DEF OthersSound
  <2>3. TaskGood(x)' /\ Undisturbed(x)' /\ AllKnown(x)' BY <2>2 DEF Sound
  <2>4. TaskGood(task[u])' BY <2>1, <2>3 DEF TaskGood, RowsKnown, IfaceOn, AddrOn
  <2>5. Undisturbed(task[u])' BY <2>1, <2>3 DEF Undisturbed, AtWork
  <2>6. AllKnown(task[u])' BY <2>1, <2>3 DEF AllKnown, Reconciled, Seated, OnDevice, AddrsOf
  <2> QED BY <2>4, <2>5, <2>6
<1>3. ASSUME NEW u \in Slots, NEW v \in Slots, u # v PROVE Apart(task[u], task[v])'
  <2>1. PICK x, z : x = task'[u] /\ z = task'[v] OBVIOUS
  <2>2. Apart(x, z)'
    <3>1. CASE u # t /\ v # t
      <4>1. x = task[u] /\ z = task[v] BY <1>1, <2>1, <3>1
      <4>2. Apart(x, z) BY <1>3, <4>1 DEF NetInv
      <4> QED BY <4>2 DEF Apart
    <3>2. CASE u = t BY <1>1, <1>3, <2>1, <3>2
    <3>3. CASE v = t BY <1>1, <1>3, <2>1, <3>3
    <3> QED BY <3>1, <3>2, <3>3
  <2> QED BY <2>1, <2>2 DEF Apart, Active, AtWork
<1> QED BY <1>1, <1>2, <1>3 DEF NetInv

(* What continues a task is as far apart from the others as the task was. *)
LEMMA StillApart ==
  ASSUME NEW x, NEW y, NEW z, Apart(x, z), Apart(z, x), Continues(x, y), contested \subseteq contested'
  PROVE  Apart(y, z)' /\ Apart(z, y)'
BY DEF Apart, Continues

(* A task stays sound when NetBox is left alone. *)
LEMMA SoundStays ==
  ASSUME UNCHANGED <<dev, ifaces, addrs, lastId>>, contested \subseteq contested', NEW x, Sound(x)
  PROVE  Sound(x)'
BY DEF Sound, TaskGood, Undisturbed, AllKnown, Reconciled, Seated, RowsKnown, IfaceOn, AddrOn, OnDevice,
       AddrsOf

(* A step that NetBox does not see, and that forgets nothing. *)
LEMMA InnerStep ==
  ASSUME NetInv, NEW t \in Slots, NEW y, task' = [task EXCEPT ![t] = y],
         UNCHANGED <<dev, ifaces, addrs, lastId, contested>>, SyncInv',
         Continues(task[t], y), Sound(y)'
  PROVE  NetInv'
<1>1. RowInv' /\ PrimaryInv' /\ \A d \in Devices : NoneDoubled(d)'
  <2>1. \A d \in Devices : OnDevice(d)' = OnDevice(d) /\ AddrsOf(d)' = AddrsOf(d) BY DEF OnDevice, AddrsOf
  <2>2. RowInv' BY DEF NetInv, RowInv
  <2>3. PrimaryInv' BY <2>1 DEF NetInv, PrimaryInv
  <2>4. \A d \in Devices : NoneDoubled(d)' BY <2>1 DEF NetInv, NoneDoubled
  <2> QED BY <2>2, <2>3, <2>4
<1>2. ASSUME NEW x, Sound(x) PROVE Sound(x)' BY <1>2, SoundStays
<1>3. OthersSound(t)
  BY <1>2 DEF NetInv, OthersSound, Sound
<1>4. ASSUME NEW u \in Slots \ {t}, NEW x, x = task[u] PROVE Apart(x, y)' /\ Apart(y, x)'
  <2>1. PICK w : w = task[t] OBVIOUS
  <2>2. Apart(w, x) /\ Apart(x, w) BY <1>4, <2>1 DEF NetInv
  <2>3. Continues(w, y) /\ contested \subseteq contested' BY <2>1
  <2> QED BY <2>2, <2>3, StillApart
<1> QED BY <1>1, <1>3, <1>4, TaskStep DEF NetInv

(* What a device shows does not change by itself. *)
LEMMA StillShows ==
  ASSUME UNCHANGED <<dev, ifaces, addrs>>, NEW h, NEW obs, Shows(h, obs)
  PROVE  Shows(h, obs)'
<1>1. \A d \in Devices : OnDevice(d)' = OnDevice(d) /\ AddrsOf(d)' = AddrsOf(d) BY DEF OnDevice, AddrsOf
<1> QED BY <1>1 DEF Shows, PlacesOf

(* What is synced stays so when NetBox is left alone. *)
LEMMA QuietSync ==
  ASSUME SyncInv, UNCHANGED <<dev, ifaces, addrs, synced, torn>>, contested \subseteq contested'
  PROVE  SyncInv'
<1> SUFFICES ASSUME NEW h \in Hosts, NEW q \in synced[h], h \notin torn,
                    \A d \in contested' : SerialOf[d] # q[1]
             PROVE  Shows(h, [serial |-> q[1], ifs |-> q[3]])'
  BY DEF SyncInv
<1> PICK obs : obs = [serial |-> q[1], ifs |-> q[3]] OBVIOUS
<1>1. Shows(h, obs) BY DEF SyncInv
<1>2. Shows(h, obs)' BY <1>1, StillShows
<1> QED BY <1>2

(* A step that NetBox does not see. *)
LEMMA QuietStep ==
  ASSUME NetInv, NEW t \in Slots, NEW y, task' = [task EXCEPT ![t] = y],
         UNCHANGED <<dev, ifaces, addrs, lastId, contested, synced, torn>>,
         Continues(task[t], y), Sound(y)'
  PROVE  NetInv'
<1>1. SyncInv' BY QuietSync DEF NetInv
<1> QED BY <1>1, InnerStep

\* Task t has written at its device.
Written(t) ==
  /\ Frame(task[t].dev) /\ RowInv' /\ PrimaryInv'
  /\ \A d : d = task[t].dev => NoneDoubled(d)'
  /\ torn' = torn \cup {task[t].host} /\ synced' = synced

(* Writing does not make what is synced stale unnoticed. *)
LEMMA SyncStays ==
  ASSUME NetInv, NEW t \in Slots, AtWork(task[t]), Written(t)
  PROVE  SyncInv'
<1> PICK x : x = task[t] OBVIOUS
<1>1. /\ x.dev \in Devices /\ x.host \in Hosts
      /\ x.dev \notin contested => dev[x.dev].claim \in {NoHost, x.host}
  BY DEF NetInv, TaskGood, Matched, Undisturbed, AtWork
<1>2. Frame(x.dev) /\ torn' = torn \cup {x.host} /\ synced' = synced BY DEF Written
<1> SUFFICES ASSUME NEW h \in Hosts, NEW q \in synced[h], h \notin torn',
                    \A d \in contested' : SerialOf[d] # q[1]
             PROVE  Shows(h, [serial |-> q[1], ifs |-> q[3]])'
  BY <1>2 DEF NetInv, SyncInv
<1> PICK obs : obs = [serial |-> q[1], ifs |-> q[3]] OBVIOUS
<1>3. h # x.host /\ h \notin torn /\ \A d \in contested : SerialOf[d] # q[1] BY <1>2 DEF Frame
<1>4. Shows(h, obs) BY <1>3 DEF NetInv, SyncInv
<1>5. obs.serial = q[1] OBVIOUS
<1>6. SerialOf[x.dev] # obs.serial
  <2> SUFFICES ASSUME SerialOf[x.dev] = obs.serial PROVE FALSE OBVIOUS
  <2>1. dev[x.dev].claim = h BY <1>1, <1>4 DEF Shows
  <2>2. x.dev \notin contested BY <1>3, <1>5
  <2> QED BY <1>1, <1>3, <2>1, <2>2, NetboxAssumption
<1>7. \A d \in Devices : SerialOf[d] = obs.serial =>
        dev'[d] = dev[d] /\ OnDevice(d)' = OnDevice(d) /\ AddrsOf(d)' = AddrsOf(d)
  BY <1>2, <1>6 DEF Frame
<1>8. Shows(h, obs)' BY <1>4, <1>7 DEF Shows, PlacesOf
<1> QED BY <1>8

(* A step that writes, at the device of its task. *)
LEMMA WriteStep ==
  ASSUME NetInv, NEW t \in Slots, NEW y, task' = [task EXCEPT ![t] = y],
         AtWork(task[t]), Written(t), Continues(task[t], y), Sound(y)'
  PROVE  NetInv'
<1> PICK w : w = task[t] OBVIOUS
<1>0. Frame(w.dev) BY DEF Written
<1>1. ASSUME NEW u \in Slots \ {t}, NEW x, x = task[u]
      PROVE  Sound(x)' /\ Apart(x, y)' /\ Apart(y, x)'
  <2>1. Sound(x) /\ Apart(w, x) /\ Apart(x, w) BY <1>1 DEF NetInv, Sound
  <2>2. AtWork(x) => x.dev # w.dev \/ w.dev \in contested BY <2>1 DEF Apart
  <2>3. Sound(x)' BY <1>0, <2>1, <2>2, BystanderStays
  <2>4. Continues(w, y) /\ contested \subseteq contested' BY <1>0 DEF Frame
  <2> QED BY <2>1, <2>3, <2>4, StillApart
<1>2. OthersSound(t) BY <1>1 DEF OthersSound
<1>3. \A d \in Devices : NoneDoubled(d)'
  <2>1. NoneDoubled(w.dev)' BY DEF Written
  <2>2. ASSUME NEW d \in Devices, d # w.dev PROVE NoneDoubled(d)'
    <3>1. AddrsOf(d)' = AddrsOf(d) /\ contested' = contested BY <1>0, <2>2 DEF Frame
    <3>2. NoneDoubled(d) BY DEF NetInv
    <3> QED BY <3>1, <3>2 DEF NoneDoubled
  <2> QED BY <2>1, <2>2
<1>4. RowInv' /\ PrimaryInv' /\ SyncInv' BY SyncStays DEF Written
<1> QED BY <1>0, <1>1, <1>2, <1>3, <1>4, TaskStep DEF Frame

-----------------------------------------------------------------------------
(* Snapshots.                                                                  *)

(* A function on an initial segment is a sequence of that length. *)
LEMMA SeqOfFunction ==
  ASSUME NEW S, NEW n \in Nat, NEW f \in [1..n -> S]
  PROVE  Len(f) = n /\ (f = <<>> <=> n = 0)
<1>1. f \in Seq(S) OBVIOUS
<1>2. Len(f) \in Nat /\ DOMAIN f = 1..Len(f) BY <1>1
<1>3. Len(f) = n BY <1>2
<1> QED BY <1>1, <1>3

(* A finite set as a sequence: each element once (sorted_deduped). *)
LEMMA SetToSeqOnce ==
  ASSUME NEW S, IsFiniteSet(S)
  PROVE  /\ Cardinality(S) \in Nat /\ SetToSeq(S) \in [1..Cardinality(S) -> S]
         /\ DOMAIN SetToSeq(S) = 1..Cardinality(S)
         /\ \A k \in 1..Cardinality(S) : SetToSeq(S)[k] \in S
         /\ \A k, l \in 1..Cardinality(S) : SetToSeq(S)[k] = SetToSeq(S)[l] => k = l
<1>1. \E f \in [1..Cardinality(S) -> S] : IsInjective(f)
  BY FS_CardinalityType DEF ExistsBijection, Bijection, Injection, IsInjective
<1>2. SetToSeq(S) \in [1..Cardinality(S) -> S] /\ IsInjective(SetToSeq(S))
  BY <1>1 DEF SetToSeq
<1> QED BY <1>2, FS_CardinalityType DEF IsInjective

\* The interfaces of a snapshot come from a network: other names, other interfaces, and
\* an address once under each.
OfNetwork(ifs, net) ==
  /\ Len(ifs) \in Nat /\ DOMAIN ifs = 1..Len(ifs) /\ (ifs = <<>> <=> Len(ifs) = 0)
  /\ \A k \in DOMAIN ifs :
       /\ ifs[k].name \in DOMAIN net
       /\ Len(ifs[k].ips) \in Nat /\ DOMAIN ifs[k].ips = 1..Len(ifs[k].ips)
       /\ \A l \in DOMAIN ifs[k].ips : ifs[k].ips[l] \in net[ifs[k].name]
       /\ \A l, m \in DOMAIN ifs[k].ips : ifs[k].ips[l] = ifs[k].ips[m] => l = m
  /\ \A k, l \in DOMAIN ifs : ifs[k].name = ifs[l].name => k = l

(* What collect_interfaces makes of a network. *)
LEMMA CollectedOnce ==
  ASSUME NEW h \in Hosts, NEW net \in Networks[h]
  PROVE  OfNetwork(collect_interfaces(net), net)
<1> PICK ifs : ifs = collect_interfaces(net) OBVIOUS
<1> PICK names : names = SetToSeq(DOMAIN net) OBVIOUS
<1> PICK n : n = Cardinality(DOMAIN net) OBVIOUS
<1>1. /\ n \in Nat /\ DOMAIN names = 1..n /\ \A k \in 1..n : names[k] \in DOMAIN net
      /\ \A k, l \in 1..n : names[k] = names[l] => k = l
  BY SetToSeqOnce, NetboxAssumption
<1>2. /\ DOMAIN ifs = 1..n
      /\ \A k \in 1..n : ifs[k].name = names[k] /\ ifs[k].ips = SetToSeq(net[names[k]])
  BY DEF collect_interfaces, sorted_deduped
<1>3. ASSUME NEW k \in 1..n
      PROVE  /\ Len(ifs[k].ips) \in Nat /\ DOMAIN ifs[k].ips = 1..Len(ifs[k].ips)
             /\ \A l \in DOMAIN ifs[k].ips : ifs[k].ips[l] \in net[ifs[k].name]
             /\ \A l, m \in DOMAIN ifs[k].ips : ifs[k].ips[l] = ifs[k].ips[m] => l = m
  <2>1. PICK S : S = net[names[k]] OBVIOUS
  <2>2. IsFiniteSet(S) BY <1>1, <2>1, NetboxAssumption
  <2> PICK c, q : c = Cardinality(S) /\ q = SetToSeq(S) OBVIOUS
  <2>3. /\ c \in Nat /\ q \in [1..c -> S] /\ DOMAIN q = 1..c /\ \A l \in 1..c : q[l] \in S
        /\ \A l, m \in 1..c : q[l] = q[m] => l = m
    BY <2>2, SetToSeqOnce
  <2>4. ifs[k].ips = q /\ ifs[k].name = names[k] BY <1>2, <2>1
  <2>5. net[ifs[k].name] = S BY <2>1, <2>4
  <2>6. Len(q) = c BY ONLY <2>3, SeqOfFunction
  <2> QED BY ONLY <2>3, <2>4, <2>5, <2>6
<1>4. Len(ifs) = n /\ (ifs = <<>> <=> n = 0)
  <2> PICK S : S = {ifs[k] : k \in 1..n} OBVIOUS
  <2>1. ifs \in [1..n -> S] BY <1>2 DEF collect_interfaces
  <2> QED BY ONLY <1>1, <2>1, SeqOfFunction
<1>5. OfNetwork(ifs, net) BY <1>1, <1>2, <1>3, <1>4 DEF OfNetwork
<1> QED BY <1>5

(* The serial of a snapshot is one of its host's own, and NetBox can be asked for it. *)
LEMMA OwnSerial ==
  ASSUME NEW h \in Hosts, NEW obs, Snapshot(h, obs), obs.serial # NoSerial
  PROVE  obs.serial \in Genuine(h) /\ obs.serial \in DOMAIN Filter
<1>1. PICK hw \in Hardware[h], net \in Networks[h] : obs = collect(hw, net) BY DEF Snapshot
<1>2. obs.serial = read_dmi_serial(hw) BY <1>1 DEF collect
<1>3. PICK f \in {hw.product, hw.board} : f.kind = "serial" /\ obs.serial = f.serial
  BY <1>2 DEF read_dmi_serial, normalize_serial
<1>4. f \in UNION {{g.product, g.board} : g \in Hardware[h]} OBVIOUS
<1>5. f.serial \in Genuine(h) BY <1>3, <1>4 DEF Genuine
<1>6. f.serial \in DOMAIN Filter BY <1>3, NetboxAssumption
<1> QED BY <1>3, <1>5, <1>6

-----------------------------------------------------------------------------
(* How a task goes on.                                                         *)

(* A task that has ended. *)
LEMMA EndedSound ==
  ASSUME NEW x
  PROVE  ~AtWork(Idle) /\ TaskGood(Idle) /\ Sound(Idle)' /\ Continues(x, Idle)
<1> PICK y : y = Idle OBVIOUS
<1>1. y.st = "idle" BY DEF Idle
<1>2. ~AtWork(y) /\ TaskGood(y) /\ Continues(x, y)
  BY <1>1 DEF AtWork, Active, TaskGood, Continues, Stages
<1>3. Sound(y)' BY <1>2, OffWork
<1> QED BY <1>2, <1>3

(* The start of an attempt. *)
LEMMA AttemptGood ==
  ASSUME NEW h \in Hosts, NEW obs, obs.serial # NoSerial, Snapshot(h, obs), NEW n
  PROVE  /\ TaskGood(Attempt(h, obs, n)) /\ ~AtWork(Attempt(h, obs, n))
         /\ Attempt(h, obs, n).host = h /\ Active(Attempt(h, obs, n))
<1> PICK y : y = Attempt(h, obs, n) OBVIOUS
<1>1. y.st = "match" /\ y.host = h /\ y.obs = obs BY DEF Attempt
<1>2. DOMAIN y = Fields BY DEF Attempt, Fields
<1>3. Blank(y) BY <1>1 DEF Attempt, Blank
<1>4. TaskGood(y) BY <1>1, <1>2, <1>3 DEF TaskGood, Stages, AtWork
<1> QED BY <1>1, <1>4 DEF AtWork, Active

(* A transient error: the next attempt, or the end. *)
LEMMA RetriedGood ==
  ASSUME NetInv, NEW t \in Slots, Active(task[t]), NEW y, y = Retried(t)
  PROVE  Sound(y)' /\ Continues(task[t], y)
<1> PICK x : x = task[t] OBVIOUS
<1>1. TaskGood(x) BY DEF NetInv
<1>2. x.host \in Hosts /\ x.obs.serial # NoSerial /\ Snapshot(x.host, x.obs)
  BY <1>1 DEF TaskGood, Active
<1>3. y = Idle \/ y = Attempt(x.host, x.obs, x.attempt + 1) BY DEF Retried
<1>4. ~AtWork(y) /\ TaskGood(y) /\ Continues(x, y)
  <2>1. CASE y = Idle BY <2>1, EndedSound
  <2>2. CASE y = Attempt(x.host, x.obs, x.attempt + 1)
    <3>1. PICK n : n = x.attempt + 1 OBVIOUS
    <3>2. y = Attempt(x.host, x.obs, n) BY <2>2, <3>1
    <3> QED BY <1>2, <3>2, AttemptGood DEF Continues
  <2> QED BY <1>3, <2>1, <2>2
<1> QED BY <1>4, OffWork

\* The fields of a task that the loop over interfaces and addresses leaves alone.
SameRows(x, y) ==
  /\ y.host = x.host /\ y.obs = x.obs /\ y.dev = x.dev /\ y.cur = x.cur /\ y.old = x.old
  /\ y.ifid = x.ifid /\ y.kept = x.kept /\ y.p4 = x.p4 /\ y.p6 = x.p6

(* The loop goes to the next address, the next interface, or ends. *)
LEMMA OnwardsGoes ==
  ASSUME NEW t, NEW x, DOMAIN x = Fields, x.st = "ensure", NEW y, y = Onwards(t, x)
  PROVE  /\ SameRows(x, y) /\ DOMAIN y = Fields
         /\ \/ y.st = "ensure" /\ y.i = x.i /\ y.j = x.j + 1
            \/ y.st = "ensure" /\ y.i = x.i + 1 /\ y.j = 0
            \/ y.st = "finalize"
<1>1. CASE y = [x EXCEPT !.j = x.j + 1] BY <1>1 DEF SameRows, Fields
<1>2. CASE y = [x EXCEPT !.i = x.i + 1, !.j = 0] BY <1>2 DEF SameRows, Fields
<1>3. CASE y = [x EXCEPT !.st = "finalize"] BY <1>3 DEF SameRows, Fields
<1> QED BY <1>1, <1>2, <1>3 DEF Onwards

(* The interfaces of a task's snapshot. *)
LEMMA TaskNetwork ==
  ASSUME NEW x, TaskGood(x), x.st # "idle"
  PROVE  \E net \in UNION {Networks[h] : h \in Hosts} : OfNetwork(x.obs.ifs, net)
<1>1. x.host \in Hosts /\ Snapshot(x.host, x.obs) BY DEF TaskGood
<1>2. PICK hw \in Hardware[x.host], net \in Networks[x.host] : x.obs = collect(hw, net)
  BY <1>1 DEF Snapshot
<1>3. x.obs.ifs = collect_interfaces(net) BY <1>2 DEF collect
<1>4. OfNetwork(x.obs.ifs, net) BY <1>1, <1>3, CollectedOnce
<1> QED BY <1>1, <1>4

(* A prefix is of the address it was made from. *)
LEMMA CidrOf ==
  ASSUME NEW ip
  PROVE  \/ to_cidr(ip) = <<>>
         \/ \E c \in HostPrefixes : to_cidr(ip) = <<c>> /\ c[1] = ip
BY DEF to_cidr, HostPrefixes

-----------------------------------------------------------------------------
(* The loop over interfaces and addresses.                                     *)

\* The prefix that the loop is at, if it is at an address.
AtPrefix(x) ==
  {c \in HostPrefixes : x.j > 0 /\ to_cidr(x.obs.ifs[x.i].ips[x.j]) = <<c>>}

AtPlace(x) == {<<x.obs.ifs[x.i].name, c>> : c \in AtPrefix(x)}

\* x1 is x with other rows of its own.
SamePlace(x, x1) ==
  /\ DOMAIN x1 = Fields /\ x1.st = "ensure" /\ x1.i = x.i /\ x1.j = x.j
  /\ x1.host = x.host /\ x1.obs = x.obs /\ x1.dev = x.dev /\ x1.cur = x.cur /\ x1.old = x.old

(* The place that the loop leaves is done, and it leaves no other. *)
LEMMA OnwardsDone ==
  ASSUME NEW t, NEW x, x = task[t], TaskGood(x), x.st = "ensure",
         NEW x1, SamePlace(x, x1), NEW y, y = Onwards(t, x1)
  PROVE  /\ y.st = "ensure" => InLoop(y)
         /\ DoneNames(y) = DoneNames(x) \cup {x.obs.ifs[x.i].name}
         /\ DonePrefixes(y) = DonePrefixes(x) \cup AtPrefix(x)
         /\ DonePlaces(y) = DonePlaces(x) \cup AtPlace(x)
<1> PICK ifs : ifs = x.obs.ifs OBVIOUS
<1> PICK n : n = Len(ifs) OBVIOUS
<1> PICK m : m = Len(ifs[x.i].ips) OBVIOUS
<1>1. PICK net \in UNION {Networks[h] : h \in Hosts} : OfNetwork(ifs, net) BY TaskNetwork
<1>2. /\ n \in Nat /\ DOMAIN ifs = 1..n
      /\ \A k \in 1..n : Len(ifs[k].ips) \in Nat /\ DOMAIN ifs[k].ips = 1..Len(ifs[k].ips)
  BY <1>1 DEF OfNetwork
<1>3. x.i \in 1..n /\ x.j \in 0..m /\ m \in Nat BY <1>2 DEF TaskGood, InLoop
<1>4. y.obs.ifs = ifs BY OnwardsGoes DEF SamePlace, SameRows
<1>5. \/ y.st = "ensure" /\ x.j < m /\ y.i = x.i /\ y.j = x.j + 1
      \/ y.st = "ensure" /\ ~(x.j < m) /\ x.i < n /\ y.i = x.i + 1 /\ y.j = 0
      \/ y.st = "finalize" /\ ~(x.j < m) /\ ~(x.i < n)
  <2>1. y = IF x.j < m THEN [x1 EXCEPT !.j = @ + 1]
            ELSE IF x.i < n THEN [x1 EXCEPT !.i = @ + 1, !.j = 0]
            ELSE [x1 EXCEPT !.st = "finalize"]
    BY DEF Onwards, SamePlace, Observed
  <2> QED BY <2>1 DEF SamePlace, Fields
<1> PICK i, j : i = x.i /\ j = x.j OBVIOUS
<1>6. y.st = "ensure" => InLoop(y)
  <2>1. CASE j < m /\ y.i = i /\ y.j = j + 1
    <3>1. y.i \in 1..n /\ y.j \in 0..m BY <1>3, <2>1, SMTT(40)
    <3> QED BY <1>4, <2>1, <3>1 DEF InLoop
  <2>2. CASE i < n /\ y.i = i + 1 /\ y.j = 0
    <3>1. y.i \in 1..n BY <1>2, <1>3, <2>2
    <3>2. Len(ifs[y.i].ips) \in Nat BY <1>2, <3>1
    <3> QED BY <1>4, <2>2, <3>1, <3>2 DEF InLoop
  <2> QED BY <1>5, <2>1, <2>2
<1>7. ASSUME NEW k \in 1..n, NEW l \in Nat, l <= Len(ifs[k].ips)
      PROVE  Behind(y, k, l) <=> Behind(x, k, l) \/ (k = x.i /\ l = x.j)
  <2> PICK L : L = Len(ifs[k].ips) OBVIOUS
  <2>1. L \in Nat /\ l <= L /\ (k = i => L = m) BY <1>2, <1>7
  <2>2. Behind(x, k, l) <=> k < i \/ (k = i /\ l < j) BY DEF Behind
  <2>3. i \in 1..n /\ j \in 0..m /\ m \in Nat /\ n \in Nat BY <1>2, <1>3
  <2>4. CASE y.st = "ensure" /\ j < m /\ y.i = i /\ y.j = j + 1
    <3>1. Behind(y, k, l) <=> k < i \/ (k = i /\ l < j + 1) BY <2>4 DEF Behind
    <3>2. l < j + 1 <=> l < j \/ l = j BY ONLY l \in Nat, <2>3
    <3> QED BY <2>2, <3>1, <3>2
  <2>5. CASE y.st = "ensure" /\ ~(j < m) /\ y.i = i + 1 /\ y.j = 0
    <3>1. Behind(y, k, l) <=> k < i + 1 \/ (k = i + 1 /\ l < 0) BY <2>5 DEF Behind
    <3>2. Behind(y, k, l) <=> k < i \/ k = i BY ONLY k \in 1..n, l \in Nat, <2>3, <3>1
    <3>3. k = i => l < j \/ l = j BY <2>1, <2>3, <2>5, SMTT(40)
    <3> QED BY <2>2, <3>2, <3>3
  <2>6. CASE y.st = "finalize" /\ ~(j < m) /\ ~(i < n)
    <3>1. Behind(y, k, l) BY <2>6 DEF Behind
    <3>2. k < i \/ k = i BY <2>3, <2>6
    <3>3. k = i => l < j \/ l = j BY <2>1, <2>3, <2>6, SMTT(40)
    <3> QED BY <2>2, <3>1, <3>2, <3>3
  <2> QED BY <1>5, <2>4, <2>5, <2>6
<1>8. DoneNames(y) = DoneNames(x) \cup {ifs[x.i].name}
  <2>1. \A k \in 1..n : Behind(y, k, 0) <=> Behind(x, k, 0) \/ (k = x.i /\ x.j = 0)
    BY <1>2, <1>7
  <2>2. x.j = 0 \/ Behind(x, x.i, 0) BY <1>3 DEF Behind
  <2>3. \A k \in 1..n : Behind(y, k, 0) <=> Behind(x, k, 0) \/ k = x.i
    BY <1>3, <2>1, <2>2
  <2> QED BY <1>2, <1>3, <1>4, <2>3 DEF DoneNames
<1>9. ASSUME NEW c PROVE c \in DonePrefixes(y) <=> c \in DonePrefixes(x) \/ c \in AtPrefix(x)
  <2>1. \A k \in 1..n : \A l \in 1..Len(ifs[k].ips) :
          Behind(y, k, l) <=> Behind(x, k, l) \/ (k = x.i /\ l = x.j)
    BY <1>2, <1>7
  <2>2. x.j > 0 => x.j \in 1..Len(ifs[x.i].ips) BY <1>3
  <2>3. \A l \in DOMAIN ifs[x.i].ips : l > 0 BY <1>2, <1>3, SMTT(40)
  <2>4. c \in DonePrefixes(y) <=>
          /\ c \in HostPrefixes
          /\ \E k \in 1..n : \E l \in 1..Len(ifs[k].ips) :
               to_cidr(ifs[k].ips[l]) = <<c>> /\ (Behind(x, k, l) \/ (k = i /\ l = j))
    <3>1. c \in DonePrefixes(y) <=>
            /\ c \in HostPrefixes
            /\ \E k \in DOMAIN ifs : \E l \in DOMAIN ifs[k].ips :
                 to_cidr(ifs[k].ips[l]) = <<c>> /\ Behind(y, k, l)
      BY ONLY <1>4 DEF DonePrefixes
    <3>2. x.i = i /\ x.j = j OBVIOUS
    <3> QED BY ONLY <1>2, <2>1, <3>1, <3>2, ZenonT(60)
  <2>5. c \in DonePrefixes(x) <=>
          /\ c \in HostPrefixes
          /\ \E k \in 1..n : \E l \in 1..Len(ifs[k].ips) :
               to_cidr(ifs[k].ips[l]) = <<c>> /\ Behind(x, k, l)
    BY <1>2, ZenonT(60) DEF DonePrefixes
  <2>6. c \in AtPrefix(x) <=>
          c \in HostPrefixes /\ j \in 1..Len(ifs[i].ips) /\ to_cidr(ifs[i].ips[j]) = <<c>>
    BY <1>2, <1>3, <2>2, <2>3 DEF AtPrefix
  <2>7. i \in 1..n BY <1>3
  <2> QED BY ONLY <2>4, <2>5, <2>6, <2>7
<1>10. ASSUME NEW p PROVE p \in DonePlaces(y) <=> p \in DonePlaces(x) \/ p \in AtPlace(x)
  <2> PICK S : S = NamesIn(ifs) \X HostPrefixes OBVIOUS
  <2>1. \A k \in 1..n : \A l \in 1..Len(ifs[k].ips) :
          Behind(y, k, l) <=> Behind(x, k, l) \/ (k = i /\ l = j)
    BY <1>2, <1>7
  <2>2. p \in DonePlaces(y) <=>
          /\ p \in S
          /\ \E k \in 1..n : \E l \in 1..Len(ifs[k].ips) :
               /\ ifs[k].name = p[1] /\ to_cidr(ifs[k].ips[l]) = <<p[2]>>
               /\ Behind(x, k, l) \/ (k = i /\ l = j)
    <3>1. p \in DonePlaces(y) <=>
            /\ p \in S
            /\ \E k \in DOMAIN ifs : \E l \in DOMAIN ifs[k].ips :
                 ifs[k].name = p[1] /\ to_cidr(ifs[k].ips[l]) = <<p[2]>> /\ Behind(y, k, l)
      BY ONLY <1>4, S = NamesIn(ifs) \X HostPrefixes DEF DonePlaces
    <3> QED BY ONLY <1>2, <2>1, <3>1, ZenonT(60)
  <2>3. p \in DonePlaces(x) <=>
          /\ p \in S
          /\ \E k \in 1..n : \E l \in 1..Len(ifs[k].ips) :
               ifs[k].name = p[1] /\ to_cidr(ifs[k].ips[l]) = <<p[2]>> /\ Behind(x, k, l)
    <3>1. p \in DonePlaces(x) <=>
            /\ p \in S
            /\ \E k \in DOMAIN ifs : \E l \in DOMAIN ifs[k].ips :
                 ifs[k].name = p[1] /\ to_cidr(ifs[k].ips[l]) = <<p[2]>> /\ Behind(x, k, l)
      BY ONLY ifs = x.obs.ifs, S = NamesIn(ifs) \X HostPrefixes DEF DonePlaces
    <3> QED BY ONLY <1>2, <3>1, ZenonT(60)
  <2>4. p \in AtPlace(x) <=>
          /\ p \in S /\ j \in 1..Len(ifs[i].ips)
          /\ ifs[i].name = p[1] /\ to_cidr(ifs[i].ips[j]) = <<p[2]>>
    <3>1. j > 0 <=> j \in 1..Len(ifs[i].ips) BY <1>3
    <3>2. ifs[i].name \in NamesIn(ifs) BY <1>2, <1>3 DEF NamesIn
    <3>3. \A c : c \in AtPrefix(x) <=>
            c \in HostPrefixes /\ j \in 1..Len(ifs[i].ips) /\ to_cidr(ifs[i].ips[j]) = <<c>>
      BY <3>1 DEF AtPrefix
    <3>4. p \in AtPlace(x) <=> \E c \in AtPrefix(x) : p = <<ifs[i].name, c>> BY DEF AtPlace
    <3> QED BY ONLY <3>2, <3>3, <3>4, S = NamesIn(ifs) \X HostPrefixes
  <2>5. i \in 1..n BY <1>3
  <2> QED BY ONLY <2>2, <2>3, <2>4, <2>5
<1> QED BY <1>6, <1>8, <1>9, <1>10

(* What is done is of the snapshot. *)
LEMMA DoneIsOf ==
  ASSUME NEW x, NEW p \in DonePlaces(x)
  PROVE  \E k \in DOMAIN x.obs.ifs : \E l \in DOMAIN x.obs.ifs[k].ips :
           x.obs.ifs[k].name = p[1] /\ to_cidr(x.obs.ifs[k].ips[l]) = <<p[2]>>
BY DEF DonePlaces

(* Addresses that are not kept may come and go, and interfaces without kept ones. *)
LEMMA SeatedStays ==
  ASSUME NEW ifs, NEW K, NEW I, NEW A, NEW L, SeatedIn(ifs, K, I, A, L), NEW J, NEW B,
         \A b : b.id \in K => (b \in A <=> b \in B),
         \A b \in A : b.id \in K => \A r \in I : r.id = b.iface => r \in J
  PROVE  SeatedIn(ifs, K, J, B, L)
<1>1. ASSUME NEW b \in B, b.id \in K PROVE \E r \in J : r.id = b.iface /\ <<r.name, b.cidr>> \in L
  <2>1. b \in A BY <1>1
  <2>2. PICK r \in I : r.id = b.iface /\ <<r.name, b.cidr>> \in L BY <1>1, <2>1 DEF SeatedIn
  <2> QED BY <1>1, <2>1, <2>2
<1>2. ASSUME NEW p \in L, OnOne(ifs, p[2])
      PROVE  \E b \in B : \E r \in J : b.id \in K /\ r.id = b.iface /\ p = <<r.name, b.cidr>>
  <2>1. PICK b \in A, r \in I : b.id \in K /\ r.id = b.iface /\ p = <<r.name, b.cidr>>
    BY <1>2 DEF SeatedIn
  <2>2. b \in B /\ r \in J BY <2>1
  <2> QED BY <2>1, <2>2
<1> QED BY <1>1, <1>2 DEF SeatedIn

(* What the invariant says of a task in the loop. *)
LEMMA InTheLoop ==
  ASSUME NetInv, NEW t \in Slots, NEW x, x = task[t], x.st = "ensure"
  PROVE  /\ TaskGood(x) /\ AtWork(x) /\ Active(x) /\ DOMAIN x = Fields /\ Matched(x) /\ RowsKnown(x)
         /\ InLoop(x) /\ x.host \in Hosts /\ x.obs.serial # NoSerial /\ Snapshot(x.host, x.obs)
         /\ Undisturbed(x) /\ AllKnown(x)
BY DEF NetInv, TaskGood, AtWork, Active

(* A step of the loop leaves a sound task, if the rows of the device are as they
   should be after the place the loop was at. *)
LEMMA LoopSound ==
  ASSUME NetInv, NEW t \in Slots, NEW x, x = task[t], x.st = "ensure",
         NEW x1, SamePlace(x, x1), NEW y, y = Onwards(t, x1),
         UNCHANGED <<dev, contested>>, RowsKnown(x1)',
         x.dev \notin contested =>
           /\ Reconciled(x1, DoneNames(x) \cup {x.obs.ifs[x.i].name}, DonePrefixes(x) \cup AtPrefix(x))'
           /\ \E r \in OnDevice(x.dev)' : r.id = x1.ifid /\ r.name = x.obs.ifs[x.i].name
           /\ SeatedIn(x.obs.ifs, x1.kept, OnDevice(x.dev), AddrsOf(x.dev), DonePlaces(x) \cup AtPlace(x))'
  PROVE  Continues(x, y) /\ Sound(y)'
<1>1. /\ TaskGood(x) /\ AtWork(x) /\ Active(x) /\ Matched(x) /\ InLoop(x) /\ Undisturbed(x)
      /\ x.host \in Hosts /\ x.obs.serial # NoSerial /\ Snapshot(x.host, x.obs)
  BY InTheLoop
<1>2. SameRows(x1, y) /\ DOMAIN y = Fields /\ y.st \in {"ensure", "finalize"}
  BY OnwardsGoes DEF SamePlace
<1>3. /\ y.st = "ensure" => InLoop(y)
      /\ DoneNames(y) = DoneNames(x) \cup {x.obs.ifs[x.i].name}
      /\ DonePrefixes(y) = DonePrefixes(x) \cup AtPrefix(x)
      /\ DonePlaces(y) = DonePlaces(x) \cup AtPlace(x)
  BY <1>1, OnwardsDone
<1>4. y.host = x.host /\ y.obs = x.obs /\ y.dev = x.dev BY <1>2 DEF SamePlace, SameRows
<1>5. RowsKnown(y)' BY <1>2 DEF RowsKnown, SameRows
<1>6. TaskGood(y)' BY <1>1, <1>2, <1>3, <1>4, <1>5 DEF TaskGood, Stages, Matched
<1>7. Undisturbed(y)' BY <1>1, <1>2, <1>4 DEF Undisturbed
<1>8. AllKnown(y)'
  <2> SUFFICES ASSUME x.dev \notin contested
               PROVE  /\ Reconciled(y, DoneNames(y), DonePrefixes(y))' /\ Seated(y)'
                      /\ y.st = "ensure" /\ y.j > 0 =>
                           \E r \in OnDevice(y.dev)' : r.id = y.ifid /\ r.name = y.obs.ifs[y.i].name
    BY <1>2, <1>4 DEF AllKnown
  <2> PICK N, P : N = DoneNames(y) /\ P = DonePrefixes(y) OBVIOUS
  <2>1. Reconciled(x1, N, P)' BY <1>3
  <2>2. Reconciled(y, N, P)' BY <1>2, <2>1 DEF Reconciled, SameRows
  <2>3. y.st = "ensure" /\ y.j > 0 => y.i = x.i /\ y.ifid = x1.ifid
    BY <1>2, OnwardsGoes DEF SamePlace, SameRows
  <2> PICK L : L = DonePlaces(x) \cup AtPlace(x) OBVIOUS
  <2>4. SeatedIn(x.obs.ifs, x1.kept, OnDevice(x.dev), AddrsOf(x.dev), L)' OBVIOUS
  <2>5. y.kept = x1.kept BY <1>2 DEF SameRows
  <2>6. DonePlaces(y) = L BY <1>3
  <2>7. Seated(y)' BY <1>4, <2>4, <2>5, <2>6 DEF Seated
  <2> QED BY <1>4, <2>2, <2>3, <2>7
<1>9. Continues(x, y) BY <1>1, <1>4 DEF Continues
<1> QED BY <1>6, <1>7, <1>8, <1>9 DEF Sound

(* An interface that is there is taken. *)
LEMMA KeepsInterface ==
  ASSUME NetInv, NEW t \in Slots, KeepInterface(t)
  PROVE  NetInv'
<1> PICK x : x = task[t] OBVIOUS
<1>1. x.st = "ensure" /\ x.j = 0 BY DEF KeepInterface
<1>2. PICK r \in x.cur : /\ r.name = x.obs.ifs[x.i].name
                         /\ task' = [task EXCEPT ![t] = Onwards(t, [x EXCEPT !.ifid = r.id])]
  BY DEF KeepInterface, Observed, Become
<1> PICK x1 : x1 = [x EXCEPT !.ifid = r.id] OBVIOUS
<1> PICK y : y = Onwards(t, x1) OBVIOUS
<1>3. DOMAIN x = Fields /\ RowsKnown(x) /\ Matched(x) /\ AllKnown(x) /\ AtWork(x) BY <1>1, InTheLoop
<1>4. SamePlace(x, x1) /\ x1.ifid = r.id /\ x1.kept = x.kept /\ x1.p4 = x.p4 /\ x1.p6 = x.p6
  BY <1>1, <1>3 DEF SamePlace, Fields
<1>5. UNCHANGED <<dev, ifaces, addrs, lastId, contested, synced, torn>> BY DEF KeepInterface
<1>6. RowsKnown(x1)
  BY <1>3, <1>4 DEF RowsKnown, SamePlace, IfaceOn
<1>7. RowsKnown(x1)' BY <1>5, <1>6 DEF RowsKnown, IfaceOn, AddrOn
<1> PICK N, P, name : N = DoneNames(x) /\ P = DonePrefixes(x) /\ name = x.obs.ifs[x.i].name OBVIOUS
<1>8. AtPrefix(x) = {} BY <1>1 DEF AtPrefix
<1>9. ASSUME x.dev \notin contested
      PROVE  /\ Reconciled(x1, N \cup {name}, P)'
             /\ \E s \in OnDevice(x.dev)' : s.id = x1.ifid /\ s.name = name
             /\ SeatedIn(x.obs.ifs, x1.kept, OnDevice(x.dev), AddrsOf(x.dev), DonePlaces(x) \cup AtPlace(x))'
  <2>1. Reconciled(x, N, P) BY <1>1, <1>3, <1>9 DEF AllKnown
  <2>2. r \in OnDevice(x.dev) BY <2>1, SMTT(40) DEF Reconciled
  <2>3. Reconciled(x1, N \cup {name}, P) BY <1>2, <1>4, <2>1, <2>2 DEF Reconciled, SamePlace
  <2>4. OnDevice(x.dev)' = OnDevice(x.dev) /\ AddrsOf(x.dev)' = AddrsOf(x.dev)
    BY <1>5 DEF OnDevice, AddrsOf
  <2> PICK M : M = N \cup {name} OBVIOUS
  <2>5. x1.dev = x.dev BY <1>4 DEF SamePlace
  <2>6. Reconciled(x1, M, P)' BY <2>3, <2>4, <2>5 DEF Reconciled
  <2>7. r \in OnDevice(x.dev)' /\ r.id = x1.ifid /\ r.name = name BY <1>2, <1>4, <2>2, <2>4
  <2>8. SeatedIn(x.obs.ifs, x1.kept, OnDevice(x.dev), AddrsOf(x.dev), DonePlaces(x) \cup AtPlace(x))'
    <3>1. Seated(x) BY <1>1, <1>3, <1>9 DEF AllKnown
    <3>2. DonePlaces(x) \cup AtPlace(x) = DonePlaces(x) BY <1>8 DEF AtPlace
    <3> QED BY <1>4, <2>4, <3>1, <3>2 DEF Seated
  <2> QED BY <2>6, <2>7, <2>8
<1>10. DonePrefixes(x) \cup AtPrefix(x) = P BY <1>8
<1>11. Continues(x, y) /\ Sound(y)'
  BY <1>1, <1>4, <1>5, <1>7, <1>9, <1>10, LoopSound
<1>12. task' = [task EXCEPT ![t] = y] BY <1>2
<1> QED BY <1>5, <1>11, <1>12, QuietStep

(* What is no address is passed over. *)
LEMMA SkipsIp ==
  ASSUME NetInv, NEW t \in Slots, SkipIp(t)
  PROVE  NetInv'
<1> PICK x : x = task[t] OBVIOUS
<1>1. x.st = "ensure" /\ x.j > 0 /\ to_cidr(x.obs.ifs[x.i].ips[x.j]) = <<>>
  BY DEF SkipIp, Wanted, Observed
<1> PICK y : y = Onwards(t, x) OBVIOUS
<1>2. task' = [task EXCEPT ![t] = y] BY DEF SkipIp, Become
<1>3. DOMAIN x = Fields /\ RowsKnown(x) /\ AllKnown(x) /\ AtWork(x) BY <1>1, InTheLoop
<1>4. SamePlace(x, x) BY <1>1, <1>3 DEF SamePlace
<1>5. UNCHANGED <<dev, ifaces, addrs, lastId, contested, synced, torn>> BY DEF SkipIp
<1>6. RowsKnown(x)' BY <1>3, <1>5 DEF RowsKnown, IfaceOn, AddrOn
<1> PICK N, P, name : N = DoneNames(x) /\ P = DonePrefixes(x) /\ name = x.obs.ifs[x.i].name OBVIOUS
<1>7. AtPrefix(x) = {} BY <1>1, SMTT(40) DEF AtPrefix
<1>8. ASSUME x.dev \notin contested
      PROVE  /\ Reconciled(x, N \cup {name}, P)'
             /\ \E s \in OnDevice(x.dev)' : s.id = x.ifid /\ s.name = name
             /\ SeatedIn(x.obs.ifs, x.kept, OnDevice(x.dev), AddrsOf(x.dev), DonePlaces(x) \cup AtPlace(x))'
  <2>1. Reconciled(x, N, P) BY <1>1, <1>3, <1>8, SMTT(40) DEF AllKnown
  <2>2. PICK r \in OnDevice(x.dev) : r.id = x.ifid /\ r.name = name
    BY <1>1, <1>3, <1>8 DEF AllKnown
  <2>3. OnDevice(x.dev)' = OnDevice(x.dev) /\ AddrsOf(x.dev)' = AddrsOf(x.dev)
    BY <1>5 DEF OnDevice, AddrsOf
  <2>4. SeatedIn(x.obs.ifs, x.kept, OnDevice(x.dev), AddrsOf(x.dev), DonePlaces(x) \cup AtPlace(x))'
    <3>1. Seated(x) BY <1>1, <1>3, <1>8, SMTT(40) DEF AllKnown
    <3>2. DonePlaces(x) \cup AtPlace(x) = DonePlaces(x) BY <1>7 DEF AtPlace
    <3> QED BY <2>3, <3>1, <3>2 DEF Seated
  <2> QED BY <2>1, <2>2, <2>3, <2>4 DEF Reconciled
<1>9. DonePrefixes(x) \cup AtPrefix(x) = P BY <1>7, SMTT(40)
<1>10. Continues(x, y) /\ Sound(y)'
  BY <1>1, <1>4, <1>5, <1>6, <1>8, <1>9, LoopSound
<1> QED BY <1>2, <1>5, <1>10, QuietStep

\* x1 is x with row id taken for prefix c.
Takes(x, x1, id, c) ==
  /\ SamePlace(x, x1) /\ x1.ifid = x.ifid /\ x1.kept = x.kept \cup {id}
  /\ x1.p4 = IF is_ipv4_cidr(c) /\ x.p4 = None THEN id ELSE x.p4
  /\ x1.p6 = IF ~is_ipv4_cidr(c) /\ x.p6 = None THEN id ELSE x.p6

(* WithIp takes a row and lets the loop go on. *)
LEMMA WithIpTakes ==
  ASSUME NEW t, NEW x, x = task[t], DOMAIN x = Fields, x.st = "ensure", NEW id, NEW c
  PROVE  \E x1 : Takes(x, x1, id, c) /\ WithIp(t, id, c) = Onwards(t, x1)
<1> PICK x0 : x0 = [x EXCEPT !.kept = x.kept \cup {id}] OBVIOUS
<1>1. /\ DOMAIN x0 = Fields /\ x0.kept = x.kept \cup {id} /\ x0.st = x.st /\ x0.i = x.i /\ x0.j = x.j
      /\ x0.host = x.host /\ x0.obs = x.obs /\ x0.dev = x.dev /\ x0.cur = x.cur /\ x0.old = x.old
      /\ x0.ifid = x.ifid /\ x0.p4 = x.p4 /\ x0.p6 = x.p6
  BY DEF Fields
<1> PICK x4 : x4 = [x0 EXCEPT !.p4 = IF x0.p4 = None THEN id ELSE x0.p4] OBVIOUS
<1> PICK x6 : x6 = [x0 EXCEPT !.p6 = IF x0.p6 = None THEN id ELSE x0.p6] OBVIOUS
<1>2. WithIp(t, id, c) = Onwards(t, IF is_ipv4_cidr(c) THEN x4 ELSE x6) BY DEF WithIp
<1>3. is_ipv4_cidr(c) => Takes(x, x4, id, c) BY <1>1 DEF Takes, SamePlace, Fields
<1>4. ~is_ipv4_cidr(c) => Takes(x, x6, id, c) BY <1>1 DEF Takes, SamePlace, Fields
<1> QED BY <1>2, <1>3, <1>4

\* Row id stands for prefix c on the device of x now, and the other rows are as they were.
Placed(x, id, c) ==
  /\ OnDevice(x.dev)' = OnDevice(x.dev)
  /\ \E b \in AddrsOf(x.dev)' : b.id = id
  /\ \A b \in AddrsOf(x.dev)' : b.id = id =>
       /\ b.cidr = c
       /\ \E r \in OnDevice(x.dev) :
            /\ r.id = b.iface /\ r.name \in DoneNames(x) \cup {x.obs.ifs[x.i].name}
            /\ <<r.name, c>> \in DonePlaces(x) \cup AtPlace(x)
            /\ OnOne(x.obs.ifs, c) => r.name = x.obs.ifs[x.i].name
  /\ \A b \in AddrsOf(x.dev)' : b.id # id => b \in AddrsOf(x.dev)
  /\ \A b \in AddrsOf(x.dev) : b.id # id => b \in AddrsOf(x.dev)'
  /\ \A b \in AddrsOf(x.dev) : b.id = id => b.cidr = c

(* The loop is at an address, with its prefix. *)
LEMMA AtOnePrefix ==
  ASSUME NEW t, NEW x, x = task[t], AtIp(t), NEW c, c = Wanted(t)[1]
  PROVE  /\ x.st = "ensure" /\ x.j > 0 /\ c \in HostPrefixes /\ c[1] = x.obs.ifs[x.i].ips[x.j]
         /\ to_cidr(x.obs.ifs[x.i].ips[x.j]) = <<c>> /\ AtPrefix(x) = {c}
<1> PICK ip : ip = x.obs.ifs[x.i].ips[x.j] OBVIOUS
<1>1. x.st = "ensure" /\ x.j > 0 /\ to_cidr(ip) # <<>> /\ c = to_cidr(ip)[1]
  BY SMTT(40) DEF AtIp, Wanted, Observed
<1>2. PICK e \in HostPrefixes : to_cidr(ip) = <<e>> /\ e[1] = ip BY <1>1, CidrOf, ZenonT(60)
<1>3. c = e BY <1>1, <1>2, SMTT(40)
<1>4. \A f : to_cidr(ip) = <<f>> => f = e BY <1>2
<1>5. AtPrefix(x) = {c} BY <1>1, <1>2, <1>3, <1>4 DEF AtPrefix
<1> QED BY <1>1, <1>2, <1>3, <1>5

(* A place for the prefix that the loop is at is at the interface it is at, if no other
   interface has the prefix. *)
LEMMA OnlyHere ==
  ASSUME NetInv, NEW t \in Slots, NEW x, x = task[t], AtIp(t), NEW c, c = Wanted(t)[1],
         OnOne(x.obs.ifs, c), NEW p \in DonePlaces(x), p[2] = c
  PROVE  p[1] = x.obs.ifs[x.i].name
<1> PICK ifs, i, j : ifs = x.obs.ifs /\ i = x.i /\ j = x.j OBVIOUS
<1>1. x.st = "ensure" /\ j > 0 /\ to_cidr(ifs[i].ips[j]) = <<c>> BY AtOnePrefix
<1>2. TaskGood(x) /\ InLoop(x) BY <1>1, InTheLoop
<1>3. PICK net \in UNION {Networks[h] : h \in Hosts} : OfNetwork(ifs, net) BY <1>1, <1>2, TaskNetwork
<1>4. i \in DOMAIN ifs
  <2>1. i \in 1..Len(ifs) BY <1>2 DEF InLoop
  <2> QED BY ONLY <1>3, <2>1 DEF OfNetwork
<1>5. j \in DOMAIN ifs[i].ips
  <2> PICK m : m = Len(ifs[i].ips) OBVIOUS
  <2>1. j \in 0..m BY <1>2 DEF InLoop
  <2>2. m \in Nat /\ DOMAIN ifs[i].ips = 1..m BY <1>3, <1>4 DEF OfNetwork
  <2>3. j \in 1..m BY ONLY <1>1, <2>1, <2>2
  <2> QED BY <2>2, <2>3
<1>6. PICK k \in DOMAIN ifs : \E l \in DOMAIN ifs[k].ips : ifs[k].name = p[1] /\ to_cidr(ifs[k].ips[l]) = <<c>>
  BY DoneIsOf
<1>7. k = i BY ONLY ifs = x.obs.ifs, OnOne(x.obs.ifs, c), <1>1, <1>4, <1>5, <1>6 DEF OnOne
<1> QED BY <1>6, <1>7

(* The step that takes a row for the address the loop is at. *)
LEMMA IpTaken ==
  ASSUME NetInv, NEW t \in Slots, NEW x, x = task[t], AtIp(t), NEW c, c = Wanted(t)[1],
         NEW id, NEW y, y = WithIp(t, id, c),
         Frame(x.dev), UNCHANGED dev, id \in 1..lastId', AddrOn(id, x.dev)',
         x.dev \notin contested => Placed(x, id, c)
  PROVE  Continues(x, y) /\ Sound(y)'
<1>1. x.st = "ensure" /\ x.j > 0 /\ AtPrefix(x) = {c} BY AtOnePrefix
<1>2. DOMAIN x = Fields /\ TaskGood(x) /\ AtWork(x) /\ AllKnown(x) BY <1>1, InTheLoop
<1>3. PICK x1 : Takes(x, x1, id, c) /\ y = Onwards(t, x1) BY <1>1, <1>2, WithIpTakes
<1>4. /\ SamePlace(x, x1) /\ x1.dev = x.dev /\ x1.cur = x.cur /\ x1.old = x.old /\ x1.ifid = x.ifid
      /\ x1.kept = x.kept \cup {id}
  BY <1>3 DEF Takes, SamePlace
<1>5. id # None BY DEF None, Frame
<1>6. RowsKnown(x)' BY <1>2, KnownStays DEF TaskGood
<1>7. RowsKnown(x1)'
  <2>1. {x1.p4, x1.p6} \subseteq x1.kept \cup {None} BY <1>3, <1>6 DEF Takes, RowsKnown
  <2> QED BY <1>4, <1>6, <2>1 DEF RowsKnown
<1> PICK N, P, name : N = DoneNames(x) /\ P = DonePrefixes(x) /\ name = x.obs.ifs[x.i].name OBVIOUS
<1> PICK M, Q : M = N \cup {name} /\ Q = P \cup {c} OBVIOUS
<1> PICK ifs : ifs = x.obs.ifs OBVIOUS
<1> PICK L : L = DonePlaces(x) \cup AtPlace(x) OBVIOUS
<1>8. ASSUME x.dev \notin contested
      PROVE  /\ Reconciled(x1, M, Q)'
             /\ \E s \in OnDevice(x.dev)' : s.id = x1.ifid /\ s.name = name
             /\ SeatedIn(ifs, x1.kept, OnDevice(x.dev), AddrsOf(x.dev), L)'
  <2> PICK I, A, B : I = OnDevice(x.dev) /\ A = AddrsOf(x.dev) /\ B = AddrsOf(x.dev)' OBVIOUS
  <2>1. Reconciled(x, N, P) BY <1>1, <1>2, <1>8 DEF AllKnown
  <2>2. PICK r \in I : r.id = x.ifid /\ r.name = name BY <1>1, <1>2, <1>8 DEF AllKnown
  <2>3. /\ OnDevice(x.dev)' = I /\ \E b \in B : b.id = id
        /\ \A b \in B : b.id = id =>
             /\ b.cidr = c
             /\ \E s \in I :
                  /\ s.id = b.iface /\ s.name \in M /\ <<s.name, c>> \in L
                  /\ OnOne(ifs, c) => s.name = name
        /\ \A b \in B : b.id # id => b \in A
        /\ \A b \in A : b.id # id => b \in B
        /\ \A b \in A : b.id = id => b.cidr = c
    BY <1>8, SMTT(40) DEF Placed
  <2>4. x1.cur \subseteq I /\ M \subseteq {s.name : s \in I} /\ \A s \in I : s \in x1.cur \/ s.name \in M
    BY <1>4, <2>1, <2>2 DEF Reconciled
  <2>5. RowIds(x1.old) \subseteq RowIds(B) /\ \A a \in x1.old : a.id \notin x1.kept => a \in B
    <3>0. RowIds(x.old) \subseteq RowIds(A) BY <2>1 DEF Reconciled
    <3>1. \A a \in x.old : \E b \in A : b.id = a.id BY ONLY <3>0 DEF RowIds
    <3>2. \A a \in x.old : \E b \in B : b.id = a.id BY <2>3, <3>1
    <3>3. \A a \in x.old : a.id \notin x.kept => a \in A BY <2>1 DEF Reconciled
    <3>4. \A a \in x.old : a.id \notin x1.kept => a \in B BY <1>4, <2>3, <3>3
    <3> QED BY <1>4, <3>2, <3>4 DEF RowIds
  <2>6. \A e \in Q : \E b \in B : b.id \in x1.kept /\ b.cidr = e
    <3>1. ASSUME NEW e \in P PROVE \E b \in B : b.id \in x1.kept /\ b.cidr = e
      <4>1. PICK b \in A : b.id \in x.kept /\ b.cidr = e BY <2>1 DEF Reconciled
      <4> QED BY <1>4, <2>3, <4>1
    <3> QED BY <1>4, <2>3, <3>1
  <2>7. \A b \in B : b.id \in x1.kept \cup RowIds(x1.old) BY <1>4, <2>1, <2>3 DEF Reconciled
  <2>8. \A b \in B : b.id \in x1.kept => b.cidr \in Q /\ \E s \in I : s.id = b.iface /\ s.name \in M
    <3> SUFFICES ASSUME NEW b \in B, b.id \in x1.kept
                 PROVE  b.cidr \in Q /\ \E s \in I : s.id = b.iface /\ s.name \in M
      OBVIOUS
    <3>1. CASE b.id = id
      <4>1. b.cidr = c BY <2>3, <3>1
      <4>2. \E s \in I : s.id = b.iface /\ s.name \in M BY <2>3, <3>1, ZenonT(60)
      <4> QED BY <4>1, <4>2
    <3>2. CASE b.id # id
      <4>1. b \in A /\ b.id \in x.kept BY <1>4, <2>3, <3>2
      <4> QED BY <2>1, <4>1 DEF Reconciled
    <3> QED BY <3>1, <3>2
  <2>9. x1.p4 = None <=> \A e \in Q : ~is_ipv4_cidr(e)
    <3>1. x.p4 = None <=> \A e \in P : ~is_ipv4_cidr(e) BY <2>1 DEF Reconciled
    <3>2. x1.p4 = IF is_ipv4_cidr(c) /\ x.p4 = None THEN id ELSE x.p4 BY <1>3, SMTT(40) DEF Takes
    <3> QED BY <1>5, <3>1, <3>2
  <2>10. x1.p6 = None <=> \A e \in Q : is_ipv4_cidr(e)
    <3>1. x.p6 = None <=> \A e \in P : is_ipv4_cidr(e) BY <2>1 DEF Reconciled
    <3>2. x1.p6 = IF ~is_ipv4_cidr(c) /\ x.p6 = None THEN id ELSE x.p6 BY <1>3, SMTT(40) DEF Takes
    <3> QED BY <1>5, <3>1, <3>2
  <2>11. Reconciled(x1, M, Q)'
    BY <1>4, <2>3, <2>4, <2>5, <2>6, <2>7, <2>8, <2>9, <2>10 DEF Reconciled
  <2>12. SeatedIn(ifs, x1.kept, I, B, L)
    <3> PICK K, D : K = x.kept /\ D = DonePlaces(x) OBVIOUS
    <3>0. SeatedIn(ifs, K, I, A, D) BY <1>1, <1>2, <1>8 DEF AllKnown, Seated
    <3>1. x1.kept = K \cup {id} /\ D \subseteq L /\ L = D \cup {<<name, c>>}
      BY <1>1, <1>4 DEF AtPlace
    <3>2. ASSUME NEW b \in B, b.id \in x1.kept PROVE \E s \in I : s.id = b.iface /\ <<s.name, b.cidr>> \in L
      <4>1. CASE b.id = id
        <5>1. b.cidr = c BY <2>3, <4>1
        <5>2. \E s \in I : s.id = b.iface /\ <<s.name, c>> \in L BY <2>3, <4>1, ZenonT(60)
        <5> QED BY <5>1, <5>2
      <4>2. CASE b.id # id
        <5>1. b \in A /\ b.id \in K BY <2>3, <3>1, <3>2, <4>2
        <5> QED BY <3>0, <3>1, <5>1 DEF SeatedIn
      <4> QED BY <4>1, <4>2
    <3>3. ASSUME NEW p \in L, OnOne(ifs, p[2])
          PROVE  \E b \in B : \E s \in I : b.id \in x1.kept /\ s.id = b.iface /\ p = <<s.name, b.cidr>>
      <4>1. ASSUME p = <<name, c>>
            PROVE  \E b \in B : \E s \in I : b.id \in x1.kept /\ s.id = b.iface /\ p = <<s.name, b.cidr>>
        <5>1. OnOne(ifs, c) BY <3>3, <4>1
        <5>2. PICK b \in B : b.id = id BY <2>3
        <5>3. PICK s \in I : s.id = b.iface /\ s.name = name BY <2>3, <5>1, <5>2
        <5>4. b.cidr = c BY <2>3, <5>2
        <5> QED BY <3>1, <4>1, <5>2, <5>3, <5>4
      <4>2. CASE p \in D /\ p # <<name, c>>
        <5>1. PICK b \in A, s \in I : b.id \in K /\ s.id = b.iface /\ p = <<s.name, b.cidr>>
          BY <3>0, <3>3, <4>2 DEF SeatedIn
        <5>2. b.id # id
          <6> SUFFICES ASSUME b.id = id PROVE FALSE OBVIOUS
          <6>1. b.cidr = c BY <2>3
          <6>2. p[1] = s.name /\ p[2] = c BY <5>1, <6>1
          <6>3. OnOne(x.obs.ifs, c) /\ p \in DonePlaces(x) BY <3>3, <4>2, <6>2
          <6>4. p[1] = name BY <6>2, <6>3, OnlyHere
          <6> QED BY <4>2, <5>1, <6>1, <6>2, <6>4
        <5>3. b \in B BY <2>3, <5>2
        <5> QED BY <3>1, <5>1, <5>3
      <4> QED BY <3>1, <4>1, <4>2
    <3> QED BY <3>2, <3>3 DEF SeatedIn
  <2>13. SeatedIn(ifs, x1.kept, OnDevice(x.dev), AddrsOf(x.dev), L)' BY <2>3, <2>12
  <2>14. \E s \in OnDevice(x.dev)' : s.id = x1.ifid /\ s.name = name BY <1>4, <2>2, <2>3
  <2> QED BY ONLY <2>11, <2>13, <2>14
<1>9. Reconciled(x1, M, Q)' =>
        Reconciled(x1, DoneNames(x) \cup {x.obs.ifs[x.i].name}, DonePrefixes(x) \cup AtPrefix(x))'
  BY <1>1
<1> QED BY <1>1, <1>3, <1>4, <1>7, <1>8, <1>9, LoopSound DEF Frame

(* Nothing happens to NetBox. *)
LEMMA QuietFrame ==
  ASSUME NetInv, UNCHANGED <<dev, ifaces, addrs, lastId, contested>>, NEW d
  PROVE  Frame(d)
<1>1. \A e \in Devices : OnDevice(e)' = OnDevice(e) /\ AddrsOf(e)' = AddrsOf(e) BY DEF OnDevice, AddrsOf
<1>2. \A i \in 1..lastId : \A e \in Devices : AddrOn(i, e) => AddrOn(i, e)' BY DEF AddrOn, IfaceOn
<1> QED BY <1>1, <1>2 DEF Frame, NetInv, RowInv

(* A row that is where it should be is taken. *)
LEMMA KeepsIp ==
  ASSUME NetInv, NEW t \in Slots, KeepIp(t)
  PROVE  NetInv'
<1> PICK x, c : x = task[t] /\ c = Wanted(t)[1] OBVIOUS
<1>1. AtIp(t) /\ UNCHANGED <<dev, ifaces, addrs, lastId, contested, synced, torn>> BY DEF KeepIp
<1>2. PICK a \in x.old : a.cidr = c /\ a.iface = x.ifid /\ task' = [task EXCEPT ![t] = WithIp(t, a.id, a.cidr)]
  BY DEF KeepIp, Existing, Become
<1> PICK y : y = WithIp(t, a.id, c) OBVIOUS
<1>3. task' = [task EXCEPT ![t] = y] BY <1>2
<1>4. x.st = "ensure" /\ x.j > 0 BY <1>1, AtOnePrefix
<1>5. TaskGood(x) /\ AtWork(x) /\ AllKnown(x) /\ RowsKnown(x) BY <1>4, InTheLoop
<1>6. /\ a.id \in 1..lastId /\ AddrOn(a.id, x.dev)
      /\ \A b \in addrs : b.id = a.id => b.cidr = a.cidr
  BY <1>5 DEF RowsKnown
<1>7. a.id \in 1..lastId' /\ AddrOn(a.id, x.dev)' BY <1>1, <1>6 DEF AddrOn, IfaceOn
<1>8. Frame(x.dev) BY <1>1, QuietFrame
<1>9. ASSUME x.dev \notin contested PROVE Placed(x, a.id, c)
  <2> PICK N, P, name : N = DoneNames(x) /\ P = DonePrefixes(x) /\ name = x.obs.ifs[x.i].name OBVIOUS
  <2> PICK I, A : I = OnDevice(x.dev) /\ A = AddrsOf(x.dev) OBVIOUS
  <2>1. OnDevice(x.dev)' = I /\ AddrsOf(x.dev)' = A BY <1>1 DEF OnDevice, AddrsOf
  <2>2. Reconciled(x, N, P) BY <1>4, <1>5, <1>9 DEF AllKnown
  <2>3. PICK r \in I : r.id = x.ifid /\ r.name = name BY <1>4, <1>5, <1>9 DEF AllKnown
  <2>4. \E b \in A : b.id = a.id
    <3>1. RowIds(x.old) \subseteq RowIds(A) BY <2>2 DEF Reconciled
    <3> QED BY ONLY a \in x.old, <3>1 DEF RowIds
  <2>5. A \subseteq addrs BY DEF AddrsOf
  <2>6. \A b, e \in addrs : b.id = e.id => b = e BY DEF NetInv, RowInv
  <2> PICK ifs : ifs = x.obs.ifs OBVIOUS
  <2> PICK D : D = DonePlaces(x) OBVIOUS
  <2> PICK L : L = D \cup AtPlace(x) OBVIOUS
  <2>7. ASSUME NEW b \in A, b.id = a.id
        PROVE  /\ b.cidr = c
               /\ \E s \in I :
                    /\ s.id = b.iface /\ s.name \in N \cup {name} /\ <<s.name, c>> \in L
                    /\ OnOne(ifs, c) => s.name = name
    <3>1. b.cidr = c BY <1>2, <1>6, <2>5, <2>7
    <3>2. CASE a.id \in x.kept
      <4>1. SeatedIn(ifs, x.kept, I, A, D) BY <1>4, <1>5, <1>9 DEF AllKnown, Seated
      <4>2. PICK s \in I : s.id = b.iface /\ <<s.name, c>> \in D BY <2>7, <3>1, <3>2, <4>1 DEF SeatedIn
      <4>3. PICK u \in I : u.id = b.iface /\ u.name \in N BY <2>2, <2>7, <3>2 DEF Reconciled
      <4>4. \A v, w \in ifaces : v.id = w.id => v = w BY DEF NetInv, RowInv
      <4>5. u = s BY <4>2, <4>3, <4>4 DEF OnDevice
      <4>6. OnOne(ifs, c) => s.name = name
        <5> SUFFICES ASSUME OnOne(x.obs.ifs, c) PROVE s.name = name OBVIOUS
        <5> PICK p : p = <<s.name, c>> OBVIOUS
        <5>1. p \in DonePlaces(x) /\ p[2] = c /\ p[1] = s.name BY <4>2
        <5>2. p[1] = x.obs.ifs[x.i].name BY <1>1, <5>1, OnlyHere
        <5> QED BY <5>1, <5>2
      <4> QED BY <3>1, <4>2, <4>3, <4>5, <4>6
    <3>3. CASE a.id \notin x.kept
      <4>1. a \in A BY <2>2, <3>3 DEF Reconciled
      <4>2. b = a BY <2>5, <2>6, <2>7, <4>1
      <4>3. AtPlace(x) = {<<name, c>>} BY <1>1, AtOnePrefix DEF AtPlace
      <4> QED BY <1>2, <2>3, <3>1, <4>2, <4>3
    <3> QED BY <3>2, <3>3
  <2> QED BY <2>1, <2>4, <2>7 DEF Placed
<1>10. Continues(x, y) /\ Sound(y)'
  BY <1>1, <1>7, <1>8, <1>9, IpTaken
<1> QED BY <1>1, <1>3, <1>10, QuietStep

-----------------------------------------------------------------------------
(* Writes.                                                                     *)

\* Only the device of task t, if it is at work, has changed.
Own(t) == \A e \in Devices : Content(e)' # Content(e) => AtWork(task[t]) /\ e = task[t].dev

(* A call that is refused ends the upsert. *)
LEMMA RefusedStep ==
  ASSUME NetInv, NEW t \in Slots, Become(t, Idle),
         UNCHANGED <<dev, ifaces, addrs, lastId, contested, synced, torn>>
  PROVE  NetInv' /\ Own(t)
<1> PICK x, y : x = task[t] /\ y = Idle OBVIOUS
<1>1. task' = [task EXCEPT ![t] = y] BY DEF Become
<1>2. Sound(y)' /\ Continues(x, y) BY EndedSound
<1>3. NetInv' BY <1>1, <1>2, QuietStep
<1>4. Own(t) BY DEF Own, Content, OnDevice, AddrsOf
<1> QED BY <1>3, <1>4

(* A call that takes effect, with its answer or without. *)
LEMMA AnsweredStep ==
  ASSUME NetInv, NEW t \in Slots, AtWork(task[t]), Written(t), NEW y, Answered(t, y),
         Continues(task[t], y), Sound(y)'
  PROVE  NetInv' /\ Own(t)
<1>1. PICK lost \in BOOLEAN : task' = [task EXCEPT ![t] = IF lost THEN Retried(t) ELSE y]
  BY DEF Answered
<1>2. ASSUME lost PROVE NetInv'
  <2> PICK z : z = Retried(t) OBVIOUS
  <2>1. task' = [task EXCEPT ![t] = z] BY <1>1, <1>2
  <2>2. Active(task[t]) BY DEF AtWork, Active
  <2>3. Sound(z)' /\ Continues(task[t], z) BY <2>2, RetriedGood
  <2> QED BY <2>1, <2>3, WriteStep
<1>3. ASSUME ~lost PROVE NetInv'
  <2>1. task' = [task EXCEPT ![t] = y] BY <1>1, <1>3
  <2> QED BY <2>1, WriteStep
<1>4. Own(t)
  <2> PICK d : d = task[t].dev OBVIOUS
  <2>1. Frame(d) BY DEF Written
  <2>2. \A e \in Devices \ {d} : Content(e)' = Content(e) BY <2>1 DEF Frame, Content
  <2> QED BY <2>2 DEF Own
<1> QED BY <1>2, <1>3, <1>4

(* A new interface. *)
LEMMA NewInterface ==
  ASSUME NetInv, NEW d \in Devices, NEW name, NEW id, id = lastId + 1,
         NEW r, r = [id |-> id, dev |-> d, name |-> name], lastId' = id, ifaces' = ifaces \cup {r}, UNCHANGED <<dev, addrs, contested>>
  PROVE  /\ Frame(d) /\ RowInv' /\ PrimaryInv' /\ NoneDoubled(d)' /\ IfaceOn(id, d)'
         /\ OnDevice(d)' = OnDevice(d) \cup {r} /\ AddrsOf(d)' = AddrsOf(d)
<1>1. r.id = id /\ r.dev = d OBVIOUS
<1>2. /\ lastId \in Nat /\ id \in Nat /\ id > lastId
      /\ \A s \in ifaces : s.id \in 1..lastId /\ s.id # id
      /\ \A a \in addrs : a.iface \in 1..lastId /\ a.iface # id
  BY DEF NetInv, RowInv, RowIds
<1>3. \A e \in Devices \ {d} : OnDevice(e)' = OnDevice(e) BY <1>1 DEF OnDevice
<1>4. OnDevice(d)' = OnDevice(d) \cup {r} BY <1>1 DEF OnDevice
<1>5. \A e \in Devices : AddrsOf(e)' = AddrsOf(e)
  <2> TAKE e \in Devices
  <2>1. \A a \in addrs : (\E s \in OnDevice(e)' : s.id = a.iface) <=> (\E s \in OnDevice(e) : s.id = a.iface)
    BY <1>1, <1>2, <1>3, <1>4
  <2> QED BY <2>1 DEF AddrsOf
<1>6. RowInv'
  <2>1. /\ \A s \in ifaces' : s.id \in 1..lastId'
        /\ \A s, u \in ifaces' : s.id = u.id => s = u
    BY <1>1, <1>2 DEF NetInv, RowInv
  <2>2. RowIds(ifaces) \subseteq RowIds(ifaces') BY DEF RowIds
  <2>3. \A a \in addrs : DOMAIN a = RowFields /\ a.id \in 1..lastId /\ a.iface \in RowIds(ifaces)
    BY DEF NetInv, RowInv
  <2>4. \A i \in 1..lastId : i \in 1..lastId' BY <1>2
  <2>5. \A a \in addrs : DOMAIN a = RowFields /\ a.id \in 1..lastId' /\ a.iface \in RowIds(ifaces')
    BY ONLY <2>2, <2>3, <2>4, Zenon
  <2>6. \A a, b \in addrs : a.id = b.id => a = b BY DEF NetInv, RowInv
  <2> QED BY <1>2, <2>1, <2>5, <2>6 DEF RowInv
<1>7. PrimaryInv' BY <1>5 DEF NetInv, PrimaryInv
<1>8. NoneDoubled(d)' BY <1>5 DEF NetInv, NoneDoubled
<1>9. IfaceOn(id, d)' BY <1>1, <1>2 DEF IfaceOn
<1>10. \A i \in 1..lastId : \A e \in Devices : AddrOn(i, e) => AddrOn(i, e)'
  BY <1>1, <1>2 DEF AddrOn, IfaceOn
<1>11. Frame(d) BY <1>1, <1>2, <1>3, <1>5, <1>10 DEF Frame, NetInv
<1> QED BY <1>4, <1>5, <1>6, <1>7, <1>8, <1>9, <1>11

(* An interface is made. *)
LEMMA CreatesInterface ==
  ASSUME NetInv, NEW t \in Slots, create_interface(t)
  PROVE  NetInv' /\ Own(t)
<1> PICK x, name : x = task[t] /\ name = x.obs.ifs[x.i].name OBVIOUS
<1>1. x.st = "ensure" /\ x.j = 0 /\ UNCHANGED <<dev, addrs, synced, contested>>
  BY DEF create_interface
<1>2. CASE \E r \in OnDevice(x.dev) : r.name = name
  <2>1. Become(t, Idle) /\ UNCHANGED <<ifaces, lastId, torn>>
    BY <1>2 DEF create_interface, Observed
  <2> QED BY <1>1, <2>1, RefusedStep
<1>3. CASE ~\E r \in OnDevice(x.dev) : r.name = name
  <2> PICK id : id = lastId + 1 OBVIOUS
  <2> PICK r : r = [id |-> id, dev |-> x.dev, name |-> name] OBVIOUS
  <2> PICK x1 : x1 = [x EXCEPT !.ifid = id] OBVIOUS
  <2> PICK y : y = Onwards(t, x1) OBVIOUS
  <2>1. lastId' = id /\ ifaces' = ifaces \cup {r} /\ Answered(t, y) /\ torn' = torn \cup {x.host}
    BY <1>3 DEF create_interface, Observed, Wrote
  <2>2. /\ DOMAIN x = Fields /\ TaskGood(x) /\ RowsKnown(x) /\ Matched(x) /\ AllKnown(x)
        /\ AtWork(x)
    BY <1>1, InTheLoop
  <2>3. x.dev \in Devices BY <2>2 DEF Matched
  <2>4. /\ Frame(x.dev) /\ RowInv' /\ PrimaryInv' /\ NoneDoubled(x.dev)' /\ IfaceOn(id, x.dev)'
        /\ OnDevice(x.dev)' = OnDevice(x.dev) \cup {r} /\ AddrsOf(x.dev)' = AddrsOf(x.dev)
    BY <1>1, <2>1, <2>3, NewInterface
  <2>5. Written(t) BY <1>1, <2>1, <2>4 DEF Written
  <2>6. SamePlace(x, x1) /\ x1.ifid = id /\ x1.kept = x.kept /\ x1.p4 = x.p4 /\ x1.p6 = x.p6
    BY <1>1, <2>2 DEF SamePlace, Fields
  <2>7. RowsKnown(x)' BY <2>2, <2>4, KnownStays DEF TaskGood
  <2>8. id \in 1..lastId' BY <2>1 DEF NetInv, RowInv
  <2>9. RowsKnown(x1)' BY <2>4, <2>6, <2>7, <2>8 DEF RowsKnown, SamePlace
  <2> PICK N, P : N = DoneNames(x) /\ P = DonePrefixes(x) OBVIOUS
  <2> PICK M : M = N \cup {name} OBVIOUS
  <2>10. ASSUME x.dev \notin contested
         PROVE  /\ Reconciled(x1, M, P)' /\ \E s \in OnDevice(x.dev)' : s.id = x1.ifid /\ s.name = name
                /\ SeatedIn(x.obs.ifs, x1.kept, OnDevice(x.dev), AddrsOf(x.dev), DonePlaces(x) \cup AtPlace(x))'
    <3> PICK I, A : I = OnDevice(x.dev) /\ A = AddrsOf(x.dev) OBVIOUS
    <3> PICK J : J = I \cup {r} OBVIOUS
    <3>1. OnDevice(x.dev)' = J /\ AddrsOf(x.dev)' = A BY <2>4
    <3>2. Reconciled(x, N, P) BY <1>1, <2>2, <2>10 DEF AllKnown
    <3>3. r.id = id /\ r.name = name OBVIOUS
    <3>4. /\ x1.cur = x.cur /\ x1.old = x.old /\ x1.dev = x.dev /\ x1.kept = x.kept
          /\ x1.p4 = x.p4 /\ x1.p6 = x.p6
      BY <2>6, SMTT(40) DEF SamePlace
    <3>5. /\ x1.cur \subseteq J /\ M \subseteq {s.name : s \in J}
          /\ \A s \in J : s \in x1.cur \/ s.name \in M
      BY <3>2, <3>3, <3>4 DEF Reconciled
    <3>6. /\ RowIds(x1.old) \subseteq RowIds(A) /\ \A a \in x1.old : a.id \notin x1.kept => a \in A
          /\ \A c \in P : \E b \in A : b.id \in x1.kept /\ b.cidr = c
          /\ \A b \in A : b.id \in x1.kept \cup RowIds(x1.old)
          /\ \A b \in A : b.id \in x1.kept =>
               b.cidr \in P /\ \E s \in I : s.id = b.iface /\ s.name \in N
          /\ x1.p4 = None <=> \A c \in P : ~is_ipv4_cidr(c)
          /\ x1.p6 = None <=> \A c \in P : is_ipv4_cidr(c)
      BY <3>2, <3>4 DEF Reconciled
    <3>7. \A b \in A : b.id \in x1.kept =>
            b.cidr \in P /\ \E s \in J : s.id = b.iface /\ s.name \in M
      BY <3>6, SMTT(40)
    <3>8. Reconciled(x1, M, P)' BY <3>1, <3>4, <3>5, <3>6, <3>7 DEF Reconciled
    <3> PICK ifs, K, D : ifs = x.obs.ifs /\ K = x.kept /\ D = DonePlaces(x) OBVIOUS
    <3>9. SeatedIn(ifs, K, I, A, D) BY <1>1, <2>2, <2>10 DEF AllKnown, Seated
    <3>10. \A b \in A : b.id \in K => \A s \in I : s.id = b.iface => s \in J OBVIOUS
    <3>11. SeatedIn(ifs, K, J, A, D) BY ONLY <3>9, <3>10, SeatedStays
    <3>12. DonePlaces(x) \cup AtPlace(x) = D BY <1>1 DEF AtPlace, AtPrefix
    <3>13. SeatedIn(x.obs.ifs, x1.kept, OnDevice(x.dev), AddrsOf(x.dev), DonePlaces(x) \cup AtPlace(x))'
      BY <3>1, <3>4, <3>11, <3>12
    <3>14. \E s \in OnDevice(x.dev)' : s.id = x1.ifid /\ s.name = name BY <2>6, <3>1, <3>3
    <3> QED BY ONLY <3>8, <3>13, <3>14
  <2>11. DonePrefixes(x) \cup AtPrefix(x) = P BY <1>1 DEF AtPrefix
  <2>12. Reconciled(x1, M, P)' =>
           Reconciled(x1, DoneNames(x) \cup {x.obs.ifs[x.i].name}, DonePrefixes(x) \cup AtPrefix(x))'
    BY <2>11
  <2>13. Continues(x, y) /\ Sound(y)'
    BY <1>1, <2>6, <2>9, <2>10, <2>12, LoopSound
  <2> QED BY <2>1, <2>2, <2>5, <2>13, AnsweredStep
<1> QED BY <1>2, <1>3

(* An address is on one device. *)
LEMMA OneDevice ==
  ASSUME NetInv, NEW d \in Devices, NEW i, IfaceOn(i, d), i \in RowIds(ifaces)
  PROVE  /\ \E r \in OnDevice(d) : r.id = i
         /\ \A e \in Devices \ {d} : \A r \in OnDevice(e) : r.id # i
<1>1. \A r \in ifaces : r.id = i => r.dev = d BY DEF IfaceOn
<1>2. PICK r \in ifaces : r.id = i BY DEF RowIds
<1>3. r \in OnDevice(d) BY <1>1, <1>2 DEF OnDevice
<1>4. \A e \in Devices \ {d} : \A s \in OnDevice(e) : s.id # i BY <1>1 DEF OnDevice
<1> QED BY <1>2, <1>3, <1>4

(* An address goes to another interface of the device d. *)
LEMMA MovedAddress ==
  ASSUME NetInv, NEW d \in Devices, NEW a, DOMAIN a = RowFields, a.id \in RowIds(addrs), AddrOn(a.id, d),
         \A b \in addrs : b.id = a.id => b.cidr = a.cidr,
         NEW i, i \in RowIds(ifaces), IfaceOn(i, d), NEW n, n = [a EXCEPT !.iface = i],
         addrs' = {b \in addrs : b.id # a.id} \cup {n}, UNCHANGED <<dev, ifaces, lastId, contested>>
  PROVE  /\ Frame(d) /\ RowInv' /\ PrimaryInv' /\ NoneDoubled(d)' /\ AddrOn(a.id, d)'
         /\ OnDevice(d)' = OnDevice(d) /\ n.id = a.id /\ n.iface = i /\ n.cidr = a.cidr
         /\ AddrsOf(d)' = {b \in AddrsOf(d) : b.id # a.id} \cup {n}
<1>1. DOMAIN n = RowFields /\ n.id = a.id /\ n.iface = i /\ n.cidr = a.cidr BY DEF RowFields
<1>2. PICK o \in addrs : o.id = a.id /\ o.cidr = a.cidr BY DEF RowIds
<1>3. /\ lastId \in Nat /\ o.iface \in RowIds(ifaces) /\ o.id \in 1..lastId
      /\ \A b, e \in addrs : b.id = e.id => b = e
  BY DEF NetInv, RowInv
<1>4. IfaceOn(o.iface, d) BY <1>2 DEF AddrOn
<1>5. \A e \in Devices : OnDevice(e)' = OnDevice(e) BY DEF OnDevice
<1>6. /\ \E r \in OnDevice(d) : r.id = o.iface
      /\ \A e \in Devices \ {d} : \A r \in OnDevice(e) : r.id # o.iface
  BY <1>3, <1>4, OneDevice
<1>7. /\ \E r \in OnDevice(d) : r.id = i
      /\ \A e \in Devices \ {d} : \A r \in OnDevice(e) : r.id # i
  BY OneDevice
<1>8. \A b \in addrs : b.id = a.id => b = o BY <1>2, <1>3
<1>9. \A e \in Devices \ {d} : AddrsOf(e)' = AddrsOf(e)
  <2> TAKE e \in Devices \ {d}
  <2>1. OnDevice(e)' = OnDevice(e) BY <1>5
  <2>2. ASSUME NEW b PROVE b \in AddrsOf(e)' <=> b \in AddrsOf(e)
    <3>1. b \in AddrsOf(e) <=> b \in addrs /\ \E r \in OnDevice(e) : r.id = b.iface BY DEF AddrsOf
    <3>2. b \in AddrsOf(e)' <=> b \in addrs' /\ \E r \in OnDevice(e) : r.id = b.iface
      BY <2>1 DEF AddrsOf
    <3>3. CASE b = n BY <1>1, <1>6, <1>7, <1>8, <3>1, <3>2, <3>3
    <3>4. CASE b # n BY <1>6, <1>8, <3>1, <3>2, <3>4
    <3> QED BY <3>3, <3>4
  <2> QED BY <2>2
<1>10. AddrsOf(d)' = {b \in AddrsOf(d) : b.id # a.id} \cup {n}
  <2>1. OnDevice(d)' = OnDevice(d) BY <1>5
  <2>2. ASSUME NEW b PROVE b \in AddrsOf(d)' <=> (b \in AddrsOf(d) /\ b.id # a.id) \/ b = n
    <3>1. b \in AddrsOf(d) <=> b \in addrs /\ \E r \in OnDevice(d) : r.id = b.iface BY DEF AddrsOf
    <3>2. b \in AddrsOf(d)' <=> b \in addrs' /\ \E r \in OnDevice(d) : r.id = b.iface
      BY <2>1 DEF AddrsOf
    <3>3. CASE b = n BY <1>1, <1>7, <3>2, <3>3
    <3>4. CASE b # n BY <3>1, <3>2, <3>4
    <3> QED BY <3>3, <3>4
  <2> QED BY <2>2
<1>11. o \in AddrsOf(d) BY <1>6 DEF AddrsOf
<1>12. RowInv'
  <2>1. \A b \in addrs : DOMAIN b = RowFields /\ b.id \in 1..lastId /\ b.iface \in RowIds(ifaces)
    BY DEF NetInv, RowInv
  <2>2. \A b \in addrs' : DOMAIN b = RowFields /\ b.id \in 1..lastId /\ b.iface \in RowIds(ifaces)
    BY <1>1, <1>2, <1>3, <2>1
  <2>3. \A b, e \in addrs' : b.id = e.id => b = e BY <1>1, <1>3
  <2> QED BY <2>2, <2>3 DEF NetInv, RowInv
<1>13. PrimaryInv'
  <2> SUFFICES ASSUME NEW e \in Devices
               PROVE  {dev[e].p4, dev[e].p6} \ {None} \subseteq RowIds(AddrsOf(e)')
    BY DEF PrimaryInv
  <2>1. {dev[e].p4, dev[e].p6} \ {None} \subseteq RowIds(AddrsOf(e)) BY DEF NetInv, PrimaryInv
  <2>2. \A b \in AddrsOf(e) : \E f \in AddrsOf(e)' : f.id = b.id BY <1>1, <1>9, <1>10
  <2>3. RowIds(AddrsOf(e)) \subseteq RowIds(AddrsOf(e)') BY ONLY <2>2 DEF RowIds
  <2> QED BY <2>1, <2>3
<1>14. NoneDoubled(d)'
  <2> SUFFICES ASSUME d \notin contested, NEW b \in AddrsOf(d)', NEW f \in AddrsOf(d)', b # f, b.cidr = f.cidr
               PROVE  Doubled(b.cidr[1])
    BY DEF NoneDoubled
  <2>1. \A g, k \in AddrsOf(d) : g # k /\ g.cidr = k.cidr => Doubled(g.cidr[1])
    BY DEF NetInv, NoneDoubled
  <2>2. CASE b # n /\ f # n BY <1>10, <2>1, <2>2
  <2>3. CASE b = n /\ f # n
    <3>1. f \in AddrsOf(d) /\ f # o /\ f.cidr = o.cidr BY <1>1, <1>2, <1>10, <2>3
    <3> QED BY <1>11, <2>1, <3>1
  <2>4. CASE b # n /\ f = n
    <3>1. b \in AddrsOf(d) /\ b # o /\ b.cidr = o.cidr BY <1>1, <1>2, <1>10, <2>4
    <3> QED BY <1>11, <2>1, <3>1
  <2> QED BY <2>2, <2>3, <2>4
<1>15. AddrOn(a.id, d)'
  <2> PICK id : id = a.id OBVIOUS
  <2>1. \A b \in addrs' : b.id = id => b.iface = i BY <1>1
  <2>2. \A r \in ifaces' : r.id = i => r.dev = d BY DEF IfaceOn
  <2>3. AddrOn(id, d)' BY <2>1, <2>2 DEF AddrOn, IfaceOn
  <2> QED BY <2>3
<1>16. \A k \in 1..lastId : \A e \in Devices : AddrOn(k, e) => AddrOn(k, e)'
  <2> SUFFICES ASSUME NEW k \in 1..lastId, NEW e \in Devices, AddrOn(k, e), NEW b \in addrs', b.id = k
               PROVE  IfaceOn(b.iface, e)
    BY DEF AddrOn, IfaceOn
  <2>1. CASE b = n
    <3>1. IfaceOn(o.iface, e) BY <1>1, <1>2, <2>1 DEF AddrOn
    <3>2. e = d BY <1>6, <3>1 DEF IfaceOn, OnDevice
    <3> QED BY <1>1, <2>1, <3>2
  <2>2. CASE b # n BY <2>2 DEF AddrOn
  <2> QED BY <2>1, <2>2
<1>17. \A b \in addrs' : \E g \in addrs : g.id = b.id /\ g.cidr = b.cidr BY <1>1, <1>2
<1>18. Frame(d) BY <1>3, <1>5, <1>9, <1>16, <1>17 DEF Frame, NetInv
<1> QED BY <1>1, <1>5, <1>10, <1>12, <1>13, <1>14, <1>15, <1>18

(* A new address on the device d. *)
LEMMA NewAddress ==
  ASSUME NetInv, NEW d \in Devices, NEW id, id = lastId + 1, lastId' = id, NEW c,
         NEW i, i \in RowIds(ifaces), IfaceOn(i, d), NEW n, n = [id |-> id, iface |-> i, cidr |-> c],
         addrs' = addrs \cup {n}, UNCHANGED <<dev, ifaces, contested>>,
         d \notin contested => \A b \in AddrsOf(d) : b.cidr = c => Doubled(c[1])
  PROVE  /\ Frame(d) /\ RowInv' /\ PrimaryInv' /\ NoneDoubled(d)' /\ AddrOn(id, d)'
         /\ OnDevice(d)' = OnDevice(d) /\ AddrsOf(d)' = AddrsOf(d) \cup {n}
         /\ \A b \in AddrsOf(d) : b.id # id
<1>1. DOMAIN n = RowFields /\ n.id = id /\ n.iface = i /\ n.cidr = c BY DEF RowFields
<1>2. /\ lastId \in Nat /\ id \in Nat /\ id > lastId
      /\ \A r \in ifaces : r.id \in 1..lastId
      /\ \A b \in addrs : b.id \in 1..lastId /\ b.id # id
  BY DEF NetInv, RowInv
<1>3. \A e \in Devices : OnDevice(e)' = OnDevice(e) BY DEF OnDevice
<1>4. /\ \E r \in OnDevice(d) : r.id = i
      /\ \A e \in Devices \ {d} : \A r \in OnDevice(e) : r.id # i
  BY OneDevice
<1>5. \A e \in Devices \ {d} : AddrsOf(e)' = AddrsOf(e) BY <1>1, <1>3, <1>4 DEF AddrsOf
<1>6. AddrsOf(d)' = AddrsOf(d) \cup {n} BY <1>1, <1>3, <1>4 DEF AddrsOf
<1>7. RowInv'
  <2>1. \A b \in addrs : DOMAIN b = RowFields /\ b.id \in 1..lastId /\ b.iface \in RowIds(ifaces)
    BY DEF NetInv, RowInv
  <2>2. \A k \in 1..lastId : k \in 1..id BY <1>2
  <2>3. n.id \in 1..id BY <1>1, <1>2
  <2>4. \A b \in addrs' : DOMAIN b = RowFields /\ b.id \in 1..id /\ b.iface \in RowIds(ifaces)
    BY <1>1, <2>1, <2>2, <2>3
  <2>5. \A b, e \in addrs' : b.id = e.id => b = e BY <1>1, <1>2 DEF NetInv, RowInv
  <2>6. \A r \in ifaces : r.id \in 1..id BY <1>2, <2>2
  <2> QED BY <1>2, <2>4, <2>5, <2>6 DEF NetInv, RowInv
<1>8. PrimaryInv'
  <2> SUFFICES ASSUME NEW e \in Devices
               PROVE  {dev[e].p4, dev[e].p6} \ {None} \subseteq RowIds(AddrsOf(e)')
    BY DEF PrimaryInv
  <2>1. {dev[e].p4, dev[e].p6} \ {None} \subseteq RowIds(AddrsOf(e)) BY DEF NetInv, PrimaryInv
  <2>2. AddrsOf(e) \subseteq AddrsOf(e)' BY <1>5, <1>6
  <2>3. RowIds(AddrsOf(e)) \subseteq RowIds(AddrsOf(e)') BY ONLY <2>2 DEF RowIds
  <2> QED BY <2>1, <2>3
<1>9. NoneDoubled(d)'
  <2> SUFFICES ASSUME d \notin contested, NEW b \in AddrsOf(d)', NEW f \in AddrsOf(d)', b # f, b.cidr = f.cidr
               PROVE  Doubled(b.cidr[1])
    BY DEF NoneDoubled
  <2>1. \A g, k \in AddrsOf(d) : g # k /\ g.cidr = k.cidr => Doubled(g.cidr[1])
    BY DEF NetInv, NoneDoubled
  <2>2. CASE b # n /\ f # n BY <1>6, <2>1, <2>2
  <2>3. CASE b = n /\ f # n BY <1>1, <1>6, <2>3
  <2>4. CASE b # n /\ f = n BY <1>1, <1>6, <2>4
  <2> QED BY <2>2, <2>3, <2>4
<1>10. AddrOn(id, d)' BY <1>1, <1>2 DEF AddrOn, IfaceOn
<1>11. \A k \in 1..lastId : \A e \in Devices : AddrOn(k, e) => AddrOn(k, e)'
  BY <1>1, <1>2 DEF AddrOn, IfaceOn
<1>12. Frame(d) BY <1>1, <1>2, <1>3, <1>5, <1>11 DEF Frame, NetInv
<1>13. \A b \in AddrsOf(d) : b.id # id BY <1>2 DEF AddrsOf
<1> QED BY <1>3, <1>6, <1>7, <1>8, <1>9, <1>10, <1>12, <1>13

(* An address is on the device it is known to be on. *)
LEMMA OnItsDevice ==
  ASSUME NetInv, NEW d \in Devices, NEW i, AddrOn(i, d), NEW b \in addrs, b.id = i
  PROVE  b \in AddrsOf(d) /\ \A e \in Devices \ {d} : b \notin AddrsOf(e)
<1>1. b.iface \in RowIds(ifaces) BY DEF NetInv, RowInv
<1>2. IfaceOn(b.iface, d) BY DEF AddrOn
<1>3. /\ \E r \in OnDevice(d) : r.id = b.iface
      /\ \A e \in Devices \ {d} : \A r \in OnDevice(e) : r.id # b.iface
  BY <1>1, <1>2, OneDevice
<1> QED BY <1>3 DEF AddrsOf

(* An address of the device d that is no primary goes. *)
LEMMA GoneAddress ==
  ASSUME NetInv, NEW d \in Devices, NEW i, i \in RowIds(addrs) \ Primaries, AddrOn(i, d),
         addrs' = {b \in addrs : b.id # i}, UNCHANGED <<dev, ifaces, lastId, contested>>
  PROVE  /\ Frame(d) /\ RowInv' /\ PrimaryInv' /\ NoneDoubled(d)'
         /\ OnDevice(d)' = OnDevice(d) /\ AddrsOf(d)' = {b \in AddrsOf(d) : b.id # i}
<1>1. \A e \in Devices : OnDevice(e)' = OnDevice(e) /\ AddrsOf(e)' = {b \in AddrsOf(e) : b.id # i}
  BY DEF OnDevice, AddrsOf
<1>2. \A e \in Devices \ {d} : AddrsOf(e)' = AddrsOf(e)
  <2> TAKE e \in Devices \ {d}
  <2>1. \A b \in AddrsOf(e) : b \in addrs BY DEF AddrsOf
  <2>2. \A b \in AddrsOf(e) : b.id # i BY <2>1, OnItsDevice
  <2> QED BY <1>1, <2>2
<1>3. RowInv' BY DEF NetInv, RowInv
<1>4. PrimaryInv'
  <2> SUFFICES ASSUME NEW e \in Devices, NEW p \in {dev[e].p4, dev[e].p6} \ {None}
               PROVE  p \in RowIds(AddrsOf(e)')
    BY DEF PrimaryInv
  <2>1. p \in RowIds(AddrsOf(e)) BY DEF NetInv, PrimaryInv
  <2>2. PICK b \in AddrsOf(e) : b.id = p BY <2>1 DEF RowIds
  <2>3. p # i BY DEF Primaries
  <2>4. b \in AddrsOf(e)' BY <1>1, <2>2, <2>3
  <2> QED BY <2>2, <2>4 DEF RowIds
<1>5. NoneDoubled(d)' BY <1>1 DEF NetInv, NoneDoubled
<1>6. \A k \in 1..lastId : \A e \in Devices : AddrOn(k, e) => AddrOn(k, e)' BY DEF AddrOn, IfaceOn
<1>7. Frame(d) BY <1>1, <1>2, <1>6 DEF Frame, NetInv, RowInv
<1> QED BY <1>1, <1>3, <1>4, <1>5, <1>7

(* An interface of the device d goes, with its addresses, and no primary among them. *)
LEMMA GoneInterface ==
  ASSUME NetInv, NEW d \in Devices, NEW r, r.dev = d, \A s \in ifaces : s.id = r.id => s = r,
         NEW under, under = {a \in addrs : a.iface = r.id}, RowIds(under) \cap Primaries = {},
         ifaces' = {s \in ifaces : s.id # r.id}, addrs' = addrs \ under,
         UNCHANGED <<dev, lastId, contested>>
  PROVE  /\ Frame(d) /\ RowInv' /\ PrimaryInv' /\ NoneDoubled(d)'
         /\ OnDevice(d)' = OnDevice(d) \ {r} /\ AddrsOf(d)' = AddrsOf(d) \ under
<1>0. \A e \in Devices : OnDevice(e)' = {s \in OnDevice(e) : s.id # r.id} BY DEF OnDevice
<1>1. \A e \in Devices : OnDevice(e)' = OnDevice(e) \ {r}
  <2>1. \A e \in Devices : \A s \in OnDevice(e) : s.id # r.id <=> s # r BY DEF OnDevice
  <2> QED BY <1>0, <2>1
<1>2. \A e \in Devices : AddrsOf(e)' = AddrsOf(e) \ under
  <2> SUFFICES ASSUME NEW e \in Devices, NEW a PROVE a \in AddrsOf(e)' <=> a \in AddrsOf(e) \ under
    OBVIOUS
  <2>1. a \in AddrsOf(e) <=> a \in addrs /\ \E s \in OnDevice(e) : s.id = a.iface BY DEF AddrsOf
  <2>2. a \in AddrsOf(e)' <=> a \in addrs' /\ \E s \in OnDevice(e)' : s.id = a.iface BY DEF AddrsOf
  <2>3. a \in addrs' <=> a \in addrs /\ a.iface # r.id OBVIOUS
  <2> QED BY <1>0, <2>1, <2>2, <2>3
<1>3. \A e \in Devices \ {d} : OnDevice(e)' = OnDevice(e) /\ AddrsOf(e)' = AddrsOf(e)
  <2> TAKE e \in Devices \ {d}
  <2>1. r \notin OnDevice(e) BY DEF OnDevice
  <2>2. \A s \in OnDevice(e) : s.id # r.id BY <2>1 DEF OnDevice
  <2>3. \A a \in AddrsOf(e) : a \notin under BY <2>2 DEF AddrsOf
  <2>4. OnDevice(e)' = OnDevice(e) \ {r} /\ AddrsOf(e)' = AddrsOf(e) \ under BY <1>1, <1>2
  <2> QED BY ONLY <2>1, <2>3, <2>4
<1>4. RowInv'
  <2>1. /\ \A s \in ifaces' : s.id \in 1..lastId
        /\ \A s, u \in ifaces' : s.id = u.id => s = u
        /\ \A a, b \in addrs' : a.id = b.id => a = b
    BY DEF NetInv, RowInv
  <2>2. \A a \in addrs' : DOMAIN a = RowFields /\ a.id \in 1..lastId /\ a.iface \in RowIds(ifaces) /\ a.iface # r.id
    BY DEF NetInv, RowInv
  <2>3. \A i \in RowIds(ifaces) : i # r.id => i \in RowIds(ifaces') BY DEF RowIds
  <2>4. \A a \in addrs' : DOMAIN a = RowFields /\ a.id \in 1..lastId /\ a.iface \in RowIds(ifaces')
    BY <2>2, <2>3, Zenon
  <2>5. lastId \in Nat /\ lastId' = lastId BY DEF NetInv, RowInv
  <2> QED BY <2>1, <2>4, <2>5 DEF RowInv
<1>5. PrimaryInv'
  <2> SUFFICES ASSUME NEW e \in Devices, NEW p \in {dev[e].p4, dev[e].p6} \ {None}
               PROVE  p \in RowIds(AddrsOf(e)')
    BY DEF PrimaryInv
  <2>1. p \in RowIds(AddrsOf(e)) BY DEF NetInv, PrimaryInv
  <2>2. PICK b \in AddrsOf(e) : b.id = p BY <2>1 DEF RowIds
  <2>3. p \in Primaries BY DEF Primaries
  <2>4. p \notin RowIds(under) BY <2>3
  <2>5. b \notin under BY <2>2, <2>4 DEF RowIds
  <2>6. b \in AddrsOf(e)' BY <1>2, <2>2, <2>5
  <2> QED BY <2>2, <2>6 DEF RowIds
<1>6. NoneDoubled(d)' BY <1>2 DEF NetInv, NoneDoubled
<1>7. \A k \in 1..lastId : \A e \in Devices : AddrOn(k, e) => AddrOn(k, e)' BY DEF AddrOn, IfaceOn
<1>8. Frame(d) BY <1>3, <1>7 DEF Frame, NetInv, RowInv
<1> QED BY <1>1, <1>2, <1>4, <1>5, <1>6, <1>8

(* The device d gets primaries of its own. *)
LEMMA NewPrimaries ==
  ASSUME NetInv, NEW d \in Devices, NEW f, dev' = [dev EXCEPT ![d] = f],
         NEW S, {f.p4, f.p6} \subseteq S \cup {None}, \A i \in S : AddrOn(i, d),
         {f.p4, f.p6} \subseteq RowIds(addrs) \cup {None},
         UNCHANGED <<ifaces, addrs, lastId, contested>>
  PROVE  /\ Frame(d) /\ RowInv' /\ PrimaryInv' /\ NoneDoubled(d)' /\ dev'[d] = f
         /\ OnDevice(d)' = OnDevice(d) /\ AddrsOf(d)' = AddrsOf(d)
<1>1. \A e \in Devices : OnDevice(e)' = OnDevice(e) /\ AddrsOf(e)' = AddrsOf(e) BY DEF OnDevice, AddrsOf
<1>2. DOMAIN dev' = Devices /\ dev'[d] = f /\ \A e \in Devices \ {d} : dev'[e] = dev[e] BY DEF NetInv
<1>3. RowInv' BY DEF NetInv, RowInv
<1>4. PrimaryInv'
  <2> SUFFICES ASSUME NEW e \in Devices, NEW p \in {dev'[e].p4, dev'[e].p6} \ {None}
               PROVE  p \in RowIds(AddrsOf(e))
    BY <1>1 DEF PrimaryInv
  <2>1. CASE e # d BY <1>2, <2>1 DEF NetInv, PrimaryInv
  <2>2. CASE e = d
    <3>1. p \in S /\ p \in RowIds(addrs) BY <1>2, <2>2
    <3>2. PICK b \in addrs : b.id = p BY <3>1 DEF RowIds
    <3>3. b \in AddrsOf(d) BY <3>1, <3>2, OnItsDevice
    <3> QED BY <2>2, <3>2, <3>3 DEF RowIds
  <2> QED BY <2>1, <2>2
<1>5. NoneDoubled(d)' BY <1>1 DEF NetInv, NoneDoubled
<1>6. \A k \in 1..lastId : \A e \in Devices : AddrOn(k, e) => AddrOn(k, e)' BY DEF AddrOn, IfaceOn
<1>7. Frame(d) BY <1>1, <1>2, <1>6 DEF Frame, NetInv, RowInv
<1> QED BY <1>1, <1>2, <1>3, <1>4, <1>5, <1>7

(* An address is moved to the interface where it was observed. *)
LEMMA MovesIp ==
  ASSUME NetInv, NEW t \in Slots, move_ip(t)
  PROVE  NetInv' /\ Own(t)
<1> PICK x, c : x = task[t] /\ c = Wanted(t)[1] OBVIOUS
<1>1. AtIp(t) /\ UNCHANGED <<dev, ifaces, lastId, synced, contested>> BY DEF move_ip
<1>2. PICK a \in x.old :
        /\ a.cidr = c
        /\ IF a.id \in RowIds(addrs) /\ x.ifid \in RowIds(ifaces)
           THEN /\ addrs' = {b \in addrs : b.id # a.id} \cup {[a EXCEPT !.iface = x.ifid]}
                /\ Answered(t, WithIp(t, a.id, a.cidr)) /\ Wrote(t)
           ELSE Become(t, Idle) /\ UNCHANGED <<addrs, torn>>
  BY DEF move_ip, Existing
<1>3. CASE ~(a.id \in RowIds(addrs) /\ x.ifid \in RowIds(ifaces))
  BY <1>1, <1>2, <1>3, RefusedStep
<1>4. CASE a.id \in RowIds(addrs) /\ x.ifid \in RowIds(ifaces)
  <2> PICK y, n, id : y = WithIp(t, a.id, c) /\ n = [a EXCEPT !.iface = x.ifid] /\ id = a.id OBVIOUS
  <2>1. /\ addrs' = {b \in addrs : b.id # a.id} \cup {n} /\ Answered(t, y)
        /\ torn' = torn \cup {x.host}
    BY <1>2, <1>4 DEF Wrote
  <2>2. x.st = "ensure" /\ x.j > 0 BY <1>1, AtOnePrefix
  <2>3. TaskGood(x) /\ AtWork(x) /\ AllKnown(x) /\ RowsKnown(x) /\ Matched(x) BY <2>2, InTheLoop
  <2>4. /\ x.dev \in Devices /\ DOMAIN a = RowFields /\ a.id \in 1..lastId /\ AddrOn(a.id, x.dev)
        /\ \A b \in addrs : b.id = a.id => b.cidr = a.cidr
    BY <2>3 DEF RowsKnown, Matched
  <2>5. IfaceOn(x.ifid, x.dev)
    <3>1. x.ifid # None BY <1>4 DEF NetInv, RowInv, RowIds, None
    <3> QED BY <2>3, <3>1 DEF RowsKnown
  <2>6. /\ Frame(x.dev) /\ RowInv' /\ PrimaryInv' /\ NoneDoubled(x.dev)' /\ AddrOn(a.id, x.dev)'
        /\ OnDevice(x.dev)' = OnDevice(x.dev) /\ n.id = a.id /\ n.iface = x.ifid /\ n.cidr = a.cidr
        /\ AddrsOf(x.dev)' = {b \in AddrsOf(x.dev) : b.id # a.id} \cup {n}
    BY <1>1, <1>4, <2>1, <2>4, <2>5, MovedAddress
  <2>7. Written(t) BY <1>1, <2>1, <2>6 DEF Written
  <2>8. ASSUME x.dev \notin contested PROVE Placed(x, id, c)
    <3>1. \E r \in OnDevice(x.dev) : r.id = x.ifid /\ r.name = x.obs.ifs[x.i].name
      BY <2>2, <2>3, <2>8 DEF AllKnown
    <3>2. \A b \in AddrsOf(x.dev) : b.id = id => b.cidr = c BY <1>2, <2>4 DEF AddrsOf
    <3>3. \A b \in AddrsOf(x.dev)' : b.id = id => b = n BY <2>6
    <3>4. n \in AddrsOf(x.dev)' /\ n.id = id /\ n.cidr = c BY <1>2, <2>6
    <3>5. \E r \in OnDevice(x.dev) :
            /\ r.id = n.iface /\ r.name \in DoneNames(x) \cup {x.obs.ifs[x.i].name}
            /\ <<r.name, c>> \in DonePlaces(x) \cup AtPlace(x)
            /\ OnOne(x.obs.ifs, c) => r.name = x.obs.ifs[x.i].name
      <4>1. AtPlace(x) = {<<x.obs.ifs[x.i].name, c>>} BY <1>1, AtOnePrefix DEF AtPlace
      <4> QED BY <2>6, <3>1, <4>1
    <3>6. \A b \in AddrsOf(x.dev)' : b.id # id => b \in AddrsOf(x.dev) BY <2>6
    <3>7. \A b \in AddrsOf(x.dev) : b.id # id => b \in AddrsOf(x.dev)' BY <2>6
    <3> QED BY <2>6, <3>2, <3>3, <3>4, <3>5, <3>6, <3>7 DEF Placed
  <2>9. id \in 1..lastId' /\ AddrOn(id, x.dev)' BY <1>1, <2>4, <2>6
  <2>10. Continues(x, y) /\ Sound(y)' BY <1>1, <2>6, <2>8, <2>9, IpTaken
  <2> QED BY <2>1, <2>3, <2>7, <2>10, AnsweredStep
<1> QED BY <1>3, <1>4

(* An address at two places of a snapshot is one that the network has twice. *)
LEMMA SeenTwice ==
  ASSUME NEW ifs, NEW net, OfNetwork(ifs, net), NEW k \in DOMAIN ifs, NEW i \in DOMAIN ifs,
         NEW l \in DOMAIN ifs[k].ips, NEW j \in DOMAIN ifs[i].ips,
         ifs[k].ips[l] = ifs[i].ips[j], k # i \/ l # j
  PROVE  \E n, m \in DOMAIN net : n # m /\ ifs[i].ips[j] \in net[n] \cap net[m]
<1>1. k # i
  <2>1. \A e, f \in DOMAIN ifs[i].ips : ifs[i].ips[e] = ifs[i].ips[f] => e = f BY DEF OfNetwork
  <2> QED BY <2>1
<1>2. ifs[k].name # ifs[i].name BY <1>1 DEF OfNetwork
<1>3. ifs[k].name \in DOMAIN net /\ ifs[k].ips[l] \in net[ifs[k].name] BY DEF OfNetwork
<1>4. ifs[i].name \in DOMAIN net /\ ifs[i].ips[j] \in net[ifs[i].name] BY DEF OfNetwork
<1> PICK n, m : n = ifs[k].name /\ m = ifs[i].name OBVIOUS
<1> QED BY <1>2, <1>3, <1>4

(* A prefix that the lists do not have is on the device only if the host has its
   address twice. *)
LEMMA NotThereYet ==
  ASSUME NetInv, NEW t \in Slots, NEW x, x = task[t], AtIp(t), NEW c, c = Wanted(t)[1],
         Existing(t, c) = {}, x.dev \notin contested, NEW b \in AddrsOf(x.dev), b.cidr = c
  PROVE  Doubled(c[1])
<1>1. /\ x.st = "ensure" /\ c[1] = x.obs.ifs[x.i].ips[x.j]
  BY AtOnePrefix
<1>2. TaskGood(x) /\ AllKnown(x) /\ RowsKnown(x) /\ InLoop(x) BY <1>1, InTheLoop
<1> PICK P : P = DonePrefixes(x) OBVIOUS
<1>3. Reconciled(x, DoneNames(x), P) BY <1>1, <1>2 DEF AllKnown, AtWork
<1>4. b \in addrs BY DEF AddrsOf
<1>5. b.id \notin RowIds(x.old)
  <2> SUFFICES ASSUME NEW a \in x.old, a.id = b.id PROVE FALSE BY DEF RowIds
  <2>1. b.cidr = a.cidr BY <1>2, <1>4 DEF RowsKnown
  <2>2. a \in Existing(t, c) BY <2>1 DEF Existing
  <2> QED BY <2>2
<1>6. c \in P BY <1>3, <1>5 DEF Reconciled
<1> PICK ifs, v, i, j : ifs = x.obs.ifs /\ v = c[1] /\ i = x.i /\ j = x.j OBVIOUS
<1>7. PICK k, l : /\ k \in DOMAIN ifs /\ l \in DOMAIN ifs[k].ips
                  /\ to_cidr(ifs[k].ips[l]) = <<c>> /\ Behind(x, k, l)
  BY <1>6 DEF DonePrefixes
<1>8. ifs[k].ips[l] = v
  <2> PICK ip : ip = ifs[k].ips[l] OBVIOUS
  <2>1. to_cidr(ip) = <<c>> BY <1>7
  <2>2. ip = c[1] BY ONLY <2>1, CidrOf
  <2> QED BY <2>2
<1>9. PICK net \in UNION {Networks[h] : h \in Hosts} : OfNetwork(ifs, net) BY <1>1, <1>2, TaskNetwork
<1>10. i \in DOMAIN ifs /\ i \in Nat /\ k \in Nat
  <2>1. i \in 1..Len(ifs) BY <1>2 DEF InLoop
  <2>2. DOMAIN ifs = 1..Len(ifs) BY ONLY <1>9 DEF OfNetwork
  <2> QED BY <1>7, <2>1, <2>2
<1>11. k < i \/ (k = i /\ l < j) BY <1>1, <1>7 DEF Behind
<1>12. \A n \in DOMAIN ifs : Len(ifs[n].ips) \in Nat /\ DOMAIN ifs[n].ips = 1..Len(ifs[n].ips)
  BY ONLY <1>9 DEF OfNetwork
<1>13. j \in DOMAIN ifs[i].ips
  <2>1. j \in 0..Len(ifs[i].ips) /\ j > 0 BY <1>2, AtOnePrefix DEF InLoop
  <2> PICK m : m = Len(ifs[i].ips) OBVIOUS
  <2>2. m \in Nat /\ DOMAIN ifs[i].ips = 1..m BY <1>10, <1>12
  <2>3. j \in 1..m BY ONLY <2>1, <2>2, m = Len(ifs[i].ips), SMTT(40)
  <2> QED BY <2>2, <2>3
<1>14. l \in Nat /\ j \in Nat
  <2>1. DOMAIN ifs[k].ips \subseteq Nat /\ DOMAIN ifs[i].ips \subseteq Nat BY ONLY <1>7, <1>10, <1>12
  <2> QED BY <1>7, <1>13, <2>1
<1>15. k # i \/ l # j BY ONLY <1>10, <1>11, <1>14
<1>16. ifs[k].ips[l] = ifs[i].ips[j] /\ v = ifs[i].ips[j] BY <1>1, <1>8
<1>17. \E n, m \in DOMAIN net : n # m /\ v \in net[n] \cap net[m]
  BY ONLY <1>7, <1>9, <1>10, <1>13, <1>15, <1>16, SeenTwice
<1>18. v = c[1] OBVIOUS
<1> QED BY ONLY <1>9, <1>17, <1>18 DEF Doubled

(* An address is made. *)
LEMMA CreatesIp ==
  ASSUME NetInv, NEW t \in Slots, create_ip(t)
  PROVE  NetInv' /\ Own(t)
<1> PICK x, c : x = task[t] /\ c = Wanted(t)[1] OBVIOUS
<1>1. AtIp(t) /\ Existing(t, c) = {} /\ UNCHANGED <<dev, ifaces, synced, contested>> BY DEF create_ip
<1>2. CASE x.ifid \notin RowIds(ifaces)
  <2>1. Become(t, Idle) /\ UNCHANGED <<addrs, lastId, torn>> BY <1>2 DEF create_ip
  <2> QED BY <1>1, <2>1, RefusedStep
<1>3. CASE x.ifid \in RowIds(ifaces)
  <2> PICK id : id = lastId + 1 OBVIOUS
  <2> PICK n : n = [id |-> id, iface |-> x.ifid, cidr |-> c] OBVIOUS
  <2> PICK y : y = WithIp(t, id, c) OBVIOUS
  <2>1. lastId' = id /\ addrs' = addrs \cup {n} /\ Answered(t, y) /\ torn' = torn \cup {x.host}
    BY <1>3 DEF create_ip, Wrote
  <2>2. x.st = "ensure" /\ x.j > 0 BY <1>1, AtOnePrefix
  <2>3. TaskGood(x) /\ AtWork(x) /\ AllKnown(x) /\ RowsKnown(x) /\ Matched(x) BY <2>2, InTheLoop
  <2>4. x.dev \in Devices BY <2>3 DEF Matched
  <2>5. IfaceOn(x.ifid, x.dev)
    <3>1. x.ifid # None BY <1>3 DEF NetInv, RowInv, RowIds, None
    <3> QED BY <2>3, <3>1 DEF RowsKnown
  <2>6. x.dev \notin contested => \A b \in AddrsOf(x.dev) : b.cidr = c => Doubled(c[1])
    BY <1>1, NotThereYet
  <2>7. /\ Frame(x.dev) /\ RowInv' /\ PrimaryInv' /\ NoneDoubled(x.dev)' /\ AddrOn(id, x.dev)'
        /\ OnDevice(x.dev)' = OnDevice(x.dev) /\ AddrsOf(x.dev)' = AddrsOf(x.dev) \cup {n}
        /\ \A b \in AddrsOf(x.dev) : b.id # id
    BY <1>1, <1>3, <2>1, <2>4, <2>5, <2>6, NewAddress
  <2>8. Written(t) BY <1>1, <2>1, <2>7 DEF Written
  <2>9. ASSUME x.dev \notin contested PROVE Placed(x, id, c)
    <3>1. \E r \in OnDevice(x.dev) : r.id = x.ifid /\ r.name = x.obs.ifs[x.i].name
      BY <2>2, <2>3, <2>9 DEF AllKnown
    <3>2. \A b \in AddrsOf(x.dev)' : b.id = id => b = n BY <2>7
    <3>3. n \in AddrsOf(x.dev)' /\ n.id = id /\ n.cidr = c /\ n.iface = x.ifid BY <2>7
    <3>4. \E r \in OnDevice(x.dev) :
            /\ r.id = n.iface /\ r.name \in DoneNames(x) \cup {x.obs.ifs[x.i].name}
            /\ <<r.name, c>> \in DonePlaces(x) \cup AtPlace(x)
            /\ OnOne(x.obs.ifs, c) => r.name = x.obs.ifs[x.i].name
      <4>1. AtPlace(x) = {<<x.obs.ifs[x.i].name, c>>} BY <1>1, AtOnePrefix DEF AtPlace
      <4> QED BY <3>1, <3>3, <4>1
    <3>5. \A b \in AddrsOf(x.dev)' : b.id # id => b \in AddrsOf(x.dev) BY <2>7
    <3> QED BY <2>7, <3>2, <3>3, <3>4, <3>5 DEF Placed
  <2>10. id \in 1..lastId' BY <2>1 DEF NetInv, RowInv
  <2>11. Continues(x, y) /\ Sound(y)' BY <1>1, <2>7, <2>9, <2>10, IpTaken
  <2> QED BY <2>1, <2>3, <2>8, <2>11, AnsweredStep
<1> QED BY <1>2, <1>3

(* Past the loop, all of the snapshot is behind. *)
LEMMA PastLoop ==
  ASSUME NEW x, NEW y, x.st # "ensure", y.st # "ensure", y.obs = x.obs
  PROVE  /\ DoneNames(y) = DoneNames(x) /\ DonePrefixes(y) = DonePrefixes(x)
         /\ DonePlaces(y) = DonePlaces(x)
BY DEF DoneNames, DonePrefixes, DonePlaces, Behind

(* What the invariant says of a task past the loop. *)
LEMMA AfterTheLoop ==
  ASSUME NetInv, NEW t \in Slots, NEW x, x = task[t], x.st \in {"finalize", "delete"}
  PROVE  /\ TaskGood(x) /\ AtWork(x) /\ Active(x) /\ DOMAIN x = Fields /\ Matched(x) /\ RowsKnown(x)
         /\ x.dev \in Devices /\ x.host \in Hosts /\ x.obs.serial # NoSerial /\ Snapshot(x.host, x.obs)
         /\ Undisturbed(x) /\ AllKnown(x)
         /\ x.dev \notin contested => Reconciled(x, DoneNames(x), DonePrefixes(x)) /\ Seated(x)
BY DEF NetInv, TaskGood, AtWork, Active, Matched, AllKnown

(* A task goes on to delete, or goes on deleting. *)
LEMMA DeleteSound ==
  ASSUME NetInv, NEW t \in Slots, NEW x, x = task[t], x.st \in {"finalize", "delete"},
         NEW y, DOMAIN y = Fields, y.st = "delete", y.host = x.host, y.obs = x.obs, y.dev = x.dev,
         Frame(x.dev), RowsKnown(y)',
         dev'[x.dev] = [claim |-> y.host, p4 |-> y.p4, p6 |-> y.p6] \/ x.dev \in contested,
         x.dev \notin contested => Reconciled(y, DoneNames(x), DonePrefixes(x))',
         x.dev \notin contested =>
           SeatedIn(x.obs.ifs, y.kept, OnDevice(x.dev), AddrsOf(x.dev), DonePlaces(x))'
  PROVE  Continues(x, y) /\ Sound(y)'
<1>1. /\ TaskGood(x) /\ AtWork(x) /\ Active(x) /\ Matched(x)
      /\ x.host \in Hosts /\ x.obs.serial # NoSerial /\ Snapshot(x.host, x.obs)
  BY AfterTheLoop
<1>2. TaskGood(y)' BY <1>1 DEF TaskGood, Stages, Matched
<1>3. Undisturbed(y)' BY DEF Undisturbed, Frame
<1> PICK N, P : N = DoneNames(x) /\ P = DonePrefixes(x) OBVIOUS
<1>4. DoneNames(y) = N /\ DonePrefixes(y) = P BY PastLoop
<1>5. x.dev \notin contested => Reconciled(y, N, P)' OBVIOUS
<1>6. x.dev \notin contested => Reconciled(y, DoneNames(y), DonePrefixes(y))' BY <1>4, <1>5
<1> PICK L : L = DonePlaces(x) OBVIOUS
<1>9. x.dev \notin contested => SeatedIn(x.obs.ifs, y.kept, OnDevice(x.dev), AddrsOf(x.dev), L)' OBVIOUS
<1>10. DonePlaces(y) = L BY PastLoop
<1>11. x.dev \notin contested => Seated(y)' BY <1>9, <1>10 DEF Seated
<1>7. AllKnown(y)' BY <1>6, <1>11 DEF AllKnown, Frame
<1>8. Continues(x, y) BY <1>1 DEF Continues
<1> QED BY <1>2, <1>3, <1>7, <1>8 DEF Sound

(* The device is claimed and gets its primaries. *)
LEMMA FinalizesDevice ==
  ASSUME NetInv, NEW t \in Slots, finalize_device(t)
  PROVE  NetInv' /\ Own(t)
<1> PICK x : x = task[t] OBVIOUS
<1>1. x.st = "finalize" /\ UNCHANGED <<ifaces, addrs, lastId, synced, contested>> BY DEF finalize_device
<1>2. CASE ~({x.p4, x.p6} \subseteq RowIds(addrs) \cup {None})
  <2>1. Become(t, Idle) /\ UNCHANGED <<dev, torn>> BY <1>2 DEF finalize_device
  <2> QED BY <1>1, <2>1, RefusedStep
<1>3. CASE {x.p4, x.p6} \subseteq RowIds(addrs) \cup {None}
  <2> PICK f, y : f = Finalized(t) /\ y = [x EXCEPT !.st = "delete"] OBVIOUS
  <2>1. dev' = [dev EXCEPT ![x.dev] = f] /\ Answered(t, y) /\ torn' = torn \cup {x.host}
    BY <1>3 DEF finalize_device, Wrote
  <2>2. /\ TaskGood(x) /\ AtWork(x) /\ DOMAIN x = Fields /\ RowsKnown(x) /\ x.dev \in Devices
        /\ x.dev \notin contested => Reconciled(x, DoneNames(x), DonePrefixes(x)) /\ Seated(x)
    BY <1>1, AfterTheLoop
  <2>3. f = [claim |-> x.host, p4 |-> x.p4, p6 |-> x.p6] /\ f.p4 = x.p4 /\ f.p6 = x.p6 BY DEF Finalized
  <2>4. {x.p4, x.p6} \subseteq x.kept \cup {None} /\ \A i \in x.kept : AddrOn(i, x.dev)
    BY <2>2 DEF RowsKnown
  <2>5. /\ Frame(x.dev) /\ RowInv' /\ PrimaryInv' /\ NoneDoubled(x.dev)' /\ dev'[x.dev] = f
        /\ OnDevice(x.dev)' = OnDevice(x.dev) /\ AddrsOf(x.dev)' = AddrsOf(x.dev)
    <3> PICK d, K : d = x.dev /\ K = x.kept OBVIOUS
    <3>1. /\ d \in Devices /\ dev' = [dev EXCEPT ![d] = f] /\ {f.p4, f.p6} \subseteq K \cup {None}
          /\ {f.p4, f.p6} \subseteq RowIds(addrs) \cup {None}
      BY <1>3, <2>1, <2>2, <2>3, <2>4
    <3>2. \A i \in K : AddrOn(i, d) BY <2>4
    <3>3. /\ Frame(d) /\ RowInv' /\ PrimaryInv' /\ NoneDoubled(d)' /\ dev'[d] = f
          /\ OnDevice(d)' = OnDevice(d) /\ AddrsOf(d)' = AddrsOf(d)
      BY ONLY NetInv, <1>1, <3>1, <3>2, NewPrimaries
    <3> QED BY <3>3
  <2>6. Written(t) BY <1>1, <2>1, <2>5 DEF Written
  <2>7. /\ DOMAIN y = Fields /\ y.st = "delete" /\ SameRows(x, y)
    BY <2>2 DEF SameRows, Fields
  <2>8. /\ y.host = x.host /\ y.obs = x.obs /\ y.dev = x.dev /\ y.cur = x.cur /\ y.old = x.old
        /\ y.kept = x.kept /\ y.p4 = x.p4 /\ y.p6 = x.p6 /\ y.ifid = x.ifid
    BY <2>7 DEF SameRows
  <2>9. RowsKnown(x)' BY <2>2, <2>5, KnownStays DEF TaskGood
  <2>10. RowsKnown(y)' BY <2>8, <2>9 DEF RowsKnown
  <2> PICK N, P : N = DoneNames(x) /\ P = DonePrefixes(x) OBVIOUS
  <2>11. x.dev \notin contested => Reconciled(y, N, P)'
    <3>1. x.dev \notin contested => Reconciled(x, N, P) BY <2>2
    <3> QED BY <2>5, <2>8, <3>1 DEF Reconciled
  <2>12. dev'[x.dev] = [claim |-> y.host, p4 |-> y.p4, p6 |-> y.p6] BY <2>3, <2>5, <2>8
  <2>14. x.dev \notin contested => SeatedIn(x.obs.ifs, y.kept, OnDevice(x.dev), AddrsOf(x.dev), DonePlaces(x))'
    BY <2>2, <2>5, <2>8 DEF Seated
  <2>13. Continues(x, y) /\ Sound(y)'
    BY <1>1, <2>5, <2>7, <2>8, <2>10, <2>11, <2>12, <2>14, DeleteSound, ZenonT(60)
  <2> QED BY <2>1, <2>2, <2>6, <2>13, AnsweredStep
<1> QED BY <1>2, <1>3

(* A stale address is deleted. *)
LEMMA DeletesIp ==
  ASSUME NetInv, NEW t \in Slots, delete_ip(t)
  PROVE  NetInv' /\ Own(t)
<1> PICK x : x = task[t] OBVIOUS
<1>1. x.st = "delete" /\ UNCHANGED <<dev, ifaces, lastId, synced, contested>> BY DEF delete_ip
<1>2. PICK a \in x.old :
        /\ a.id \notin x.kept
        /\ IF a.id \in RowIds(addrs) \ Primaries
           THEN /\ addrs' = {b \in addrs : b.id # a.id}
                /\ Answered(t, [x EXCEPT !.old = @ \ {a}]) /\ Wrote(t)
           ELSE Become(t, Idle) /\ UNCHANGED <<addrs, torn>>
  BY DEF delete_ip, StaleIps
<1>3. CASE a.id \notin RowIds(addrs) \ Primaries
  BY <1>1, <1>2, <1>3, RefusedStep
<1>4. CASE a.id \in RowIds(addrs) \ Primaries
  <2> PICK i, y : i = a.id /\ y = [x EXCEPT !.old = @ \ {a}] OBVIOUS
  <2>1. addrs' = {b \in addrs : b.id # i} /\ Answered(t, y) /\ torn' = torn \cup {x.host}
    BY <1>2, <1>4 DEF Wrote
  <2>2. /\ TaskGood(x) /\ AtWork(x) /\ DOMAIN x = Fields /\ RowsKnown(x) /\ x.dev \in Devices
        /\ Undisturbed(x)
        /\ x.dev \notin contested => Reconciled(x, DoneNames(x), DonePrefixes(x)) /\ Seated(x)
    BY <1>1, AfterTheLoop
  <2>3. AddrOn(i, x.dev) BY <2>2 DEF RowsKnown
  <2>4. /\ Frame(x.dev) /\ RowInv' /\ PrimaryInv' /\ NoneDoubled(x.dev)'
        /\ OnDevice(x.dev)' = OnDevice(x.dev) /\ AddrsOf(x.dev)' = {b \in AddrsOf(x.dev) : b.id # i}
    BY <1>1, <1>4, <2>1, <2>2, <2>3, GoneAddress
  <2>5. Written(t) BY <1>1, <2>1, <2>4 DEF Written
  <2>6. /\ DOMAIN y = Fields /\ y.st = "delete" /\ y.host = x.host /\ y.obs = x.obs /\ y.dev = x.dev
        /\ y.cur = x.cur /\ y.old = x.old \ {a} /\ y.kept = x.kept /\ y.p4 = x.p4 /\ y.p6 = x.p6
        /\ y.ifid = x.ifid
    BY <1>1, <2>2 DEF Fields
  <2>7. RowsKnown(x)' BY <2>2, <2>4, KnownStays DEF TaskGood
  <2>8. RowsKnown(y)' BY <2>6, <2>7 DEF RowsKnown
  <2>9. dev'[x.dev] = [claim |-> y.host, p4 |-> y.p4, p6 |-> y.p6] \/ x.dev \in contested
    BY <1>1, <2>2, <2>6 DEF Undisturbed
  <2> PICK N, P : N = DoneNames(x) /\ P = DonePrefixes(x) OBVIOUS
  <2>10. ASSUME x.dev \notin contested PROVE Reconciled(y, N, P)'
    <3> PICK I, A : I = OnDevice(x.dev) /\ A = AddrsOf(x.dev) OBVIOUS
    <3> PICK B : B = {b \in A : b.id # i} OBVIOUS
    <3>1. Reconciled(x, N, P) BY <2>2, <2>10
    <3>2. /\ x.cur \subseteq I /\ RowIds(x.old) \subseteq RowIds(A)
          /\ \A o \in x.old : o.id \notin x.kept => o \in A
          /\ N \subseteq {r.name : r \in I}
          /\ \A r \in I : r \in x.cur \/ r.name \in N
          /\ \A c \in P : \E b \in A : b.id \in x.kept /\ b.cidr = c
          /\ \A b \in A : b.id \in x.kept \cup RowIds(x.old)
          /\ \A b \in A : b.id \in x.kept => b.cidr \in P /\ \E r \in I : r.id = b.iface /\ r.name \in N
          /\ x.p4 = None <=> \A c \in P : ~is_ipv4_cidr(c)
          /\ x.p6 = None <=> \A c \in P : is_ipv4_cidr(c)
      BY <3>1 DEF Reconciled
    <3>3. OnDevice(x.dev)' = I /\ AddrsOf(x.dev)' = B BY <2>4
    <3>4. \A b, e \in A : b.id = e.id => b = e BY DEF NetInv, RowInv, AddrsOf
    <3>5. \A o \in y.old : o.id # i
      <4> SUFFICES ASSUME NEW o \in x.old, o # a, o.id = i PROVE FALSE BY <2>6
      <4>1. o \in A /\ a \in A BY <1>2, <3>2
      <4> QED BY <3>4, <4>1
    <3>6. \A o \in x.old : \E b \in A : b.id = o.id
      <4>1. RowIds(x.old) \subseteq RowIds(A) BY <3>2
      <4> QED BY ONLY <4>1 DEF RowIds
    <3>7. \A o \in y.old : \E b \in B : b.id = o.id BY <2>6, <3>5, <3>6
    <3>8. RowIds(y.old) \subseteq RowIds(B) BY ONLY <3>7 DEF RowIds
    <3>9. \A o \in y.old : o.id \notin y.kept => o \in B BY <2>6, <3>2, <3>5
    <3>10. \A c \in P : \E b \in B : b.id \in y.kept /\ b.cidr = c BY <1>2, <2>6, <3>2
    <3>11. \A b \in B : b.id \in y.kept \cup RowIds(y.old)
      <4> SUFFICES ASSUME NEW b \in A, b.id # i, b.id \notin x.kept PROVE b.id \in RowIds(y.old)
        BY <2>6
      <4>1. b.id \in RowIds(x.old) BY <3>2
      <4>2. PICK o \in x.old : o.id = b.id BY ONLY <4>1 DEF RowIds
      <4>3. o \in y.old BY <2>6, <4>2
      <4> QED BY <4>2, <4>3 DEF RowIds
    <3>12. \A b \in B : b.id \in y.kept => b.cidr \in P /\ \E r \in I : r.id = b.iface /\ r.name \in N
      BY <2>6, <3>2
    <3>13. /\ y.dev = x.dev /\ y.cur \subseteq I /\ \A r \in I : r \in y.cur \/ r.name \in N
           /\ N \subseteq {r.name : r \in I}
      BY <2>6, <3>2
    <3>14. /\ y.p4 = None <=> \A c \in P : ~is_ipv4_cidr(c)
           /\ y.p6 = None <=> \A c \in P : is_ipv4_cidr(c)
      BY <2>6, <3>2
    <3> QED BY ONLY <3>3, <3>8, <3>9, <3>10, <3>11, <3>12, <3>13, <3>14 DEF Reconciled
  <2>12. ASSUME x.dev \notin contested
         PROVE  SeatedIn(x.obs.ifs, y.kept, OnDevice(x.dev), AddrsOf(x.dev), DonePlaces(x))'
    <3> PICK ifs, K, D : ifs = x.obs.ifs /\ K = x.kept /\ D = DonePlaces(x) OBVIOUS
    <3> PICK I, A : I = OnDevice(x.dev) /\ A = AddrsOf(x.dev) OBVIOUS
    <3> PICK B : B = {b \in A : b.id # i} OBVIOUS
    <3>1. SeatedIn(ifs, K, I, A, D) BY <2>2, <2>12 DEF Seated
    <3>2. i \notin K BY <1>2
    <3>3. \A b : b.id \in K => (b \in A <=> b \in B) BY <3>2
    <3>4. SeatedIn(ifs, K, I, B, D) BY ONLY <3>1, <3>3, SeatedStays
    <3> QED BY <2>4, <2>6, <3>4
  <2>11. Continues(x, y) /\ Sound(y)'
    BY <1>1, <2>4, <2>6, <2>8, <2>9, <2>10, <2>12, DeleteSound
  <2> QED BY <2>1, <2>2, <2>5, <2>11, AnsweredStep
<1> QED BY <1>3, <1>4

(* The names that are done are the snapshot's. *)
LEMMA NamesObserved ==
  ASSUME NEW x
  PROVE  /\ DoneNames(x) \subseteq {x.obs.ifs[k].name : k \in DOMAIN x.obs.ifs}
         /\ x.st # "ensure" => DoneNames(x) = {x.obs.ifs[k].name : k \in DOMAIN x.obs.ifs}
BY DEF DoneNames, Behind

(* A stale interface is deleted. *)
LEMMA DeletesInterface ==
  ASSUME NetInv, NEW t \in Slots, delete_interface(t)
  PROVE  NetInv' /\ Own(t)
<1> PICK x : x = task[t] OBVIOUS
<1>1. x.st = "delete" /\ StaleIps(t) = {} /\ UNCHANGED <<dev, lastId, synced, contested>>
  BY DEF delete_interface
<1>2. PICK r \in x.cur :
        /\ \A k \in DOMAIN x.obs.ifs : x.obs.ifs[k].name # r.name
        /\ IF r.id \in RowIds(ifaces) /\ RowIds({a \in addrs : a.iface = r.id}) \cap Primaries = {}
           THEN /\ ifaces' = {s \in ifaces : s.id # r.id}
                /\ addrs' = addrs \ {a \in addrs : a.iface = r.id}
                /\ Answered(t, [x EXCEPT !.cur = @ \ {r}]) /\ Wrote(t)
           ELSE Become(t, Idle) /\ UNCHANGED <<ifaces, addrs, torn>>
  BY DEF delete_interface, StaleInterfaces
<1> PICK under : under = {a \in addrs : a.iface = r.id} OBVIOUS
<1>3. CASE ~(r.id \in RowIds(ifaces) /\ RowIds(under) \cap Primaries = {})
  BY <1>1, <1>2, <1>3, RefusedStep
<1>4. CASE r.id \in RowIds(ifaces) /\ RowIds(under) \cap Primaries = {}
  <2> PICK y : y = [x EXCEPT !.cur = @ \ {r}] OBVIOUS
  <2>1. /\ ifaces' = {s \in ifaces : s.id # r.id} /\ addrs' = addrs \ under /\ Answered(t, y)
        /\ torn' = torn \cup {x.host}
    BY <1>2, <1>4 DEF Wrote
  <2>2. /\ TaskGood(x) /\ AtWork(x) /\ DOMAIN x = Fields /\ RowsKnown(x) /\ x.dev \in Devices
        /\ Undisturbed(x)
        /\ x.dev \notin contested => Reconciled(x, DoneNames(x), DonePrefixes(x)) /\ Seated(x)
    BY <1>1, AfterTheLoop
  <2>3. r.dev = x.dev /\ \A s \in ifaces : s.id = r.id => s = r BY <2>2 DEF RowsKnown
  <2>4. /\ Frame(x.dev) /\ RowInv' /\ PrimaryInv' /\ NoneDoubled(x.dev)'
        /\ OnDevice(x.dev)' = OnDevice(x.dev) \ {r} /\ AddrsOf(x.dev)' = AddrsOf(x.dev) \ under
    <3> PICK d : d = x.dev OBVIOUS
    <3>1. d \in Devices /\ r.dev = d /\ under = {a \in addrs : a.iface = r.id} BY <2>2, <2>3
    <3>2. /\ Frame(d) /\ RowInv' /\ PrimaryInv' /\ NoneDoubled(d)'
          /\ OnDevice(d)' = OnDevice(d) \ {r} /\ AddrsOf(d)' = AddrsOf(d) \ under
      BY ONLY NetInv, <1>1, <1>4, <2>1, <2>3, <3>1, GoneInterface
    <3> QED BY <3>2
  <2>5. Written(t) BY <1>1, <2>1, <2>4 DEF Written
  <2>6. /\ DOMAIN y = Fields /\ y.st = "delete" /\ y.host = x.host /\ y.obs = x.obs /\ y.dev = x.dev
        /\ y.cur = x.cur \ {r} /\ y.old = x.old /\ y.kept = x.kept /\ y.p4 = x.p4 /\ y.p6 = x.p6
        /\ y.ifid = x.ifid
    BY <1>1, <2>2 DEF Fields
  <2>7. RowsKnown(x)' BY <2>2, <2>4, KnownStays DEF TaskGood
  <2>8. RowsKnown(y)' BY <2>6, <2>7 DEF RowsKnown
  <2>9. dev'[x.dev] = [claim |-> y.host, p4 |-> y.p4, p6 |-> y.p6] \/ x.dev \in contested
    BY <1>1, <2>2, <2>6 DEF Undisturbed
  <2> PICK N, P : N = DoneNames(x) /\ P = DonePrefixes(x) OBVIOUS
  <2>10. ASSUME x.dev \notin contested
         PROVE  /\ Reconciled(y, N, P)'
                /\ SeatedIn(x.obs.ifs, y.kept, OnDevice(x.dev), AddrsOf(x.dev), DonePlaces(x))'
    <3> PICK I, A : I = OnDevice(x.dev) /\ A = AddrsOf(x.dev) OBVIOUS
    <3> PICK J : J = I \ {r} OBVIOUS
    <3>1. Reconciled(x, N, P) BY <2>2, <2>10
    <3>2. /\ x.cur \subseteq I /\ RowIds(x.old) \subseteq RowIds(A)
          /\ \A o \in x.old : o.id \notin x.kept => o \in A
          /\ N \subseteq {s.name : s \in I}
          /\ \A s \in I : s \in x.cur \/ s.name \in N
          /\ \A c \in P : \E b \in A : b.id \in x.kept /\ b.cidr = c
          /\ \A b \in A : b.id \in x.kept \cup RowIds(x.old)
          /\ \A b \in A : b.id \in x.kept => b.cidr \in P /\ \E s \in I : s.id = b.iface /\ s.name \in N
          /\ x.p4 = None <=> \A c \in P : ~is_ipv4_cidr(c)
          /\ x.p6 = None <=> \A c \in P : is_ipv4_cidr(c)
      BY <3>1 DEF Reconciled
    <3>3. r.name \notin N BY <1>2, NamesObserved
    <3>4. \A o \in x.old : o.id \in x.kept BY <1>1 DEF StaleIps
    <3>5. RowIds(x.old) \subseteq x.kept BY <3>4 DEF RowIds
    <3>6. \A b \in A : b.cidr \in P /\ \E s \in I : s.id = b.iface /\ s.name \in N BY <3>2, <3>5
    <3>7. \A b \in A : b \notin under
      <4> SUFFICES ASSUME NEW b \in A, b.iface = r.id PROVE FALSE OBVIOUS
      <4>1. PICK s \in I : s.id = b.iface /\ s.name \in N BY <3>6
      <4>2. s = r BY <2>3, <4>1 DEF OnDevice
      <4> QED BY <3>3, <4>1, <4>2
    <3>8. OnDevice(x.dev)' = J /\ AddrsOf(x.dev)' = A
      <4>1. A \ under = A BY ONLY <3>7
      <4> QED BY <2>4, <4>1
    <3>9. \A b \in A : b.id \in y.kept => b.cidr \in P /\ \E s \in J : s.id = b.iface /\ s.name \in N
      BY <3>3, <3>6
    <3>10. /\ y.dev = x.dev /\ y.cur \subseteq J /\ \A s \in J : s \in y.cur \/ s.name \in N
      BY <2>6, <3>2
    <3>11. N \subseteq {s.name : s \in J} BY <3>2, <3>3
    <3>12. /\ RowIds(y.old) \subseteq RowIds(A) /\ \A o \in y.old : o.id \notin y.kept => o \in A
           /\ \A c \in P : \E b \in A : b.id \in y.kept /\ b.cidr = c
           /\ \A b \in A : b.id \in y.kept \cup RowIds(y.old)
           /\ y.p4 = None <=> \A c \in P : ~is_ipv4_cidr(c)
           /\ y.p6 = None <=> \A c \in P : is_ipv4_cidr(c)
      BY <2>6, <3>2
    <3>13. Reconciled(y, N, P)' BY ONLY <3>8, <3>9, <3>10, <3>11, <3>12 DEF Reconciled
    <3> PICK ifs, K, D : ifs = x.obs.ifs /\ K = x.kept /\ D = DonePlaces(x) OBVIOUS
    <3>14. SeatedIn(ifs, K, I, A, D) BY <2>2, <2>10 DEF Seated
    <3>15. \A b \in A : b.id \in K => \A s \in I : s.id = b.iface => s \in J BY <3>7 DEF AddrsOf
    <3>16. SeatedIn(ifs, K, J, A, D) BY ONLY <3>14, <3>15, SeatedStays
    <3>17. SeatedIn(x.obs.ifs, y.kept, OnDevice(x.dev), AddrsOf(x.dev), DonePlaces(x))'
      BY <2>6, <3>8, <3>16
    <3> QED BY <3>13, <3>17
  <2>11. Continues(x, y) /\ Sound(y)'
    BY <1>1, <2>4, <2>6, <2>8, <2>9, <2>10, DeleteSound
  <2> QED BY <2>1, <2>2, <2>5, <2>11, AnsweredStep
<1> QED BY <1>3, <1>4

(* The prefixes that are done, past the loop, are those the snapshot wants. *)
LEMMA AllWanted ==
  ASSUME NEW x, x.st # "ensure", NEW ifs, ifs = x.obs.ifs
  PROVE  DonePrefixes(x) = PrefixesIn(ifs)
<1> PICK ips : ips = UNION {ToSet(ifs[k].ips) : k \in DOMAIN ifs} OBVIOUS
<1>1. \A ip : ip \in ips <=> \E k \in DOMAIN ifs : \E l \in DOMAIN ifs[k].ips : ip = ifs[k].ips[l]
  BY DEF ToSet
<1>2. ASSUME NEW ip, NEW c PROVE c \in ToSet(to_cidr(ip)) <=> c \in HostPrefixes /\ to_cidr(ip) = <<c>>
  <2>1. CASE to_cidr(ip) = <<>>
    <3>1. ToSet(<<>>) = {} BY DEF ToSet
    <3> QED BY <2>1, <3>1
  <2>2. CASE \E e \in HostPrefixes : to_cidr(ip) = <<e>>
    <3>1. PICK e \in HostPrefixes : to_cidr(ip) = <<e>> BY <2>2
    <3>2. ToSet(<<e>>) = {e} BY DEF ToSet
    <3>3. <<e>> = <<c>> <=> e = c OBVIOUS
    <3> QED BY <3>1, <3>2, <3>3
  <2> QED BY <2>1, <2>2, CidrOf
<1>3. ASSUME NEW c PROVE c \in DonePrefixes(x) <=> \E ip \in ips : c \in ToSet(to_cidr(ip))
  <2>1. c \in DonePrefixes(x) <=>
          c \in HostPrefixes /\ \E k \in DOMAIN ifs : \E l \in DOMAIN ifs[k].ips : to_cidr(ifs[k].ips[l]) = <<c>>
    BY DEF DonePrefixes, Behind
  <2> QED BY ONLY <1>1, <1>2, <2>1
<1> QED BY <1>3 DEF PrefixesIn

(* So are the places. *)
LEMMA AllPlaces ==
  ASSUME NEW x, x.st # "ensure", NEW ifs, ifs = x.obs.ifs
  PROVE  DonePlaces(x) = PlacesIn(ifs)
<1>1. ASSUME NEW p
      PROVE  p \in DonePlaces(x) <=>
               /\ p \in NamesIn(ifs) \X HostPrefixes
               /\ \E k \in DOMAIN ifs : \E l \in DOMAIN ifs[k].ips :
                    ifs[k].name = p[1] /\ to_cidr(ifs[k].ips[l]) = <<p[2]>>
  BY DEF DonePlaces, Behind
<1>2. PrefixesIn(ifs) = DonePrefixes(x) BY AllWanted
<1>3. \A c : c \in PrefixesIn(ifs) <=>
        /\ c \in HostPrefixes
        /\ \E k \in DOMAIN ifs : \E l \in DOMAIN ifs[k].ips : to_cidr(ifs[k].ips[l]) = <<c>>
  BY <1>2 DEF DonePrefixes, Behind
<1>4. ASSUME NEW p
      PROVE  p \in PlacesIn(ifs) <=>
               /\ p \in NamesIn(ifs) \X PrefixesIn(ifs)
               /\ \E k \in DOMAIN ifs : \E l \in DOMAIN ifs[k].ips :
                    ifs[k].name = p[1] /\ to_cidr(ifs[k].ips[l]) = <<p[2]>>
  BY DEF PlacesIn
<1>5. ASSUME NEW p,
             \E k \in DOMAIN ifs : \E l \in DOMAIN ifs[k].ips :
               ifs[k].name = p[1] /\ to_cidr(ifs[k].ips[l]) = <<p[2]>>
      PROVE  p \in NamesIn(ifs) \X PrefixesIn(ifs) <=> p \in NamesIn(ifs) \X HostPrefixes
  <2>1. p[2] \in PrefixesIn(ifs) <=> p[2] \in HostPrefixes BY <1>3, <1>5
  <2> QED BY ONLY <2>1
<1> QED BY ONLY <1>1, <1>4, <1>5

(* A prefix that is not shared is on one interface. *)
LEMMA NotShared ==
  ASSUME NEW ifs, NEW net, OfNetwork(ifs, net), NEW q \in PlacesIn(ifs), q[2] \notin Shared(ifs)
  PROVE  OnOne(ifs, q[2])
<1> PICK c : c = q[2] OBVIOUS
<1>1. c \in PrefixesIn(ifs) BY DEF PlacesIn
<1>2. ASSUME NEW k \in DOMAIN ifs, NEW m \in DOMAIN ifs, NEW l \in DOMAIN ifs[k].ips, NEW n \in DOMAIN ifs[m].ips,
             to_cidr(ifs[k].ips[l]) = <<c>>, to_cidr(ifs[m].ips[n]) = <<c>>
      PROVE  k = m
  <2> PICK u, v : u = <<ifs[k].name, c>> /\ v = <<ifs[m].name, c>> OBVIOUS
  <2>1. ifs[k].name \in NamesIn(ifs) /\ ifs[m].name \in NamesIn(ifs) BY DEF NamesIn
  <2>2. u \in PlacesIn(ifs)
    <3>1. u \in NamesIn(ifs) \X PrefixesIn(ifs) /\ u[1] = ifs[k].name /\ u[2] = c BY <1>1, <2>1
    <3> QED BY <1>2, <3>1 DEF PlacesIn
  <2>3. v \in PlacesIn(ifs)
    <3>1. v \in NamesIn(ifs) \X PrefixesIn(ifs) /\ v[1] = ifs[m].name /\ v[2] = c BY <1>1, <2>1
    <3> QED BY <1>2, <3>1 DEF PlacesIn
  <2>4. u[2] = c /\ v[2] = c /\ c \notin Shared(ifs) OBVIOUS
  <2>5. u = v BY ONLY <1>1, <2>2, <2>3, <2>4 DEF Shared
  <2>6. ifs[k].name = ifs[m].name BY <2>5
  <2> QED BY <2>6 DEF OfNetwork
<1> QED BY <1>2 DEF OnOne

(* The places that NetBox has. *)
LEMMA PlaceOn ==
  ASSUME NEW d, NEW p
  PROVE  p \in PlacesOf(d) <=>
           \E r \in OnDevice(d) : \E a \in AddrsOf(d) : a.iface = r.id /\ p = <<r.name, a.cidr>>
<1> PICK I, A : I = OnDevice(d) /\ A = AddrsOf(d) OBVIOUS
<1> PICK S : S = {u \in [iface : I, addr : A] : u.addr.iface = u.iface.id} OBVIOUS
<1>1. p \in PlacesOf(d) <=> \E s \in S : p = <<s.iface.name, s.addr.cidr>> BY DEF PlacesOf
<1>2. ASSUME NEW s \in S, p = <<s.iface.name, s.addr.cidr>>
      PROVE  \E r \in I : \E a \in A : a.iface = r.id /\ p = <<r.name, a.cidr>>
  BY <1>2
<1>3. ASSUME NEW r \in I, NEW a \in A, a.iface = r.id, p = <<r.name, a.cidr>>
      PROVE  \E s \in S : p = <<s.iface.name, s.addr.cidr>>
  <2> PICK s : s = [iface |-> r, addr |-> a] OBVIOUS
  <2>1. s \in [iface : I, addr : A] /\ s.iface = r /\ s.addr = a OBVIOUS
  <2>2. s \in S BY <1>3, <2>1
  <2> QED BY <1>3, <2>1, <2>2
<1> QED BY <1>1, <1>2, <1>3

(* Alone on its device and with nothing stale left, a task has made the device show
   its snapshot. *)
LEMMA ShowsSnapshot ==
  ASSUME NetInv, NEW t \in Slots, NEW x, x = task[t], x.st = "delete", x.dev \notin contested,
         StaleIps(t) = {}, StaleInterfaces(t) = {}, NEW obs, obs.serial = x.obs.serial, obs.ifs = x.obs.ifs
  PROVE  Shows(x.host, obs)
<1>1. /\ Matched(x) /\ Undisturbed(x) /\ AtWork(x) /\ Reconciled(x, DoneNames(x), DonePrefixes(x))
      /\ TaskGood(x) /\ Seated(x)
  BY AfterTheLoop
<1> PICK N, P, ifs, d : N = DoneNames(x) /\ P = DonePrefixes(x) /\ ifs = x.obs.ifs /\ d = x.dev OBVIOUS
<1>2. N = NamesIn(ifs) BY NamesObserved DEF NamesIn
<1>3. P = PrefixesIn(ifs) BY AllWanted
<1>4. \A r \in x.cur : r.name \in N BY <1>2 DEF StaleInterfaces, NamesIn
<1>5. \A o \in x.old : o.id \in x.kept BY DEF StaleIps
<1>6. RowIds(x.old) \subseteq x.kept BY ONLY <1>5 DEF RowIds
<1>7. {r.name : r \in OnDevice(d)} = N BY <1>1, <1>4 DEF Reconciled
<1>8. {a.cidr : a \in AddrsOf(d)} = P BY <1>1, <1>6 DEF Reconciled
<1>9. dev[d].claim = x.host /\ dev[d].p4 = x.p4 /\ dev[d].p6 = x.p6 BY <1>1 DEF Undisturbed
<1>10. /\ dev[d].p4 = None <=> \A c \in P : ~is_ipv4_cidr(c)
       /\ dev[d].p6 = None <=> \A c \in P : is_ipv4_cidr(c)
  BY <1>1, <1>9 DEF Reconciled
<1>11. \A e \in Devices : SerialOf[e] = obs.serial => e = d BY <1>1 DEF Matched
<1> PICK L, I, A : L = DonePlaces(x) /\ I = OnDevice(d) /\ A = AddrsOf(d) OBVIOUS
<1>12. L = PlacesIn(ifs) BY AllPlaces
<1>13. SeatedIn(ifs, x.kept, I, A, L) BY <1>1 DEF Seated
<1>14. \A b \in A : b.id \in x.kept BY <1>1, <1>6 DEF Reconciled
<1>15. ASSUME NEW p \in PlacesOf(d) PROVE p \in L
  <2>1. PICK r \in I, b \in A : b.iface = r.id /\ p = <<r.name, b.cidr>> BY <1>15, PlaceOn
  <2>2. PICK s \in I : s.id = b.iface /\ <<s.name, b.cidr>> \in L BY <1>13, <1>14 DEF SeatedIn
  <2>3. \A v, w \in ifaces : v.id = w.id => v = w BY DEF NetInv, RowInv
  <2>4. s = r BY <2>1, <2>2, <2>3 DEF OnDevice
  <2> QED BY <2>1, <2>2, <2>4
<1>16. ASSUME NEW p \in L, p[2] \notin Shared(ifs) PROVE p \in PlacesOf(d)
  <2>1. PICK net \in UNION {Networks[h] : h \in Hosts} : OfNetwork(ifs, net) BY <1>1, TaskNetwork
  <2>2. p \in PlacesIn(ifs) BY <1>12
  <2>3. OnOne(ifs, p[2]) BY ONLY <1>16, <2>1, <2>2, NotShared
  <2>4. PICK b \in A, r \in I : r.id = b.iface /\ p = <<r.name, b.cidr>> BY <1>13, <2>3 DEF SeatedIn
  <2> QED BY <2>4, PlaceOn
<1>17. /\ PlacesOf(d) \subseteq PlacesIn(ifs)
       /\ \A p \in PlacesIn(ifs) \ PlacesOf(d) : p[2] \in Shared(ifs)
  BY ONLY <1>12, <1>15, <1>16
<1> QED BY <1>2, <1>3, <1>7, <1>8, <1>9, <1>10, <1>11, <1>17 DEF Shows

(* The snapshot's hash is remembered. *)
LEMMA MarksSynced ==
  ASSUME NetInv, NEW t \in Slots, mark_synced(t)
  PROVE  NetInv'
<1> PICK x, y, q : x = task[t] /\ y = Idle /\ q = Hash(t) OBVIOUS
<1>1. /\ x.st = "delete" /\ StaleIps(t) = {} /\ StaleInterfaces(t) = {}
      /\ synced' = [synced EXCEPT ![x.host] = {q}] /\ torn' = torn \ {x.host}
      /\ UNCHANGED <<dev, ifaces, addrs, lastId, contested>>
      /\ task' = [task EXCEPT ![t] = y]
  BY DEF mark_synced, Become
<1>2. Sound(y)' /\ Continues(x, y) BY EndedSound
<1>3. q[1] = x.obs.serial /\ q[3] = x.obs.ifs BY DEF Hash, content_hash
<1>4. SyncInv'
  <2> SUFFICES ASSUME NEW h \in Hosts, NEW p \in synced'[h], h \notin torn',
                      \A d \in contested : SerialOf[d] # p[1]
               PROVE  Shows(h, [serial |-> p[1], ifs |-> p[3]])'
    BY <1>1 DEF NetInv, SyncInv
  <2> PICK obs : obs = [serial |-> p[1], ifs |-> p[3]] OBVIOUS
  <2>1. obs.serial = p[1] /\ obs.ifs = p[3] OBVIOUS
  <2>2. Shows(h, obs)
    <3>1. CASE h # x.host
      <4>1. p \in synced[h] /\ h \notin torn BY <1>1, <3>1
      <4> QED BY <4>1 DEF NetInv, SyncInv
    <3>2. CASE h = x.host /\ h \in DOMAIN synced
      <4>1. p = q BY <1>1, <3>2
      <4>2. Matched(x) BY <1>1, AfterTheLoop
      <4>3. x.dev \notin contested BY <1>3, <4>1, <4>2 DEF Matched
      <4>4. obs.serial = x.obs.serial /\ obs.ifs = x.obs.ifs BY <1>3, <2>1, <4>1
      <4> QED BY <1>1, <3>2, <4>3, <4>4, ShowsSnapshot
    <3>3. h \in DOMAIN synced BY DEF NetInv, SyncInv
    <3> QED BY <3>1, <3>2, <3>3
  <2>3. Shows(h, obs)' BY <1>1, <2>2, StillShows
  <2> QED BY <2>3
<1> QED BY <1>1, <1>2, <1>4, InnerStep

-----------------------------------------------------------------------------
(* The start of an upsert.                                                     *)

(* A snapshot waits for its host's lock. *)
LEMMA Arrives ==
  ASSUME NetInv, NEW h \in Hosts, Arrive(h)
  PROVE  NetInv'
<1>1. PICK t \in Slots, hw \in Hardware[h], net \in Networks[h] :
        /\ ~SkippedNoSerial(collect(hw, net))
        /\ Become(t, [st |-> "wait", host |-> h, obs |-> collect(hw, net)])
  BY DEF Arrive
<1> PICK obs : obs = collect(hw, net) OBVIOUS
<1> PICK y : y = [st |-> "wait", host |-> h, obs |-> obs] OBVIOUS
<1>2. y.st = "wait" /\ y.host = h /\ y.obs = obs OBVIOUS
<1>3. obs.serial # NoSerial /\ task' = [task EXCEPT ![t] = y] BY <1>1 DEF SkippedNoSerial, Become
<1>4. Snapshot(h, obs) BY DEF Snapshot
<1>5. ~AtWork(y) /\ TaskGood(y) /\ Continues(task[t], y)
  BY <1>2, <1>3, <1>4 DEF AtWork, Active, TaskGood, Stages, Continues
<1>6. Sound(y)' BY <1>5, OffWork
<1>7. UNCHANGED <<dev, ifaces, addrs, lastId, contested, synced, torn>> BY DEF Arrive
<1> QED BY <1>3, <1>5, <1>6, <1>7, QuietStep

(* A step that only starts something on a device, and takes note of a race for it. *)
LEMMA StartStep ==
  ASSUME NetInv, NEW t \in Slots, NEW y, task' = [task EXCEPT ![t] = y],
         UNCHANGED <<dev, ifaces, addrs, lastId, synced, torn>>, contested \subseteq contested',
         Sound(y)', \A u \in Slots \ {t} : \A z : z = task[u] => Apart(z, y)' /\ Apart(y, z)'
  PROVE  NetInv'
<1>1. \A d \in Devices : OnDevice(d)' = OnDevice(d) /\ AddrsOf(d)' = AddrsOf(d) BY DEF OnDevice, AddrsOf
<1>2. RowInv' BY DEF NetInv, RowInv
<1>3. PrimaryInv' BY <1>1 DEF NetInv, PrimaryInv
<1>4. \A d \in Devices : NoneDoubled(d)' BY <1>1 DEF NetInv, NoneDoubled
<1>5. SyncInv' BY QuietSync DEF NetInv
<1>6. ASSUME NEW x, Sound(x) PROVE Sound(x)' BY <1>6, SoundStays
<1>7. OthersSound(t) BY <1>6 DEF NetInv, OthersSound, Sound
<1>8. DOMAIN dev' = Devices BY DEF NetInv
<1> QED BY <1>2, <1>3, <1>4, <1>5, <1>7, <1>8, TaskStep

(* With the host's lock, the first attempt. *)
LEMMA Dedups ==
  ASSUME NetInv, NEW t \in Slots, Dedup(t)
  PROVE  NetInv'
<1> PICK x : x = task[t] OBVIOUS
<1>1. x.st = "wait" /\ UNCHANGED <<dev, ifaces, addrs, lastId, contested, synced, torn>> BY DEF Dedup
<1>2. CASE already_synced(x.host, Hash(t))
  <2>1. Become(t, Idle) BY <1>2 DEF Dedup
  <2> QED BY <1>1, <2>1, RefusedStep
<1>3. CASE ~already_synced(x.host, Hash(t))
  <2> PICK y : y = Attempt(x.host, x.obs, 0) OBVIOUS
  <2>1. task' = [task EXCEPT ![t] = y] BY <1>3 DEF Dedup, Become
  <2>2. x.host \in Hosts /\ x.obs.serial # NoSerial /\ Snapshot(x.host, x.obs)
    BY <1>1 DEF NetInv, TaskGood
  <2>3. TaskGood(y) /\ ~AtWork(y) /\ y.host = x.host BY <2>2, AttemptGood
  <2>4. Sound(y)' BY <2>3, OffWork
  <2>5. ASSUME NEW u \in Slots \ {t}, NEW z, z = task[u] PROVE Apart(z, y)' /\ Apart(y, z)'
    <3>1. Active(z) => z.host # x.host BY <2>5 DEF Dedup, LockFree, Holds, Active
    <3> QED BY <2>3, <3>1 DEF Apart
  <2> QED BY <1>1, <2>1, <2>4, <2>5, StartStep
<1> QED BY <1>2, <1>3

(* A lone match by serial is the one device with the serial. *)
LEMMA LoneMatch ==
  ASSUME NEW s \in DOMAIN Filter, NEW found, found = match_by_serial(s),
         Cardinality(found) = 1, NEW d \in found
  PROVE  d \in Devices /\ SerialOf[d] = s /\ \A e \in Devices \ {d} : SerialOf[e] # s
<1> PICK F : F = Filter[s] OBVIOUS
<1>1. /\ F \subseteq Devices /\ IsFiniteSet(F)
      /\ \A e \in Devices : SerialOf[e] = s => e \in F
  BY NetboxAssumption
<1>2. found = F /\ ~(Cardinality(F) = 1 /\ \A e \in F : SerialOf[e] # s) BY DEF match_by_serial
<1>3. F = {d}
  <2>1. PICK e : F = {e} BY <1>1, <1>2, FS_Singleton
  <2> QED BY <1>2, <2>1
<1>4. PICK e \in F : SerialOf[e] = s BY <1>2
<1> QED BY <1>1, <1>3, <1>4

(* The device is found. *)
LEMMA Matches ==
  ASSUME NetInv, NEW t \in Slots, Match(t)
  PROVE  NetInv'
<1> PICK x : x = task[t] OBVIOUS
<1> PICK found : found = match_by_serial(x.obs.serial) OBVIOUS
<1> PICK mine : mine = Mine(t) OBVIOUS
<1>1. x.st = "match" /\ UNCHANGED <<dev, ifaces, addrs, lastId, synced, torn>> BY DEF Match
<1>2. contested' = contested \cup Raced(t) BY DEF Match
<1>3. /\ TaskGood(x) /\ DOMAIN x = Fields /\ x.host \in Hosts /\ x.obs.serial # NoSerial
      /\ Snapshot(x.host, x.obs) /\ Blank(x) /\ Active(x)
  BY <1>1 DEF NetInv, TaskGood, Active
<1>4. CASE mine = {}
  <2>1. Become(t, Idle) BY <1>4 DEF Match
  <2>2. contested' = contested BY <1>2, <1>4 DEF Raced
  <2> QED BY <1>1, <2>1, <2>2, RefusedStep
<1>5. CASE mine # {}
  <2>1. PICK d \in mine : Become(t, [x EXCEPT !.st = "interfaces", !.dev = d]) BY <1>5 DEF Match
  <2> PICK y : y = [x EXCEPT !.st = "interfaces", !.dev = d] OBVIOUS
  <2>2. task' = [task EXCEPT ![t] = y] BY <2>1 DEF Become
  <2>3. /\ DOMAIN y = Fields /\ y.st = "interfaces" /\ y.dev = d /\ y.host = x.host /\ y.obs = x.obs
        /\ y.i = x.i /\ y.j = x.j /\ y.old = x.old /\ y.ifid = x.ifid /\ y.kept = x.kept
        /\ y.p4 = x.p4 /\ y.p6 = x.p6 /\ y.cur = x.cur
    BY <1>3 DEF Fields
  <2>4. x.obs.serial \in DOMAIN Filter BY <1>3, OwnSerial
  <2>5. d \in found /\ Cardinality(found) = 1 /\ dev[d].claim \in {NoHost, x.host}
    BY DEF Mine, HostCollision
  <2>6. /\ d \in Devices /\ SerialOf[d] = x.obs.serial
        /\ \A e \in Devices \ {d} : SerialOf[e] # x.obs.serial
    BY <2>4, <2>5, LoneMatch
  <2>7. Blank(y) /\ y.cur = {} BY <1>1, <1>3, <2>3 DEF Blank
  <2>8. RowsKnown(y) BY <2>7 DEF Blank, RowsKnown
  <2>9. TaskGood(y) BY <1>3, <2>3, <2>6, <2>7, <2>8 DEF TaskGood, Stages, Matched
  <2>10. Undisturbed(y) BY <2>3, <2>5 DEF Undisturbed
  <2>11. AllKnown(y) BY <2>3 DEF AllKnown
  <2>12. Sound(y) BY <2>9, <2>10, <2>11 DEF Sound
  <2>13. contested \subseteq contested' BY <1>2
  <2>14. Sound(y)' BY <1>1, <2>12, <2>13, SoundStays
  <2>15. ASSUME NEW u \in Slots \ {t}, NEW z, z = task[u] PROVE Apart(z, y)' /\ Apart(y, z)'
    <3>1. Apart(x, z) /\ Apart(z, x) BY <2>15 DEF NetInv
    <3>2. Active(z) => z.host # x.host BY <1>3, <3>1 DEF Apart
    <3>3. AtWork(z) /\ z.dev = d => d \in contested'
      <4> SUFFICES ASSUME AtWork(z), z.dev = d PROVE d \in Raced(t) BY <1>2
      <4>1. z.host # x.host BY <3>2 DEF AtWork, Active
      <4>2. Reconciling(u) BY <2>15 DEF AtWork, Reconciling
      <4> QED BY <2>1, <2>15, <4>1, <4>2 DEF Raced
    <3> QED BY <2>3, <3>2, <3>3 DEF Apart
  <2> QED BY <1>1, <2>2, <2>13, <2>14, <2>15, StartStep
<1> QED BY <1>4, <1>5

(* A row of the device, and an address under it, are known to be its own. *)
LEMMA OwnRows ==
  ASSUME NetInv, NEW d
  PROVE  /\ \A r \in OnDevice(d) :
              r.id \in 1..lastId /\ r.dev = d /\ \A s \in ifaces : s.id = r.id => s = r
         /\ \A a \in AddrsOf(d) :
              /\ DOMAIN a = RowFields /\ a.id \in 1..lastId /\ AddrOn(a.id, d)
              /\ \A b \in addrs : b.id = a.id => b.cidr = a.cidr
<1>1. \A r \in OnDevice(d) : r.id \in 1..lastId /\ r.dev = d /\ \A s \in ifaces : s.id = r.id => s = r
  BY DEF NetInv, RowInv, OnDevice
<1>2. ASSUME NEW a \in AddrsOf(d)
      PROVE  /\ DOMAIN a = RowFields /\ a.id \in 1..lastId /\ AddrOn(a.id, d)
             /\ \A b \in addrs : b.id = a.id => b.cidr = a.cidr
  <2>1. a \in addrs BY DEF AddrsOf
  <2>2. \A b \in addrs : b.id = a.id => b = a BY <2>1 DEF NetInv, RowInv
  <2>3. IfaceOn(a.iface, d)
    <3>1. PICK r \in OnDevice(d) : r.id = a.iface BY DEF AddrsOf
    <3> QED BY <1>1, <3>1 DEF IfaceOn
  <2>4. DOMAIN a = RowFields /\ a.id \in 1..lastId BY <2>1 DEF NetInv, RowInv
  <2> QED BY <2>2, <2>3, <2>4 DEF AddrOn
<1> QED BY <1>1, <1>2

(* What the invariant says of a task that reads. *)
LEMMA AtTheReads ==
  ASSUME NetInv, NEW t \in Slots, NEW x, x = task[t], x.st \in {"interfaces", "addresses"}
  PROVE  /\ TaskGood(x) /\ AtWork(x) /\ Active(x) /\ DOMAIN x = Fields /\ Matched(x) /\ RowsKnown(x)
         /\ Blank(x) /\ x.host \in Hosts /\ x.obs.serial # NoSerial /\ Snapshot(x.host, x.obs)
         /\ Undisturbed(x) /\ AllKnown(x)
BY DEF NetInv, TaskGood, AtWork, Active

(* The interfaces are listed. *)
LEMMA ReadsInterfaces ==
  ASSUME NetInv, NEW t \in Slots, ReadInterfaces(t)
  PROVE  NetInv'
<1> PICK x : x = task[t] OBVIOUS
<1> PICK I : I = OnDevice(x.dev) OBVIOUS
<1> PICK y : y = [x EXCEPT !.st = "addresses", !.cur = I] OBVIOUS
<1>1. x.st = "interfaces" /\ UNCHANGED <<dev, ifaces, addrs, lastId, contested, synced, torn>>
  BY DEF ReadInterfaces
<1>2. task' = [task EXCEPT ![t] = y] BY DEF ReadInterfaces, Become
<1>3. /\ AtWork(x) /\ Active(x) /\ DOMAIN x = Fields /\ Matched(x) /\ RowsKnown(x) /\ Blank(x)
      /\ x.host \in Hosts /\ x.obs.serial # NoSerial /\ Snapshot(x.host, x.obs) /\ Undisturbed(x)
  BY <1>1, AtTheReads
<1>4. /\ DOMAIN y = Fields /\ y.st = "addresses" /\ y.dev = x.dev /\ y.host = x.host /\ y.obs = x.obs
      /\ y.i = x.i /\ y.j = x.j /\ y.old = x.old /\ y.ifid = x.ifid /\ y.kept = x.kept
      /\ y.p4 = x.p4 /\ y.p6 = x.p6 /\ y.cur = I
  BY <1>3 DEF Fields
<1>5. Blank(y) BY <1>3, <1>4 DEF Blank
<1>6. RowsKnown(y)
  <2>1. \A r \in I : r.id \in 1..lastId /\ r.dev = x.dev /\ \A s \in ifaces : s.id = r.id => s = r
    BY OwnRows
  <2> QED BY <1>4, <1>5, <2>1 DEF RowsKnown, Blank
<1>7. TaskGood(y) BY <1>3, <1>4, <1>5, <1>6 DEF TaskGood, Stages, Matched
<1>8. Undisturbed(y) BY <1>3, <1>4 DEF Undisturbed
<1>9. AllKnown(y) BY <1>4 DEF AllKnown
<1>10. Continues(x, y) BY <1>3, <1>4 DEF Continues
<1>11. Sound(y) BY <1>7, <1>8, <1>9 DEF Sound
<1>12. Sound(y)' BY <1>1, <1>11, SoundStays
<1> QED BY <1>1, <1>2, <1>10, <1>12, QuietStep

(* Nothing is behind when the loop starts, or has nothing to do. *)
LEMMA NothingDone ==
  ASSUME NEW y, NEW net, OfNetwork(y.obs.ifs, net), y.i = 1, y.j = 0, y.st = "ensure" \/ y.obs.ifs = <<>>
  PROVE  DoneNames(y) = {} /\ DonePrefixes(y) = {} /\ DonePlaces(y) = {}
<1> PICK ifs, n : ifs = y.obs.ifs /\ n = Len(ifs) OBVIOUS
<1>1. /\ n \in Nat /\ DOMAIN ifs = 1..n /\ (ifs = <<>> <=> n = 0)
      /\ \A k \in 1..n : Len(ifs[k].ips) \in Nat /\ DOMAIN ifs[k].ips = 1..Len(ifs[k].ips)
  BY DEF OfNetwork
<1>2. CASE ifs = <<>>
  <2>1. DOMAIN ifs = {} BY <1>1, <1>2
  <2> QED BY <2>1 DEF DoneNames, DonePrefixes, DonePlaces
<1>3. CASE y.st = "ensure"
  <2>1. \A k \in 1..n : \A l \in Nat : ~Behind(y, k, l) BY <1>1, <1>3 DEF Behind
  <2>2. \A k \in 1..n : ~Behind(y, k, 0) BY <2>1
  <2>3. DoneNames(y) = {} BY <1>1, <2>2 DEF DoneNames
  <2>4. \A k \in DOMAIN ifs : \A l \in DOMAIN ifs[k].ips : l \in Nat BY <1>1
  <2>5. \A k \in DOMAIN ifs : \A l \in DOMAIN ifs[k].ips : ~Behind(y, k, l) BY <1>1, <2>1, <2>4
  <2>6. DonePrefixes(y) = {} BY <2>5 DEF DonePrefixes
  <2>7. DonePlaces(y) = {} BY <2>5 DEF DonePlaces
  <2> QED BY <2>3, <2>6, <2>7
<1> QED BY <1>2, <1>3

(* The addresses are listed. *)
LEMMA ReadsAddresses ==
  ASSUME NetInv, NEW t \in Slots, ReadAddresses(t)
  PROVE  NetInv'
<1> PICK x : x = task[t] OBVIOUS
<1> PICK st : st = IF x.obs.ifs = <<>> THEN "finalize" ELSE "ensure" OBVIOUS
<1> PICK A : A = AddrsOf(x.dev) OBVIOUS
<1> PICK old : old = {a \in A : a.iface \in RowIds(x.cur)} OBVIOUS
<1> PICK y : y = [x EXCEPT !.st = st, !.old = old] OBVIOUS
<1>1. x.st = "addresses" /\ UNCHANGED <<dev, ifaces, addrs, lastId, contested, synced, torn>>
  BY DEF ReadAddresses
<1>2. task' = [task EXCEPT ![t] = y] BY DEF ReadAddresses, Become
<1>3. /\ TaskGood(x) /\ AtWork(x) /\ Active(x) /\ DOMAIN x = Fields /\ Matched(x) /\ RowsKnown(x)
      /\ Blank(x) /\ x.host \in Hosts /\ x.obs.serial # NoSerial /\ Snapshot(x.host, x.obs)
      /\ Undisturbed(x) /\ AllKnown(x)
  BY <1>1, AtTheReads
<1>4. /\ DOMAIN y = Fields /\ y.st = st /\ y.dev = x.dev /\ y.host = x.host /\ y.obs = x.obs
      /\ y.i = 1 /\ y.j = 0 /\ y.old = old /\ y.ifid = None /\ y.kept = {}
      /\ y.p4 = None /\ y.p6 = None /\ y.cur = x.cur
  BY <1>3 DEF Fields, Blank
<1>5. st = "ensure" \/ (st = "finalize" /\ y.obs.ifs = <<>>) BY <1>4
<1>6. PICK net \in UNION {Networks[h] : h \in Hosts} : OfNetwork(x.obs.ifs, net) BY <1>1, <1>3, TaskNetwork
<1>7. y.st = "ensure" => InLoop(y)
  <2> SUFFICES ASSUME st = "ensure" PROVE InLoop(y) BY <1>4
  <2> PICK ifs, n : ifs = x.obs.ifs /\ n = Len(ifs) OBVIOUS
  <2>1. n \in Nat /\ DOMAIN ifs = 1..n /\ (ifs = <<>> <=> n = 0) /\ \A k \in DOMAIN ifs : Len(ifs[k].ips) \in Nat
    BY <1>6 DEF OfNetwork
  <2>2. n # 0 BY <2>1
  <2>3. 1 \in 1..n BY <2>1, <2>2
  <2> PICK m : m = Len(ifs[1].ips) OBVIOUS
  <2>4. m \in Nat BY <2>1, <2>3
  <2>5. 0 \in 0..m BY <2>4
  <2> QED BY <1>4, <2>3, <2>5 DEF InLoop
<1>8. RowsKnown(y)
  <2>1. \A a \in A : /\ DOMAIN a = RowFields /\ a.id \in 1..lastId /\ AddrOn(a.id, x.dev)
                     /\ \A b \in addrs : b.id = a.id => b.cidr = a.cidr
    BY OwnRows
  <2> QED BY <1>3, <1>4, <2>1 DEF RowsKnown
<1>9. TaskGood(y) BY <1>3, <1>4, <1>5, <1>7, <1>8 DEF TaskGood, Stages, Matched
<1>10. Undisturbed(y) BY <1>3, <1>4, <1>5 DEF Undisturbed
<1>11. AllKnown(y)
  <2>1. DoneNames(y) = {} /\ DonePrefixes(y) = {} /\ DonePlaces(y) = {} BY <1>4, <1>5, <1>6, NothingDone
  <2>2. ASSUME x.dev \notin contested PROVE Reconciled(y, {}, {})
    <3>1. x.cur = OnDevice(x.dev) BY <1>1, <1>3, <2>2 DEF AllKnown
    <3>2. \A a \in A : a.iface \in RowIds(x.cur) BY <3>1 DEF AddrsOf, RowIds
    <3>3. old = A BY <3>2
    <3>4. \A b \in A : b.id \in RowIds(A) BY DEF RowIds
    <3> QED BY <1>4, <3>1, <3>3, <3>4 DEF Reconciled
  <2>3. y.st # "addresses" /\ ~(y.j > 0) BY <1>4, <1>5
  <2>4. x.dev \notin contested => Reconciled(y, DoneNames(y), DonePrefixes(y)) BY <2>1, <2>2
  <2>5. Seated(y) BY <1>4, <2>1 DEF Seated, SeatedIn
  <2> QED BY <1>4, <2>3, <2>4, <2>5 DEF AllKnown
<1>12. Continues(x, y) BY <1>3, <1>4 DEF Continues
<1>13. Sound(y) BY <1>9, <1>10, <1>11 DEF Sound
<1>14. Sound(y)' BY <1>1, <1>13, SoundStays
<1> QED BY <1>1, <1>2, <1>12, <1>14, QuietStep

(* A call fails, or is refused for good. *)
LEMMA FailsCall ==
  ASSUME NetInv, NEW t \in Slots, CallFails(t) \/ CallRejected(t)
  PROVE  NetInv'
<1>1. UNCHANGED <<dev, ifaces, addrs, lastId, contested, synced, torn>> BY DEF CallFails, CallRejected
<1>2. CASE CallFails(t)
  <2> PICK y : y = Retried(t) OBVIOUS
  <2>1. task' = [task EXCEPT ![t] = y] /\ Active(task[t])
    BY <1>2 DEF CallFails, Become, Calling, Reconciling, Active
  <2>2. Sound(y)' /\ Continues(task[t], y) BY <2>1, RetriedGood
  <2> QED BY <1>1, <2>1, <2>2, QuietStep
<1>3. CASE CallRejected(t)
  <2>1. Become(t, Idle) BY <1>3 DEF CallRejected
  <2> QED BY <1>1, <2>1, RefusedStep
<1> QED BY <1>2, <1>3

(* The coordinator restarts. *)
LEMMA Restarts ==
  ASSUME NetInv, Restart
  PROVE  NetInv'
<1>1. /\ task' = [t \in Slots |-> Idle] /\ synced' = [h \in Hosts |-> {}]
      /\ UNCHANGED <<dev, ifaces, addrs, lastId, contested>>
  BY DEF Restart
<1>2. \A d \in Devices : OnDevice(d)' = OnDevice(d) /\ AddrsOf(d)' = AddrsOf(d) BY <1>1 DEF OnDevice, AddrsOf
<1>3. RowInv' BY <1>1 DEF NetInv, RowInv
<1>4. PrimaryInv' BY <1>1, <1>2 DEF NetInv, PrimaryInv
<1>5. SyncInv' BY <1>1 DEF SyncInv
<1>6. \A d \in Devices : NoneDoubled(d)' BY <1>1, <1>2 DEF NetInv, NoneDoubled
<1>7. \A t \in Slots : task'[t] = Idle /\ task'[t].st = "idle" BY <1>1 DEF Idle
<1>8. \A t \in Slots : TaskGood(task[t])' /\ Undisturbed(task[t])' /\ AllKnown(task[t])'
  BY <1>7 DEF TaskGood, Undisturbed, AllKnown, AtWork, Active, Stages
<1>9. \A t, u \in Slots : Apart(task[t], task[u])' BY <1>7 DEF Apart, AtWork, Active
<1> QED BY <1>1, <1>3, <1>4, <1>5, <1>6, <1>8, <1>9 DEF NetInv

-----------------------------------------------------------------------------
(* The theorems.                                                               *)

(* At the start, NetBox has the operator's rows. *)
LEMMA NetInit == Init => NetInv
<1> SUFFICES ASSUME Init PROVE NetInv OBVIOUS
<1> PICK r, a : r = [id |-> 1, dev |-> Curated, name |-> "mgmt"]
                /\ a = [id |-> 2, iface |-> 1, cidr |-> <<CHOOSE v \in V4 : TRUE, 24>>]
  OBVIOUS
<1>1. r.id = 1 /\ r.dev = Curated /\ a.id = 2 /\ a.iface = 1 /\ DOMAIN a = RowFields BY DEF RowFields
<1>2. /\ ifaces = {r} /\ addrs = {a} /\ lastId = 2 /\ contested = {} /\ DOMAIN dev = Devices
      /\ \A d \in Devices : dev[d].p4 = (IF d = Curated THEN 2 ELSE None) /\ dev[d].p6 = None
      /\ synced = [h \in Hosts |-> {}] /\ task = [t \in Slots |-> Idle]
  BY DEF Init
<1>3. \A t \in Slots : task[t] = Idle /\ task[t].st = "idle" BY <1>2 DEF Idle
<1>4. RowIds(ifaces) = {1} BY <1>1, <1>2 DEF RowIds
<1>5. RowInv
  <2>1. lastId \in Nat /\ 1 \in 1..lastId /\ 2 \in 1..lastId BY <1>2
  <2>2. \A s, u \in ifaces : s.id = u.id => s = u BY <1>2
  <2>3. \A b, e \in addrs : b.id = e.id => b = e BY <1>2
  <2>4. \A s \in ifaces : s.id \in 1..lastId BY <1>1, <1>2, <2>1
  <2>5. \A b \in addrs : DOMAIN b = RowFields /\ b.id \in 1..lastId /\ b.iface \in RowIds(ifaces)
    BY <1>1, <1>2, <1>4, <2>1
  <2> QED BY <2>1, <2>2, <2>3, <2>4, <2>5 DEF RowInv
<1>6. PrimaryInv
  <2> SUFFICES ASSUME NEW d \in Devices, NEW p \in {dev[d].p4, dev[d].p6} \ {None}
               PROVE  p \in RowIds(AddrsOf(d))
    BY DEF PrimaryInv
  <2>1. d = Curated /\ p = 2 BY <1>2
  <2>2. r \in OnDevice(d) BY <1>1, <1>2, <2>1 DEF OnDevice
  <2>3. a \in AddrsOf(d) BY <1>1, <1>2, <2>2 DEF AddrsOf
  <2> QED BY <1>1, <2>1, <2>3 DEF RowIds
<1>7. SyncInv BY <1>2 DEF SyncInv
<1>8. \A d \in Devices : NoneDoubled(d) BY <1>2 DEF NoneDoubled, AddrsOf
<1>9. \A t \in Slots : TaskGood(task[t]) /\ Undisturbed(task[t]) /\ AllKnown(task[t])
  BY <1>3 DEF TaskGood, Undisturbed, AllKnown, AtWork, Active, Stages
<1>10. \A t, u \in Slots : Apart(task[t], task[u]) BY <1>3 DEF Apart, AtWork, Active
<1> QED BY <1>2, <1>5, <1>6, <1>7, <1>8, <1>9, <1>10 DEF NetInv

\* Nothing changes on a device but by the task that is at work on it.
OwnWork == \A d \in Devices : Content(d)' # Content(d) =>
             \E t \in Slots : AtWork(task[t]) /\ d = task[t].dev

(* A step of any task. *)
LEMMA TaskSteps ==
  ASSUME NetInv, NEW t \in Slots, Step(t)
  PROVE  NetInv' /\ Own(t)
<1>1. ASSUME UNCHANGED <<dev, ifaces, addrs>> PROVE Own(t) BY <1>1 DEF Own, Content, OnDevice, AddrsOf
<1>2. CASE Dedup(t) BY <1>1, <1>2, Dedups DEF Dedup
<1>3. CASE Match(t)
  <2>1. UNCHANGED <<dev, ifaces, addrs>> BY <1>3, Zenon DEF Match
  <2> QED BY <1>1, <1>3, <2>1, Matches
<1>4. CASE ReadInterfaces(t) BY <1>1, <1>4, ReadsInterfaces DEF ReadInterfaces
<1>5. CASE ReadAddresses(t) BY <1>1, <1>5, ReadsAddresses DEF ReadAddresses
<1>6. CASE create_interface(t) BY <1>6, CreatesInterface
<1>7. CASE move_ip(t) BY <1>7, MovesIp
<1>8. CASE create_ip(t) BY <1>8, CreatesIp
<1>9. CASE finalize_device(t) BY <1>9, FinalizesDevice
<1>10. CASE delete_ip(t) BY <1>10, DeletesIp
<1>11. CASE delete_interface(t) BY <1>11, DeletesInterface
<1>12. CASE CallFails(t) \/ CallRejected(t) BY <1>1, <1>12, FailsCall DEF CallFails, CallRejected
<1>13. CASE KeepInterface(t) BY <1>1, <1>13, KeepsInterface DEF KeepInterface
<1>14. CASE KeepIp(t) BY <1>1, <1>14, KeepsIp DEF KeepIp
<1>15. CASE SkipIp(t) BY <1>1, <1>15, SkipsIp DEF SkipIp
<1>16. CASE mark_synced(t) BY <1>1, <1>16, MarksSynced DEF mark_synced
<1> QED BY <1>2, <1>3, <1>4, <1>5, <1>6, <1>7, <1>8, <1>9, <1>10, <1>11, <1>12, <1>13, <1>14, <1>15,
           <1>16 DEF Step, Call

(* Every step keeps the invariant. *)
LEMMA NetNext == NetInv /\ [Next]_vars => NetInv' /\ OwnWork
<1> SUFFICES ASSUME NetInv, [Next]_vars PROVE NetInv' /\ OwnWork OBVIOUS
<1>1. ASSUME UNCHANGED <<dev, ifaces, addrs>> PROVE OwnWork BY <1>1 DEF OwnWork, Content, OnDevice, AddrsOf
<1>2. ASSUME NEW h \in Hosts, Arrive(h) PROVE NetInv' /\ OwnWork BY <1>1, <1>2, Arrives DEF Arrive
<1>3. ASSUME NEW t \in Slots, Step(t) PROVE NetInv' /\ OwnWork BY <1>3, TaskSteps DEF Own, OwnWork
<1>4. CASE Restart BY <1>1, <1>4, Restarts DEF Restart
<1>5. CASE UNCHANGED vars
  <2>1. UNCHANGED <<dev, ifaces, addrs, lastId, synced, task, torn, contested>> BY <1>5 DEF vars
  <2>2. NetInv'
    <3>1. SyncInv' BY <2>1, QuietSync DEF NetInv
    <3>2. RowInv' /\ PrimaryInv' /\ \A d \in Devices : NoneDoubled(d)'
      BY <2>1 DEF NetInv, RowInv, PrimaryInv, NoneDoubled, OnDevice, AddrsOf
    <3>3. ASSUME NEW t \in Slots PROVE TaskGood(task[t])' /\ Undisturbed(task[t])' /\ AllKnown(task[t])'
      <4> PICK x : x = task[t] OBVIOUS
      <4>1. Sound(x) BY DEF NetInv, Sound
      <4>2. Sound(x)' BY <2>1, <4>1, SoundStays
      <4>3. TaskGood(x)' /\ Undisturbed(x)' /\ AllKnown(x)' BY <4>2 DEF Sound
      <4>4. TaskGood(task[t])' BY <2>1, <4>3 DEF TaskGood, RowsKnown, IfaceOn, AddrOn
      <4>5. Undisturbed(task[t])' BY <2>1, <4>3 DEF Undisturbed, AtWork
      <4>6. AllKnown(task[t])' BY <2>1, <4>3 DEF AllKnown, Reconciled, Seated, OnDevice, AddrsOf
      <4> QED BY <4>4, <4>5, <4>6
    <3>4. \A t, u \in Slots : t # u => Apart(task[t], task[u])' BY <2>1 DEF NetInv, Apart
    <3> QED BY <2>1, <3>1, <3>2, <3>3, <3>4 DEF NetInv
  <2> QED BY <1>1, <2>1, <2>2
<1> QED BY <1>2, <1>3, <1>4, <1>5 DEF Next

(* The invariant holds in every state. *)
LEMMA NetAlways == Spec => []NetInv
<1>1. NetInv /\ [Next]_vars => NetInv' BY NetNext
<1> QED BY <1>1, NetInit, PTL DEF Spec

(* A primary IP never dangles on a device that no two hosts raced for, and no reconcile
   is about to delete one: reconcile finalizes before it deletes. *)
THEOREM PrimaryNeverDangles == Spec => []PrimaryStays
<1>1. NetInv => PrimaryStays
  <2> SUFFICES ASSUME NetInv, NEW d \in Devices \ contested
               PROVE  /\ {dev[d].p4, dev[d].p6} \ {None} \subseteq RowIds(AddrsOf(d))
                      /\ \A t \in Slots : task[t].st = "delete" /\ task[t].dev = d =>
                           RowIds(StaleIps(t)) \cap {dev[d].p4, dev[d].p6} = {}
    BY DEF PrimaryStays
  <2>1. {dev[d].p4, dev[d].p6} \ {None} \subseteq RowIds(AddrsOf(d)) BY DEF NetInv, PrimaryInv
  <2>2. ASSUME NEW t \in Slots, task[t].st = "delete", task[t].dev = d, NEW a \in StaleIps(t)
        PROVE  a.id \notin {dev[d].p4, dev[d].p6}
    <3> PICK x : x = task[t] OBVIOUS
    <3>1. RowsKnown(x) /\ Undisturbed(x) /\ AtWork(x) BY <2>2, AfterTheLoop
    <3>2. a \in x.old /\ a.id \notin x.kept BY DEF StaleIps
    <3>3. a.id \in 1..lastId /\ {x.p4, x.p6} \subseteq x.kept \cup {None} BY <3>1, <3>2 DEF RowsKnown
    <3>4. a.id # None BY <3>3 DEF NetInv, RowInv, None
    <3>5. dev[d].p4 = x.p4 /\ dev[d].p6 = x.p6 BY <2>2, <3>1 DEF Undisturbed
    <3> QED BY <3>2, <3>3, <3>4, <3>5
  <2> QED BY <2>1, <2>2 DEF RowIds
<1> QED BY <1>1, NetAlways, PTL

(* No prefix is twice on a device that no two hosts raced for, whatever answers were
   lost and calls retried, but for addresses that a host has on two interfaces. *)
THEOREM RowsNeverDoubled == Spec => []NoDuplicateRows
<1>1. NetInv => NoDuplicateRows BY DEF NetInv, NoneDoubled, Doubled, NoDuplicateRows
<1> QED BY <1>1, NetAlways, PTL

(* A snapshot that upsert is about to drop as Unchanged is what the device shows, every
   address under an interface that has it, and under each unless there are several,
   unless a later upsert of the host wrote and then failed, or two hosts raced. *)
THEOREM UnchangedIsCurrent == Spec => []SyncedIsCurrent
<1>1. NetInv => SyncedIsCurrent
  <2> SUFFICES ASSUME NetInv, NEW t \in Slots, task[t].st = "wait", already_synced(task[t].host, Hash(t)),
                      task[t].host \notin torn, \A d \in contested : SerialOf[d] # task[t].obs.serial
               PROVE  Shows(task[t].host, task[t].obs)
    BY DEF SyncedIsCurrent, SaysUnchanged, Disputed
  <2> PICK x, q : x = task[t] /\ q = Hash(t) OBVIOUS
  <2>1. x.host \in Hosts BY DEF NetInv, TaskGood
  <2>2. q[1] = x.obs.serial /\ q[3] = x.obs.ifs /\ q \in synced[x.host]
    BY DEF Hash, content_hash, already_synced
  <2> PICK obs : obs = [serial |-> q[1], ifs |-> q[3]] OBVIOUS
  <2>3. Shows(x.host, obs) BY <2>1, <2>2 DEF NetInv, SyncInv
  <2>4. obs.serial = x.obs.serial /\ obs.ifs = x.obs.ifs BY <2>2
  <2> QED BY <2>3, <2>4 DEF Shows
<1> QED BY <1>1, NetAlways, PTL

\* What OnlyItsOwnDevice says of a step.
AsOwner ==
  \A d \in Devices : Content(d)' # Content(d) =>
    \E t \in Slots :
      /\ Reconciling(t) /\ task[t].dev = d
      /\ SerialOf[d] \in Genuine(task[t].host)
      /\ \A e \in Devices \ {d} : SerialOf[e] # SerialOf[d]
      /\ dev[d].claim \in {NoHost, task[t].host} \/ d \in contested

(* Whatever changes on a device is the work of an upsert of a host whose own serial is
   the device's alone, and which holds the claim or found none, but for hosts that raced. *)
THEOREM DevicesAreNotStolen == Spec => OnlyItsOwnDevice
<1>1. ASSUME NetInv, [Next]_vars PROVE AsOwner
  <2> SUFFICES ASSUME NEW d \in Devices, Content(d)' # Content(d)
               PROVE  \E t \in Slots :
                        /\ Reconciling(t) /\ task[t].dev = d
                        /\ SerialOf[d] \in Genuine(task[t].host)
                        /\ \A e \in Devices \ {d} : SerialOf[e] # SerialOf[d]
                        /\ dev[d].claim \in {NoHost, task[t].host} \/ d \in contested
    BY DEF AsOwner
  <2>1. PICK t \in Slots : AtWork(task[t]) /\ d = task[t].dev BY <1>1, NetNext DEF OwnWork
  <2> PICK x : x = task[t] OBVIOUS
  <2>2. /\ Matched(x) /\ Undisturbed(x) /\ x.host \in Hosts /\ x.obs.serial # NoSerial
        /\ Snapshot(x.host, x.obs)
    BY <1>1, <2>1 DEF NetInv, TaskGood, AtWork
  <2>3. x.obs.serial \in Genuine(x.host) BY <2>2, OwnSerial
  <2>4. SerialOf[d] = x.obs.serial /\ \A e \in Devices \ {d} : SerialOf[e] # SerialOf[d]
    BY <2>1, <2>2 DEF Matched
  <2>5. dev[d].claim \in {NoHost, x.host} \/ d \in contested BY <2>1, <2>2 DEF Undisturbed
  <2>6. Reconciling(t) BY <2>1 DEF AtWork, Reconciling
  <2> QED BY <2>1, <2>3, <2>4, <2>5, <2>6
<1>2. NetInv /\ [Next]_vars => [AsOwner]_vars BY <1>1
<1> QED BY <1>2, NetAlways, PTL DEF Spec, OnlyItsOwnDevice, AsOwner

=============================================================================
